-------------------------- MODULE AtomicWaitProofs --------------------------
(***************************************************************************)
(* Proofs about AtomicWaitClient, for any threads, objects, values, API    *)
(* level and bounds: the table entry stays consistent, no wake is lost,    *)
(* and the client of the wait functions sees the contract of AddressWait.  *)
(* And about WaitFunctions: the level that its callers settle on.          *)
(***************************************************************************)
EXTENDS AtomicWaitClient, WaitFunctions, SequenceTheorems, TLAPS

(* Each leaf is tried with SMT, then with Zenon, then with more time. *)
USE SMTT(10), ZenonT(10), SMTT(30)

(* What Without returns: the sequence without its i-th element. *)
LEMMA WithoutProperties ==
    ASSUME NEW S, NEW s \in Seq(S), NEW i \in 1..Len(s)
    PROVE  /\ Without(s, i) \in Seq(S)
           /\ Len(Without(s, i)) = Len(s) - 1
           /\ \A j \in 1..(Len(s) - 1) :
                Without(s, i)[j] = IF j < i THEN s[j] ELSE s[j + 1]
<1> DEFINE p == SubSeq(s, 1, i - 1)
           q == SubSeq(s, i + 1, Len(s))
<1>1. p \in Seq(S) /\ Len(p) = i - 1 /\ \A j \in 1..(i - 1) : p[j] = s[j]
  OBVIOUS
<1>2. /\ q \in Seq(S)
      /\ Len(q) = Len(s) - i
      /\ \A j \in 1..(Len(s) - i) : q[j] = s[i + j]
  OBVIOUS
<1> HIDE DEF p, q
<1>3. /\ p \o q \in Seq(S)
      /\ Len(p \o q) = Len(p) + Len(q)
      /\ \A j \in 1..(Len(p) + Len(q)) :
            (p \o q)[j] = IF j <= Len(p) THEN p[j] ELSE q[j - Len(p)]
  BY <1>1, <1>2, ConcatProperties
<1>4. Len(p \o q) = Len(s) - 1
  BY <1>1, <1>2, <1>3
<1>5. ASSUME NEW j \in 1..(Len(s) - 1)
      PROVE  (p \o q)[j] = IF j < i THEN s[j] ELSE s[j + 1]
  <2>1. CASE j < i
    <3>1. (p \o q)[j] = p[j]
      BY <1>1, <1>2, <1>3, <2>1
    <3> QED
      BY <3>1, <2>1, <1>1
  <2>2. CASE ~(j < i)
    <3>1. (p \o q)[j] = q[j - (i - 1)]
      BY <1>1, <1>2, <1>3, <2>2
    <3>2. j - (i - 1) \in 1..(Len(s) - i) /\ i + (j - (i - 1)) = j + 1
      BY <2>2
    <3> QED
      BY <3>1, <3>2, <2>2, <1>2
  <2> QED
    BY <2>1, <2>2
<1> QED
  BY <1>3, <1>4, <1>5 DEF Without, p, q

-----------------------------------------------------------------------------
(* The labels of the client and of the wait functions. *)
USE DEF clientVars, ClientLabels, WaitLabels, LinkedLabels, OwnerLabels, AtomicWaitLabels

(* The table starts well typed. *)
LEMMA InitType == Init => TypeOK
<1> SUFFICES ASSUME Init PROVE TypeOK
  OBVIOUS
<1>1. (CHOOSE a \in Addresses : TRUE) \in Addresses
  BY AddressesAssumption
<1>2. Wait_list \in Seq(Threads)
  BY DEF Init, WaitInit
<1>3. 0 \in 0..MaxSpurious /\ 0 \in 0..MaxOps
  BY SpuriousAssumption, OpsAssumption
<1> QED
  BY <1>1, <1>2, <1>3, ValuesAssumption DEF Init, WaitInit, TypeOK

(* The steps inside __std_atomic_wait_direct keep the types. *)
LEMMA WaitStepType ==
    ASSUME TypeOK, NEW t \in Threads, WaitStep(t), UNCHANGED clientVars
    PROVE  TypeOK'
<1> USE DEF TypeOK, Goto, argVars, tableVars
<1>1. CASE Wait_enter(t)
  BY <1>1 DEF Wait_enter
<1>2. ASSUME Unlink(t) PROVE Wait_list' \in Seq(Threads)
  BY <1>2, WithoutProperties DEF Unlink
<1>3. CASE Wait_compare(t)
  BY <1>2, <1>3 DEF Wait_compare
<1>4. CASE Wait_sleep(t)
  BY <1>4 DEF Wait_sleep
<1>5. CASE Wait_spurious(t)
  BY <1>5, SpuriousAssumption DEF Wait_spurious
<1>6. CASE Wait_timeout(t)
  BY <1>6 DEF Wait_timeout
<1>7. CASE Deadline_passes(t)
  BY <1>7 DEF Deadline_passes
<1>8. CASE Wait_relock(t)
  BY <1>2, <1>8 DEF Wait_relock
<1>9. CASE Wait_on_address(t)
  BY <1>9 DEF Wait_on_address
<1> QED
  BY <1>1, <1>3, <1>4, <1>5, <1>6, <1>7, <1>8, <1>9 DEF WaitStep

(* A notify changes pc and nothing else. *)
LEMMA NotifyType ==
    ASSUME TypeOK, NEW t \in Threads, NEW a \in Addresses,
           Notify_one_direct(t, a, "idle") \/ Notify_all_direct(t, a, "idle")
    PROVE  /\ pc' \in [Threads -> ClientLabels \cup WaitLabels]
           /\ UNCHANGED <<mem, tableVars, argVars, spurious>>
<1> USE DEF TypeOK, Goto, WakeContexts, WakeByAddress
<1>1. CASE Notify_one_direct(t, a, "idle")
  BY <1>1 DEF Notify_one_direct, Notify_one_indirect
<1>2. CASE Notify_all_direct(t, a, "idle")
  BY <1>2 DEF Notify_all_direct, Notify_all_indirect
<1> QED
  BY <1>1, <1>2

(* The bound on operations is never exceeded. *)
LEMMA StartOpType ==
    ASSUME TypeOK, NEW t \in Threads, StartOp(t)
    PROVE  ops' \in 0..MaxOps
BY OpsAssumption DEF TypeOK, StartOp

(* Every step of the clients and of the table keeps the types. *)
LEMMA NextType == TypeOK /\ [Next]_vars => TypeOK'
<1> SUFFICES ASSUME TypeOK, [Next]_vars PROVE TypeOK'
  OBVIOUS
<1> USE DEF argVars, tableVars
<1>1. CASE UNCHANGED vars
  BY <1>1 DEF TypeOK, vars, waitVars
<1>2. ASSUME NEW t \in Threads, NEW a \in Addresses, NEW v \in Values,
             Call_wait(t, a, v)
      PROVE  TypeOK'
  BY <1>2, StartOpType DEF TypeOK, Call_wait, Atomic_wait, Goto
<1>3. ASSUME NEW t \in Threads, Run_wait(t) PROVE TypeOK'
  BY <1>3 DEF TypeOK, Run_wait, Atomic_wait_direct, Wait_direct, Goto
<1>4. ASSUME NEW t \in Threads, WaitStep(t), UNCHANGED clientVars
      PROVE  TypeOK'
  BY <1>4, WaitStepType
<1>5. ASSUME NEW t \in Threads, NEW a \in Addresses, NEW v \in Values,
             Store(t, a, v)
      PROVE  TypeOK'
  BY <1>5, StartOpType DEF TypeOK, Store, Goto
<1>6. ASSUME NEW t \in Threads, Notify_all(t) PROVE TypeOK'
  <2>1. target[t] \in Addresses
    BY DEF TypeOK
  <2>2. /\ pc' \in [Threads -> ClientLabels \cup WaitLabels]
        /\ UNCHANGED <<mem, tableVars, argVars, spurious>>
    BY <1>6, <2>1, NotifyType DEF Notify_all
  <2>3. alls' \in [Addresses -> Nat] /\ UNCHANGED <<target, ops, ones>>
    BY <1>6, <2>1 DEF Notify_all, TypeOK
  <2> QED
    BY <2>2, <2>3 DEF TypeOK
<1>7. ASSUME NEW t \in Threads, NEW a \in Addresses, Notify_one(t, a)
      PROVE  TypeOK'
  <2>1. /\ pc' \in [Threads -> ClientLabels \cup WaitLabels]
        /\ UNCHANGED <<mem, tableVars, argVars, spurious>>
    BY <1>7, NotifyType DEF Notify_one
  <2>2. ones' \in [Addresses -> Nat] /\ UNCHANGED <<target, alls>>
    BY <1>7 DEF Notify_one, TypeOK
  <2>3. ops' \in 0..MaxOps
    BY <1>7, StartOpType DEF Notify_one
  <2> QED
    BY <2>1, <2>2, <2>3 DEF TypeOK
<1> QED
  BY <1>1, <1>2, <1>3, <1>4, <1>5, <1>6, <1>7 DEF Next, Terminating

(* The state stays well typed for every instance. *)
THEOREM TypeCorrect == Spec => []TypeOK
<1> QED
  BY InitType, NextType, PTL DEF Spec

-----------------------------------------------------------------------------
(* Linking a context adds its thread to the list, once. *)
LEMMA LinkList ==
    ASSUME TypeOK, NEW t \in Threads, Distinct, ~Linked(t),
           Wait_list' = Append(Wait_list, t)
    PROVE  /\ \A u \in Threads : Linked(u)' <=> Linked(u) \/ u = t
           /\ Distinct'
<1> DEFINE n == Len(Wait_list)
<1>1. /\ Wait_list \in Seq(Threads)
      /\ n \in Nat
      /\ Len(Wait_list') = n + 1
      /\ \A i \in 1..n : Wait_list'[i] = Wait_list[i]
      /\ Wait_list'[n + 1] = t
  BY DEF TypeOK
<1>2. \A u \in Threads : Linked(u)' <=> Linked(u) \/ u = t
  <2> SUFFICES ASSUME NEW u \in Threads PROVE Linked(u)' <=> Linked(u) \/ u = t
    OBVIOUS
  <2>1. ASSUME Linked(u) PROVE Linked(u)'
    <3>1. PICK i \in 1..n : Wait_list[i] = u
      BY <2>1 DEF Linked
    <3>2. i \in 1..(n + 1) /\ Wait_list'[i] = u
      BY <3>1, <1>1
    <3> QED
      BY <3>2, <1>1 DEF Linked
  <2>2. ASSUME u = t PROVE Linked(u)'
    <3>1. n + 1 \in 1..(n + 1)
      BY <1>1
    <3> QED
      BY <3>1, <2>2, <1>1 DEF Linked
  <2>3. ASSUME Linked(u)', u # t PROVE Linked(u)
    <3>1. PICK i \in 1..(n + 1) : Wait_list'[i] = u
      BY <2>3, <1>1 DEF Linked
    <3>2. i \in 1..n
      BY <3>1, <2>3, <1>1
    <3> QED
      BY <3>1, <3>2, <1>1 DEF Linked
  <2> QED
    BY <2>1, <2>2, <2>3
<1>3. Distinct'
  <2> SUFFICES ASSUME NEW i \in 1..(n + 1), NEW j \in 1..(n + 1),
                      Wait_list'[i] = Wait_list'[j]
               PROVE  i = j
    BY <1>1 DEF Distinct
  <2>1. CASE i \in 1..n /\ j \in 1..n
    BY <2>1, <1>1 DEF Distinct
  <2>2. CASE i = n + 1 /\ j \in 1..n
    BY <2>2, <1>1 DEF Linked
  <2>3. CASE i \in 1..n /\ j = n + 1
    BY <2>3, <1>1 DEF Linked
  <2> QED
    BY <2>1, <2>2, <2>3, <1>1
<1> QED
  BY <1>2, <1>3

(* Unlinking a context removes its thread from the list, and no other. *)
LEMMA UnlinkList ==
    ASSUME TypeOK, NEW t \in Threads, Distinct, Unlink(t)
    PROVE  /\ \A u \in Threads : Linked(u)' <=> Linked(u) /\ u # t
           /\ Distinct'
<1> DEFINE n == Len(Wait_list)
<1>1. PICK k \in 1..n : Wait_list[k] = t /\ Wait_list' = Without(Wait_list, k)
  BY DEF Unlink
<1>2. Wait_list \in Seq(Threads) /\ n \in Nat
  BY DEF TypeOK
<1>3. /\ Len(Wait_list') = n - 1
      /\ \A j \in 1..(n - 1) :
            Wait_list'[j] = IF j < k THEN Wait_list[j] ELSE Wait_list[j + 1]
  BY <1>1, <1>2, WithoutProperties
<1> HIDE DEF n
<1>4. \A u \in Threads : Linked(u)' <=> Linked(u) /\ u # t
  <2> SUFFICES ASSUME NEW u \in Threads
               PROVE  Linked(u)' <=> Linked(u) /\ u # t
    OBVIOUS
  <2>1. ASSUME Linked(u), u # t PROVE Linked(u)'
    <3>1. PICK i \in 1..n : Wait_list[i] = u
      BY <2>1 DEF Linked, n
    <3>2. i # k
      BY <3>1, <2>1, <1>1
    <3>3. CASE i < k
      <4>1. i \in 1..(n - 1) /\ Wait_list'[i] = u
        BY <3>1, <3>3, <1>2, <1>3
      <4> QED
        BY <4>1, <1>3 DEF Linked
    <3>4. CASE i > k
      <4>1. i - 1 \in 1..(n - 1) /\ ~(i - 1 < k) /\ (i - 1) + 1 = i
        BY <3>1, <3>4, <1>2
      <4>2. Wait_list'[i - 1] = u
        BY <4>1, <3>1, <1>3
      <4> QED
        BY <4>1, <4>2, <1>3 DEF Linked
    <3> QED
      BY <3>2, <3>3, <3>4, <1>2
  <2>2. ASSUME Linked(u)' PROVE Linked(u) /\ u # t
    <3>1. PICK j \in 1..(n - 1) : Wait_list'[j] = u
      BY <2>2, <1>3 DEF Linked
    <3>2. CASE j < k
      <4>1. j \in 1..n /\ Wait_list[j] = u
        BY <3>1, <3>2, <1>2, <1>3
      <4>2. Wait_list[j] # Wait_list[k]
        BY <4>1, <3>2, <1>2 DEF Distinct, n
      <4> QED
        BY <4>1, <4>2, <1>1 DEF Linked, n
    <3>3. CASE ~(j < k)
      <4>1. j + 1 \in 1..n /\ Wait_list[j + 1] = u /\ j + 1 # k
        BY <3>1, <3>3, <1>2, <1>3
      <4>2. Wait_list[j + 1] # Wait_list[k]
        BY <4>1, <1>2 DEF Distinct, n
      <4> QED
        BY <4>1, <4>2, <1>1 DEF Linked, n
    <3> QED
      BY <3>2, <3>3
  <2> QED
    BY <2>1, <2>2
<1>5. Distinct'
  <2> SUFFICES ASSUME NEW i \in 1..(n - 1), NEW j \in 1..(n - 1),
                      Wait_list'[i] = Wait_list'[j]
               PROVE  i = j
    BY <1>3 DEF Distinct
  <2> DEFINE at(x) == IF x < k THEN x ELSE x + 1
  <2>1. /\ at(i) \in 1..n /\ at(j) \in 1..n
        /\ Wait_list'[i] = Wait_list[at(i)]
        /\ Wait_list'[j] = Wait_list[at(j)]
    BY <1>2, <1>3
  <2>2. at(i) = at(j)
    BY <2>1 DEF Distinct, n
  <2> QED
    BY <2>2, <1>2
<1> QED
  BY <1>4, <1>5

-----------------------------------------------------------------------------
(* The entry starts free and empty, as nobody waits. *)
LEMMA InitEntry == Init => EntryIntegrity
<1> SUFFICES ASSUME Init PROVE EntryIntegrity
  OBVIOUS
<1>1. Wait_list = <<>> /\ Lock = NoThread /\ \A t \in Threads : pc[t] = "idle"
  BY DEF Init, WaitInit
<1>2. ListIntegrity
  BY <1>1 DEF ListIntegrity, Linked, Distinct
<1>3. LockOwner /\ LevelLabels
  BY <1>1, NoThreadAssumption DEF LockOwner, LevelLabels
<1> QED
  BY <1>2, <1>3 DEF EntryIntegrity

(* A step that leaves the table alone keeps it consistent if it moves no   *)
(* thread across the boundary of the labels that link or that own.         *)
LEMMA QuietEntry ==
    ASSUME EntryIntegrity, UNCHANGED tableVars,
           \A u \in Threads :
                \/ pc'[u] = pc[u]
                \/ /\ Srwlock => (pc'[u] \in LinkedLabels <=> pc[u] \in LinkedLabels)
                   /\ pc'[u] \in OwnerLabels <=> pc[u] \in OwnerLabels
                   /\ ~Srwlock => pc'[u] \notin {"compare", "sleep", "awake", "expired"}
    PROVE  EntryIntegrity'
<1>1. ListIntegrity'
  BY DEF EntryIntegrity, ListIntegrity, Linked, Distinct, tableVars, Srwlock
<1>2. LockOwner'
  BY DEF EntryIntegrity, LockOwner, tableVars
<1>3. LevelLabels'
  BY DEF EntryIntegrity, LevelLabels, Srwlock
<1> QED
  BY <1>1, <1>2, <1>3 DEF EntryIntegrity

(* The steps inside __std_atomic_wait_direct keep list and lock right. *)
LEMMA WaitStepEntry ==
    ASSUME TypeOK, EntryIntegrity, NEW t \in Threads, WaitStep(t)
    PROVE  EntryIntegrity'
<1>1. CASE Wait_enter(t)
  <2>1. /\ Srwlock /\ pc[t] = "enter" /\ Lock = NoThread /\ Lock' = t
        /\ Wait_list' = Append(Wait_list, t)
        /\ pc' = [pc EXCEPT ![t] = "compare"]
    BY <1>1 DEF Wait_enter, Goto
  <2>2. ~Linked(t) /\ Distinct
    BY <2>1 DEF EntryIntegrity, ListIntegrity
  <2>3. (\A u \in Threads : Linked(u)' <=> Linked(u) \/ u = t) /\ Distinct'
    BY <2>1, <2>2, LinkList
  <2>4. ListIntegrity'
    BY <2>1, <2>3 DEF EntryIntegrity, ListIntegrity, TypeOK, Srwlock
  <2>5. LockOwner'
    BY <2>1, NoThreadAssumption DEF EntryIntegrity, LockOwner, TypeOK
  <2>6. LevelLabels'
    BY <2>1 DEF LevelLabels, Srwlock
  <2> QED
    BY <2>4, <2>5, <2>6 DEF EntryIntegrity
<1>2. ASSUME Unlink(t), pc[t] \in LinkedLabels, pc' = [pc EXCEPT ![t] = "ret"]
      PROVE  ListIntegrity'
  <2>1. (\A u \in Threads : Linked(u)' <=> Linked(u) /\ u # t) /\ Distinct'
    BY <1>2, UnlinkList DEF EntryIntegrity, ListIntegrity
  <2> QED
    BY <2>1, <1>2 DEF EntryIntegrity, ListIntegrity, TypeOK, Srwlock
<1>3. CASE Wait_compare(t)
  <2>1. pc[t] = "compare" /\ Lock = t
    BY <1>3 DEF Wait_compare, EntryIntegrity, LockOwner
  <2>2. CASE UNCHANGED tableVars /\ pc' = [pc EXCEPT ![t] = "sleep"]
    <3>1. Srwlock
      BY <2>1 DEF EntryIntegrity, LevelLabels
    <3> QED
      BY <2>1, <2>2, <3>1, QuietEntry DEF TypeOK
  <2>3. CASE Unlink(t) /\ Lock' = NoThread /\ pc' = [pc EXCEPT ![t] = "ret"]
    <3>1. LockOwner'
      BY <2>1, <2>3, NoThreadAssumption DEF EntryIntegrity, LockOwner, TypeOK
    <3>2. LevelLabels'
      BY <2>3 DEF EntryIntegrity, LevelLabels, TypeOK, Srwlock
    <3> QED
      BY <2>1, <2>3, <1>2, <3>1, <3>2 DEF EntryIntegrity
  <2> QED
    BY <1>3, <2>2, <2>3 DEF Wait_compare, Goto
<1>4. CASE Wait_sleep(t)
  <2>1. /\ pc[t] = "sleep" /\ Lock = t /\ Lock' = NoThread
        /\ pc' = [pc EXCEPT ![t] = "asleep"] /\ UNCHANGED Wait_list
    BY <1>4 DEF Wait_sleep, Goto, EntryIntegrity, LockOwner
  <2>2. ListIntegrity'
    <3>1. /\ \A u \in Threads : Linked(u)' <=> Linked(u)
          /\ Distinct' <=> Distinct
      BY <2>1 DEF Linked, Distinct
    <3>2. \A u \in Threads : pc'[u] \in LinkedLabels <=> pc[u] \in LinkedLabels
      BY <2>1 DEF TypeOK
    <3> QED
      BY <3>1, <3>2 DEF EntryIntegrity, ListIntegrity, Srwlock
  <2>3. LockOwner'
    BY <2>1, NoThreadAssumption DEF EntryIntegrity, LockOwner, TypeOK
  <2>4. LevelLabels'
    BY <2>1 DEF EntryIntegrity, LevelLabels, TypeOK, Srwlock
  <2> QED
    BY <2>2, <2>3, <2>4 DEF EntryIntegrity
<1>5. CASE Wait_spurious(t)
  BY <1>5, QuietEntry DEF Wait_spurious, Goto, TypeOK
<1>6. CASE Wait_timeout(t)
  BY <1>6, QuietEntry DEF Wait_timeout, Goto, TypeOK
<1>7. CASE Deadline_passes(t)
  BY <1>7, QuietEntry DEF Deadline_passes, tableVars
<1>8. CASE Wait_relock(t)
  <2>1. pc[t] \in {"awake", "expired"} /\ Lock = NoThread
    BY <1>8 DEF Wait_relock
  <2>2. Srwlock
    BY <2>1 DEF EntryIntegrity, LevelLabels
  <2>3. LevelLabels'
    BY <2>2 DEF LevelLabels, Srwlock
  <2>4. CASE Lock' = t /\ pc' = [pc EXCEPT ![t] = "compare"] /\ UNCHANGED Wait_list
    <3>1. ListIntegrity'
      <4>1. /\ \A u \in Threads : Linked(u)' <=> Linked(u)
            /\ Distinct' <=> Distinct
        BY <2>4 DEF Linked, Distinct
      <4>2. \A u \in Threads : pc'[u] \in LinkedLabels <=> pc[u] \in LinkedLabels
        BY <2>1, <2>4 DEF TypeOK
      <4> QED
        BY <4>1, <4>2 DEF EntryIntegrity, ListIntegrity, Srwlock
    <3>2. LockOwner'
      BY <2>1, <2>4, NoThreadAssumption DEF EntryIntegrity, LockOwner, TypeOK
    <3> QED
      BY <2>3, <3>1, <3>2 DEF EntryIntegrity
  <2>5. CASE Unlink(t) /\ pc' = [pc EXCEPT ![t] = "ret"] /\ UNCHANGED Lock
    <3>1. LockOwner'
      BY <2>1, <2>5 DEF EntryIntegrity, LockOwner, TypeOK
    <3> QED
      BY <2>1, <2>3, <2>5, <1>2, <3>1 DEF EntryIntegrity
  <2> QED
    BY <1>8, <2>4, <2>5 DEF Wait_relock, Goto
<1>9. CASE Wait_on_address(t)
  BY <1>9, QuietEntry DEF Wait_on_address, Goto, TypeOK
<1> QED
  BY <1>1, <1>3, <1>4, <1>5, <1>6, <1>7, <1>8, <1>9 DEF WaitStep

(* A notify wakes sleeping threads and moves its own thread to "idle". *)
LEMMA NotifyMoves ==
    ASSUME TypeOK, NEW t \in Threads, NEW a \in Addresses,
           Notify_one_direct(t, a, "idle") \/ Notify_all_direct(t, a, "idle"),
           NEW u \in Threads \ {t}
    PROVE  \/ pc'[u] = pc[u]
           \/ pc[u] = "asleep" /\ pc'[u] = IF Srwlock THEN "awake" ELSE "ret"
<1> USE DEF TypeOK, Goto, WakeContexts, WakeByAddress, Blocked
<1>1. CASE Notify_one_direct(t, a, "idle")
  BY <1>1 DEF Notify_one_direct, Notify_one_indirect
<1>2. CASE Notify_all_direct(t, a, "idle")
  BY <1>2 DEF Notify_all_direct, Notify_all_indirect
<1> QED
  BY <1>1, <1>2

(* The notifying thread itself goes back to its program. *)
LEMMA NotifyIdles ==
    ASSUME TypeOK, NEW t \in Threads, NEW a \in Addresses,
           Notify_one_direct(t, a, "idle") \/ Notify_all_direct(t, a, "idle")
    PROVE  pc'[t] = "idle"
<1> USE DEF TypeOK, Goto, WakeContexts, WakeByAddress, Blocked
<1>1. CASE Notify_one_direct(t, a, "idle")
  BY <1>1 DEF Notify_one_direct, Notify_one_indirect
<1>2. CASE Notify_all_direct(t, a, "idle")
  BY <1>2 DEF Notify_all_direct, Notify_all_indirect
<1> QED
  BY <1>1, <1>2

(* A notify leaves list and lock as they are, and right. *)
LEMMA NotifyEntry ==
    ASSUME TypeOK, EntryIntegrity, NEW t \in Threads, NEW a \in Addresses,
           pc[t] \in {"idle", "notify_all"},
           Notify_one_direct(t, a, "idle") \/ Notify_all_direct(t, a, "idle")
    PROVE  EntryIntegrity'
<1>1. UNCHANGED tableVars
  BY NotifyType
<1>2. pc'[t] = "idle"
  BY NotifyIdles
<1>3. \A u \in Threads \ {t} :
        \/ pc'[u] = pc[u]
        \/ pc[u] = "asleep" /\ pc'[u] = IF Srwlock THEN "awake" ELSE "ret"
  BY NotifyMoves
<1> QED
  BY <1>1, <1>2, <1>3, QuietEntry

(* EntryIntegrity is inductive relative to the types. *)
LEMMA NextEntry == TypeOK /\ EntryIntegrity /\ [Next]_vars => EntryIntegrity'
<1> SUFFICES ASSUME TypeOK, EntryIntegrity, [Next]_vars PROVE EntryIntegrity'
  OBVIOUS
<1>1. CASE UNCHANGED vars
  BY <1>1, QuietEntry DEF vars, waitVars, tableVars
<1>2. ASSUME NEW t \in Threads, NEW a \in Addresses, NEW v \in Values,
             Call_wait(t, a, v)
      PROVE  EntryIntegrity'
  BY <1>2, QuietEntry DEF Call_wait, StartOp, Atomic_wait, Goto, TypeOK
<1>3. ASSUME NEW t \in Threads, Run_wait(t) PROVE EntryIntegrity'
  BY <1>3, QuietEntry
    DEF Run_wait, Atomic_wait_direct, Wait_direct, Goto, TypeOK
<1>4. ASSUME NEW t \in Threads, WaitStep(t) PROVE EntryIntegrity'
  BY <1>4, WaitStepEntry
<1>5. ASSUME NEW t \in Threads, NEW a \in Addresses, NEW v \in Values,
             Store(t, a, v)
      PROVE  EntryIntegrity'
  BY <1>5, QuietEntry DEF Store, StartOp, Goto, TypeOK
<1>6. ASSUME NEW t \in Threads, Notify_all(t) PROVE EntryIntegrity'
  BY <1>6, NotifyEntry DEF Notify_all, TypeOK
<1>7. ASSUME NEW t \in Threads, NEW a \in Addresses, Notify_one(t, a)
      PROVE  EntryIntegrity'
  BY <1>7, NotifyEntry DEF Notify_one, StartOp
<1> QED
  BY <1>1, <1>2, <1>3, <1>4, <1>5, <1>6, <1>7 DEF Next, Terminating

(* The list holds exactly the contexts of the threads that wait in the     *)
(* entry, each once, and its lock is owned by the thread that compares.    *)
THEOREM EntryCorrect == Spec => []EntryIntegrity
<1> QED
  BY InitType, NextType, InitEntry, NextEntry, PTL DEF Spec

-----------------------------------------------------------------------------
(* After a notify_all nobody is asleep on its object. *)
LEMMA NotifyAllWakes ==
    ASSUME TypeOK, EntryIntegrity, NEW t \in Threads, NEW a \in Addresses,
           pc[t] = "notify_all", Notify_all_direct(t, a, "idle"),
           NEW u \in Threads, Storage[u] = a
    PROVE  pc'[u] \notin {"sleep", "asleep"}
<1>1. CASE Srwlock
  <2>1. /\ Lock = NoThread
        /\ pc' = [WakeContexts({Wait_list[i] : i \in Matching(a)})
                     EXCEPT ![t] = "idle"]
    BY <1>1 DEF Notify_all_direct, Notify_all_indirect
  <2>2. CASE pc[u] = "asleep"
    <3>1. Linked(u)
      BY <1>1, <2>2 DEF EntryIntegrity, ListIntegrity
    <3>2. u \in {Wait_list[i] : i \in Matching(a)}
      BY <3>1 DEF Linked, Matching
    <3> QED
      BY <2>1, <2>2, <3>2 DEF WakeContexts
  <2>3. pc[u] # "sleep"
    BY <2>1, NoThreadAssumption DEF EntryIntegrity, LockOwner
  <2>4. CASE pc[u] # "asleep"
    BY <2>1, <2>3, <2>4 DEF WakeContexts
  <2> QED
    BY <2>2, <2>4
<1>2. CASE ~Srwlock
  <2>1. pc' = [WakeByAddress(Blocked(a)) EXCEPT ![t] = "idle"]
    BY <1>2 DEF Notify_all_direct
  <2>2. pc[u] # "sleep"
    BY <1>2 DEF EntryIntegrity, LevelLabels
  <2> QED
    BY <2>1, <2>2 DEF WakeByAddress, Blocked
<1> QED
  BY <1>1, <1>2

(* The steps inside __std_atomic_wait_direct touch neither the objects nor *)
(* the notifiers, and go to sleep only on an unchanged value.              *)
LEMMA WaitStepMoves ==
    ASSUME TypeOK, NEW t \in Threads, WaitStep(t)
    PROVE  /\ UNCHANGED <<mem, Storage, Comparand>>
           /\ \A u \in Threads \ {t} : pc'[u] = pc[u]
           /\ pc[t] \in WaitLabels \cup ClientLabels
           /\ \/ pc'[t] = pc[t]
              \/ /\ pc[t] \in WaitLabels
                 /\ \/ pc'[t] \in WaitLabels \ {"sleep", "asleep"}
                    \/ /\ pc'[t] \in {"sleep", "asleep"}
                       /\ \/ pc[t] = "sleep"
                          \/ mem[Storage[t]] = Comparand[t]
<1> USE DEF TypeOK, Goto, argVars
<1>1. CASE Wait_enter(t)
  BY <1>1 DEF Wait_enter
<1>3. CASE Wait_compare(t)
  BY <1>3 DEF Wait_compare
<1>4. CASE Wait_sleep(t)
  BY <1>4 DEF Wait_sleep
<1>5. CASE Wait_spurious(t)
  BY <1>5 DEF Wait_spurious
<1>6. CASE Wait_timeout(t)
  BY <1>6 DEF Wait_timeout
<1>7. CASE Deadline_passes(t)
  BY <1>7 DEF Deadline_passes
<1>8. CASE Wait_relock(t)
  BY <1>8 DEF Wait_relock
<1>9. CASE Wait_on_address(t)
  BY <1>9 DEF Wait_on_address
<1> QED
  BY <1>1, <1>3, <1>4, <1>5, <1>6, <1>7, <1>8, <1>9 DEF WaitStep

(* NoMissedWake is inductive relative to the types and the entry. *)
LEMMA NextWake ==
    TypeOK /\ EntryIntegrity /\ NoMissedWake /\ [Next]_vars => NoMissedWake'
<1> SUFFICES ASSUME TypeOK, EntryIntegrity, NoMissedWake, [Next]_vars,
                    NEW u \in Threads,
                    pc'[u] \in {"sleep", "asleep"},
                    mem'[Storage'[u]] # Comparand'[u]
             PROVE  \E w \in Threads :
                        pc'[w] = "notify_all" /\ target'[w] = Storage'[u]
  BY DEF NoMissedWake
(* The notifier that u can rely on before the step, if u slept already. *)
<1>0. ASSUME pc[u] \in {"sleep", "asleep"}, mem[Storage[u]] # Comparand[u]
      PROVE  \E w \in Threads : pc[w] = "notify_all" /\ target[w] = Storage[u]
  BY <1>0 DEF NoMissedWake
<1>1. CASE UNCHANGED vars
  BY <1>1, <1>0 DEF vars, waitVars, clientVars
<1>2. ASSUME NEW t \in Threads, NEW a \in Addresses, NEW v \in Values,
             Call_wait(t, a, v)
      PROVE  \E w \in Threads :
                pc'[w] = "notify_all" /\ target'[w] = Storage'[u]
  <2>1. u # t /\ pc[t] = "idle"
    BY <1>2 DEF Call_wait, StartOp, Atomic_wait, Goto, TypeOK
  <2>2. /\ \A w \in Threads \ {t} : pc'[w] = pc[w]
        /\ Storage'[u] = Storage[u] /\ Comparand'[u] = Comparand[u]
        /\ UNCHANGED <<mem, target>>
    BY <2>1, <1>2 DEF Call_wait, Atomic_wait, Goto, TypeOK
  <2> QED
    BY <2>1, <2>2, <1>0
<1>3. ASSUME NEW t \in Threads, Run_wait(t)
      PROVE  \E w \in Threads :
                pc'[w] = "notify_all" /\ target'[w] = Storage'[u]
  <2>1. u # t /\ pc[t] \in {"wait_load", "ret"}
    BY <1>3 DEF Run_wait, Atomic_wait_direct, Wait_direct, Goto, TypeOK
  <2>2. /\ \A w \in Threads \ {t} : pc'[w] = pc[w]
        /\ Storage'[u] = Storage[u] /\ Comparand'[u] = Comparand[u]
        /\ UNCHANGED <<mem, target>>
    BY <2>1, <1>3
      DEF Run_wait, Atomic_wait_direct, Wait_direct, Goto, TypeOK
  <2> QED
    BY <2>1, <2>2, <1>0
<1>4. ASSUME NEW t \in Threads, WaitStep(t), UNCHANGED clientVars
      PROVE  \E w \in Threads :
                pc'[w] = "notify_all" /\ target'[w] = Storage'[u]
  <2>1. UNCHANGED <<mem, Storage, Comparand, target>>
    BY <1>4, WaitStepMoves
  <2>2. pc[u] \in {"sleep", "asleep"}
    BY <1>4, <2>1, WaitStepMoves
  <2>3. \A w \in Threads : pc[w] = "notify_all" => pc'[w] = "notify_all"
    BY <1>4, WaitStepMoves
  <2> QED
    BY <2>1, <2>2, <2>3, <1>0
<1>5. ASSUME NEW t \in Threads, NEW a \in Addresses, NEW v \in Values,
             Store(t, a, v)
      PROVE  \E w \in Threads :
                pc'[w] = "notify_all" /\ target'[w] = Storage'[u]
  <2>1. /\ pc[t] = "idle" /\ pc' = [pc EXCEPT ![t] = "notify_all"]
        /\ target' = [target EXCEPT ![t] = a]
        /\ mem' = [mem EXCEPT ![a] = v]
        /\ UNCHANGED <<Storage, Comparand>>
    BY <1>5 DEF Store, StartOp, Goto, argVars
  <2>2. CASE Storage[u] = a
    BY <2>1, <2>2 DEF TypeOK
  <2>3. CASE Storage[u] # a
    <3>1. pc[u] \in {"sleep", "asleep"} /\ mem[Storage[u]] # Comparand[u]
      BY <2>1, <2>3 DEF TypeOK
    <3>2. PICK w \in Threads : pc[w] = "notify_all" /\ target[w] = Storage[u]
      BY <3>1, <1>0
    <3>3. w # t
      BY <3>2, <2>1
    <3> QED
      BY <3>2, <3>3, <2>1 DEF TypeOK
  <2> QED
    BY <2>2, <2>3
<1>6. ASSUME NEW t \in Threads, Notify_all(t)
      PROVE  \E w \in Threads :
                pc'[w] = "notify_all" /\ target'[w] = Storage'[u]
  <2>1. /\ pc[t] = "notify_all" /\ target[t] \in Addresses
        /\ Notify_all_direct(t, target[t], "idle")
        /\ UNCHANGED target
    BY <1>6 DEF Notify_all, TypeOK
  <2>2. UNCHANGED <<mem, Storage, Comparand>>
    BY <2>1, NotifyType DEF argVars
  <2>3. Storage[u] # target[t]
    BY <2>1, NotifyAllWakes
  <2>4. u # t
    BY <2>1, NotifyIdles
  <2>5. pc[u] = pc'[u]
    BY <2>1, <2>4, NotifyMoves
  <2>6. PICK w \in Threads : pc[w] = "notify_all" /\ target[w] = Storage[u]
    BY <2>2, <2>5, <1>0
  <2>7. w # t
    BY <2>3, <2>6
  <2>8. pc'[w] = pc[w]
    BY <2>1, <2>6, <2>7, NotifyMoves
  <2> QED
    BY <2>1, <2>2, <2>6, <2>8
<1>7. ASSUME NEW t \in Threads, NEW a \in Addresses, Notify_one(t, a)
      PROVE  \E w \in Threads :
                pc'[w] = "notify_all" /\ target'[w] = Storage'[u]
  <2>1. pc[t] = "idle" /\ Notify_one_direct(t, a, "idle") /\ UNCHANGED target
    BY <1>7 DEF Notify_one, StartOp
  <2>2. UNCHANGED <<mem, Storage, Comparand>>
    BY <2>1, NotifyType DEF argVars
  <2>3. u # t
    BY <2>1, NotifyIdles
  <2>4. pc[u] = pc'[u]
    BY <2>1, <2>3, NotifyMoves
  <2>5. PICK w \in Threads : pc[w] = "notify_all" /\ target[w] = Storage[u]
    BY <2>2, <2>4, <1>0
  <2>6. w # t
    BY <2>1, <2>5
  <2>7. pc'[w] = pc[w]
    BY <2>1, <2>5, <2>6, NotifyMoves
  <2> QED
    BY <2>1, <2>2, <2>5, <2>7
<1> QED
  BY <1>1, <1>2, <1>3, <1>4, <1>5, <1>6, <1>7 DEF Next, Terminating

(* No wake is lost: a thread sleeps on a replaced value only while the     *)
(* thread that replaced it has its notify_all still to do.                 *)
THEOREM NoWakeIsLost == Spec => []NoMissedWake
<1>1. Init => NoMissedWake
  BY DEF Init, WaitInit, NoMissedWake
<1> QED
  BY <1>1, InitType, NextType, InitEntry, NextEntry, NextWake, PTL DEF Spec

-----------------------------------------------------------------------------
(* The wait table, with its lock, its list and its two API levels,         *)
(* implements the contract of module AddressWait.                          *)

USE DEF WaitLabels, LinkedLabels, ClientLabels, argVars, tableVars

InCall(t) == pc[t] \in WaitLabels

IsBlocked(t) == pc[t] \in {"sleep", "asleep"}

(* Two calls of different threads differ. *)
LEMMA CallOfInjective ==
    ASSUME NEW t, NEW u, CallOf(t) = CallOf(u)
    PROVE  t = u
<1>1. CallOf(t).thread = t /\ CallOf(u).thread = u
  BY DEF CallOf
<1> QED
  BY <1>1

(* A call is open, or blocked, exactly while its thread says so. *)
LEMMA CallsMember ==
    /\ \A c : c \in Calls <=> \E u \in Threads : InCall(u) /\ c = CallOf(u)
    /\ \A c : c \in BlockedCalls <=> \E u \in Threads : IsBlocked(u) /\ c = CallOf(u)
    /\ \A u \in Threads : CallOf(u) \in Calls <=> InCall(u)
    /\ \A u \in Threads : CallOf(u) \in BlockedCalls <=> IsBlocked(u)
<1>1. \A c : c \in Calls <=> \E u \in Threads : InCall(u) /\ c = CallOf(u)
  BY DEF Calls, InCall
<1>2. \A c : c \in BlockedCalls <=> \E u \in Threads : IsBlocked(u) /\ c = CallOf(u)
  BY DEF BlockedCalls, IsBlocked
<1>3. \A u \in Threads : CallOf(u) \in Calls <=> InCall(u)
  BY <1>1, CallOfInjective
<1>4. \A u \in Threads : CallOf(u) \in BlockedCalls <=> IsBlocked(u)
  BY <1>2, CallOfInjective
<1> QED
  BY <1>1, <1>2, <1>3, <1>4

(* The same after a step. *)
LEMMA CallsMemberNext ==
    /\ \A c : c \in Calls' <=> \E u \in Threads : InCall(u)' /\ c = CallOf(u)'
    /\ \A c : c \in BlockedCalls' <=> \E u \in Threads : IsBlocked(u)' /\ c = CallOf(u)'
BY DEF Calls, InCall, BlockedCalls, IsBlocked

(* A step of thread t that leaves the arguments of the other calls alone   *)
(* changes no call but that of t.                                          *)
LEMMA OneThreadMoves ==
    ASSUME NEW t \in Threads,
           \A u \in Threads \ {t} : pc'[u] = pc[u] /\ CallOf(u)' = CallOf(u),
           InCall(t) /\ InCall(t)' => CallOf(t)' = CallOf(t)
    PROVE  /\ InCall(t) <=> InCall(t)' => Calls' = Calls
           /\ ~InCall(t) /\ InCall(t)' => Calls' = Calls \cup {CallOf(t)'}
           /\ InCall(t) /\ ~InCall(t)' => Calls' = Calls \ {CallOf(t)}
           /\ IsBlocked(t) <=> IsBlocked(t)' => BlockedCalls' = BlockedCalls
           /\ ~IsBlocked(t) /\ IsBlocked(t)' =>
                    BlockedCalls' = BlockedCalls \cup {CallOf(t)'}
           /\ IsBlocked(t) /\ ~IsBlocked(t)' =>
                    BlockedCalls' = BlockedCalls \ {CallOf(t)}
<1>1. /\ \A u \in Threads \ {t} : InCall(u)' <=> InCall(u)
      /\ \A u \in Threads \ {t} : IsBlocked(u)' <=> IsBlocked(u)
      /\ IsBlocked(t) => InCall(t)
      /\ IsBlocked(t)' => InCall(t)'
  BY DEF InCall, IsBlocked
<1>2. \A u \in Threads : CallOf(u) = CallOf(t) => u = t
  BY CallOfInjective
<1>3. InCall(t) <=> InCall(t)' => Calls' = Calls
  BY <1>1, CallsMember, CallsMemberNext
<1>4. ~InCall(t) /\ InCall(t)' => Calls' = Calls \cup {CallOf(t)'}
  <2> SUFFICES ASSUME ~InCall(t), InCall(t)', NEW c
               PROVE  c \in Calls' <=> c \in Calls \/ c = CallOf(t)'
    OBVIOUS
  <2>1. c \in Calls' <=> \/ \E u \in Threads \ {t} : InCall(u) /\ c = CallOf(u)
                         \/ c = CallOf(t)'
    BY <1>1, CallsMemberNext
  <2>2. c \in Calls <=> \E u \in Threads \ {t} : InCall(u) /\ c = CallOf(u)
    BY CallsMember
  <2> QED
    BY <2>1, <2>2
<1>5. InCall(t) /\ ~InCall(t)' => Calls' = Calls \ {CallOf(t)}
  <2> SUFFICES ASSUME InCall(t), ~InCall(t)', NEW c
               PROVE  c \in Calls' <=> c \in Calls /\ c # CallOf(t)
    OBVIOUS
  <2>1. c \in Calls' <=> \E u \in Threads \ {t} : InCall(u) /\ c = CallOf(u)
    BY <1>1, CallsMemberNext
  <2>2. c \in Calls <=> \E u \in Threads : InCall(u) /\ c = CallOf(u)
    BY CallsMember
  <2> QED
    BY <2>1, <2>2, <1>2
<1>6. IsBlocked(t) <=> IsBlocked(t)' => BlockedCalls' = BlockedCalls
  <2> SUFFICES ASSUME IsBlocked(t) <=> IsBlocked(t)', NEW c
               PROVE  c \in BlockedCalls' <=> c \in BlockedCalls
    OBVIOUS
  <2>1. \A u \in Threads : /\ IsBlocked(u)' <=> IsBlocked(u)
                           /\ IsBlocked(u) => CallOf(u)' = CallOf(u)
    BY <1>1
  <2>2. c \in BlockedCalls' <=> \E u \in Threads : IsBlocked(u)' /\ c = CallOf(u)'
    BY CallsMemberNext
  <2>3. c \in BlockedCalls <=> \E u \in Threads : IsBlocked(u) /\ c = CallOf(u)
    BY CallsMember
  <2> QED
    BY <2>1, <2>2, <2>3
<1>7. ~IsBlocked(t) /\ IsBlocked(t)' =>
            BlockedCalls' = BlockedCalls \cup {CallOf(t)'}
  BY <1>1, CallsMember, CallsMemberNext
<1>8. IsBlocked(t) /\ ~IsBlocked(t)' =>
            BlockedCalls' = BlockedCalls \ {CallOf(t)}
  BY <1>1, <1>2, CallsMember, CallsMemberNext
<1> QED
  BY <1>3, <1>4, <1>5, <1>6, <1>7, <1>8

-----------------------------------------------------------------------------
(* A call of the contract is what CallOf makes of a thread. *)
LEMMA CallOfType ==
    ASSUME TypeOK, NEW t \in Threads
    PROVE  /\ CallOf(t) \in Contract!Call
           /\ CallOf(t).thread = t
           /\ CallOf(t).addr = Storage[t]
           /\ CallOf(t).val = Comparand[t]
BY DEF CallOf, Contract!Call, TypeOK

(* The steps inside __std_atomic_wait_direct block or unblock the call, or *)
(* do not show.                                                            *)
LEMMA WaitStepImplements ==
    ASSUME TypeOK, NEW t \in Threads, WaitStep(t), UNCHANGED clientVars
    PROVE  Contract!Next \/ UNCHANGED Contract!aVars
<1>1. /\ UNCHANGED <<mem, Storage, Comparand>>
      /\ \A u \in Threads \ {t} : pc'[u] = pc[u]
      /\ \/ pc'[t] = pc[t]
         \/ /\ pc[t] \in WaitLabels
            /\ \/ pc'[t] \in WaitLabels \ {"sleep", "asleep"}
               \/ /\ pc'[t] \in {"sleep", "asleep"}
                  /\ \/ pc[t] = "sleep"
                     \/ mem[Storage[t]] = Comparand[t]
  BY WaitStepMoves
<1>2. UNCHANGED <<ones, alls>>
  BY DEF clientVars
<1>3. \A u \in Threads : CallOf(u)' = CallOf(u)
  BY <1>1 DEF CallOf
<1>4. InCall(t) <=> InCall(t)'
  BY <1>1 DEF InCall
<1>5. Calls' = Calls
  BY <1>1, <1>3, <1>4, OneThreadMoves
<1>6. CASE IsBlocked(t) <=> IsBlocked(t)'
  <2>1. BlockedCalls' = BlockedCalls
    BY <1>1, <1>3, <1>6, OneThreadMoves
  <2> QED
    BY <1>1, <1>2, <1>5, <2>1 DEF Contract!aVars
<1>7. CASE ~IsBlocked(t) /\ IsBlocked(t)'
  <2>1. BlockedCalls' = BlockedCalls \cup {CallOf(t)}
    BY <1>1, <1>3, <1>7, OneThreadMoves
  <2>2. mem[Storage[t]] = Comparand[t] /\ InCall(t)
    BY <1>1, <1>7 DEF IsBlocked, InCall
  <2>3. CallOf(t) \in Calls \ BlockedCalls
    BY <1>7, <2>2, CallsMember
  <2>4. Contract!Block(CallOf(t))
    BY <1>1, <1>2, <1>5, <2>1, <2>2, <2>3, CallOfType DEF Contract!Block
  <2> QED
    BY <2>4, CallOfType DEF Contract!Next
<1>8. CASE IsBlocked(t) /\ ~IsBlocked(t)'
  <2>1. BlockedCalls' = BlockedCalls \ {CallOf(t)}
    BY <1>1, <1>3, <1>8, OneThreadMoves
  <2>2. CallOf(t) \in BlockedCalls
    BY <1>8, CallsMember
  <2>3. Contract!Unblock(CallOf(t))
    BY <1>1, <1>2, <1>5, <2>1, <2>2 DEF Contract!Unblock
  <2> QED
    BY <2>3, CallOfType DEF Contract!Next
<1> QED
  BY <1>6, <1>7, <1>8

(* The loop of atomic::wait begins a call of __std_atomic_wait_direct,     *)
(* returns from one, or does both, which does not show.                    *)
LEMMA RunWaitImplements ==
    ASSUME TypeOK, NEW t \in Threads, Run_wait(t)
    PROVE  Contract!Next \/ UNCHANGED Contract!aVars
<1>1. /\ pc[t] \in {"wait_load", "ret"}
      /\ UNCHANGED <<mem, Storage, Comparand, ones, alls>>
      /\ \A u \in Threads \ {t} : pc'[u] = pc[u]
      /\ pc'[t] \in {"enter", "idle"}
  BY DEF Run_wait, Atomic_wait_direct, Wait_direct, Goto, TypeOK, clientVars
<1>2. \A u \in Threads : CallOf(u)' = CallOf(u)
  BY <1>1 DEF CallOf
<1>3. BlockedCalls' = BlockedCalls /\ ~IsBlocked(t)
  <2>1. ~IsBlocked(t) /\ ~IsBlocked(t)'
    BY <1>1 DEF IsBlocked
  <2> QED
    BY <1>1, <1>2, <2>1, OneThreadMoves
<1>4. CASE InCall(t) <=> InCall(t)'
  <2>1. Calls' = Calls
    BY <1>1, <1>2, <1>4, OneThreadMoves
  <2> QED
    BY <1>1, <1>3, <2>1 DEF Contract!aVars
<1>5. CASE ~InCall(t) /\ InCall(t)'
  <2>1. Calls' = Calls \cup {CallOf(t)}
    BY <1>1, <1>2, <1>5, OneThreadMoves
  <2>2. \A d \in Calls : d.thread # CallOf(t).thread
    BY <1>5, CallsMember, CallOfType
  <2>3. Contract!Begin(CallOf(t))
    BY <1>1, <1>3, <2>1, <2>2 DEF Contract!Begin
  <2> QED
    BY <2>3, CallOfType DEF Contract!Next
<1>6. CASE InCall(t) /\ ~InCall(t)'
  <2>1. Calls' = Calls \ {CallOf(t)}
    BY <1>1, <1>2, <1>6, OneThreadMoves
  <2>2. CallOf(t) \in Calls \ BlockedCalls
    BY <1>3, <1>6, CallsMember
  <2>3. Contract!Return(CallOf(t))
    BY <1>1, <1>3, <2>1, <2>2 DEF Contract!Return
  <2> QED
    BY <2>3, CallOfType DEF Contract!Next
<1> QED
  BY <1>4, <1>5, <1>6

(* Calling atomic::wait does not show, and a store is a write: neither     *)
(* thread is in a call of __std_atomic_wait_direct.                        *)
LEMMA StartImplements ==
    ASSUME TypeOK, NEW t \in Threads, NEW a \in Addresses, NEW v \in Values,
           Call_wait(t, a, v) \/ Store(t, a, v)
    PROVE  Contract!Next \/ UNCHANGED Contract!aVars
<1>1. /\ UNCHANGED <<ones, alls>>
      /\ \A u \in Threads \ {t} : pc'[u] = pc[u] /\ CallOf(u)' = CallOf(u)
  BY DEF Call_wait, Store, StartOp, Atomic_wait, Goto, TypeOK, CallOf
<1>2. pc[t] = "idle" /\ pc'[t] \in {"wait_load", "notify_all"}
  BY DEF Call_wait, Store, StartOp, Atomic_wait, Goto, TypeOK
<1>3. ~InCall(t) /\ ~InCall(t)' /\ ~IsBlocked(t) /\ ~IsBlocked(t)'
  BY <1>2 DEF InCall, IsBlocked
<1>4. Calls' = Calls /\ BlockedCalls' = BlockedCalls
  BY <1>1, <1>3, OneThreadMoves
<1>5. CASE Call_wait(t, a, v)
  BY <1>1, <1>4, <1>5 DEF Call_wait, Contract!aVars
<1>6. CASE Store(t, a, v)
  <2>1. Contract!Write(a, v)
    BY <1>1, <1>4, <1>6 DEF Store, Contract!Write
  <2> QED
    BY <2>1 DEF Contract!Next
<1> QED
  BY <1>5, <1>6

-----------------------------------------------------------------------------
(* A notify that unblocks the calls of the threads in S, and no other. *)
LEMMA NotifyCalls ==
    ASSUME NEW S \in SUBSET Threads,
           \A u \in Threads : CallOf(u)' = CallOf(u),
           \A u \in Threads : InCall(u)' <=> InCall(u),
           \A u \in Threads : IsBlocked(u)' <=> IsBlocked(u) /\ u \notin S
    PROVE  /\ Calls' = Calls
           /\ BlockedCalls' = BlockedCalls \ {CallOf(u) : u \in S}
<1>1. Calls' = Calls
  BY CallsMember, CallsMemberNext
<1>2. ASSUME NEW c
      PROVE  c \in BlockedCalls' <=>
                c \in BlockedCalls /\ c \notin {CallOf(u) : u \in S}
  <2>1. c \in BlockedCalls' <=>
            \E u \in Threads : IsBlocked(u) /\ u \notin S /\ c = CallOf(u)
    BY CallsMemberNext
  <2>2. c \in BlockedCalls <=> \E u \in Threads : IsBlocked(u) /\ c = CallOf(u)
    BY CallsMember
  <2> QED
    BY <2>1, <2>2, CallOfInjective
<1> QED
  BY <1>1, <1>2

(* What both notifies leave alone. *)
LEMMA NotifyFrame ==
    ASSUME TypeOK, NEW t \in Threads, NEW a \in Addresses,
           pc[t] \in {"idle", "notify_all"},
           Notify_one_direct(t, a, "idle") \/ Notify_all_direct(t, a, "idle")
    PROVE  /\ UNCHANGED mem
           /\ \A u \in Threads : CallOf(u)' = CallOf(u)
           /\ \A u \in Threads : InCall(u)' <=> InCall(u)
           /\ ~InCall(t)
           /\ \A u \in Threads : IsBlocked(u)' => IsBlocked(u)
<1>1. UNCHANGED <<mem, Storage, Comparand>>
  BY NotifyType
<1>2. pc'[t] = "idle"
  BY NotifyIdles
<1>3. \A u \in Threads \ {t} :
        \/ pc'[u] = pc[u]
        \/ pc[u] = "asleep" /\ pc'[u] = IF Srwlock THEN "awake" ELSE "ret"
  BY NotifyMoves
<1>4. \A u \in Threads : InCall(u)' <=> InCall(u)
  BY <1>2, <1>3 DEF InCall
<1>5. \A u \in Threads : IsBlocked(u)' => IsBlocked(u)
  BY <1>2, <1>3 DEF IsBlocked
<1> QED
  BY <1>1, <1>4, <1>5 DEF CallOf, InCall

(* notify_all unblocks every call on its object and no other. *)
LEMMA NotifyAllImplements ==
    ASSUME TypeOK, EntryIntegrity, NEW t \in Threads, Notify_all(t)
    PROVE  Contract!Next
<1> DEFINE a == target[t]
           S == {u \in Threads : InCall(u) /\ Storage[u] = a}
<1>1. /\ pc[t] = "notify_all" /\ a \in Addresses
      /\ Notify_all_direct(t, a, "idle")
      /\ alls' = [alls EXCEPT ![a] = @ + 1] /\ UNCHANGED ones
  BY DEF Notify_all, TypeOK
<1>2. /\ UNCHANGED mem
      /\ \A u \in Threads : CallOf(u)' = CallOf(u)
      /\ \A u \in Threads : InCall(u)' <=> InCall(u)
      /\ \A u \in Threads : IsBlocked(u)' => IsBlocked(u)
  BY <1>1, NotifyFrame
<1>3. \A u \in Threads : Storage[u] = a => ~IsBlocked(u)'
  BY <1>1, NotifyAllWakes DEF IsBlocked
<1>4. ASSUME NEW u \in Threads, IsBlocked(u), Storage[u] # a
      PROVE  IsBlocked(u)'
  <2>1. u # t
    BY <1>1, <1>4 DEF IsBlocked
  <2>2. u \notin {Wait_list[i] : i \in Matching(a)} /\ u \notin Blocked(a)
    BY <1>4 DEF Matching, Blocked
  <2>3. pc'[u] = pc[u]
    BY <1>1, <2>1, <2>2
       DEF Notify_all_direct, Notify_all_indirect, WakeContexts, WakeByAddress
  <2> QED
    BY <1>4, <2>3 DEF IsBlocked
<1>5. \A u \in Threads : IsBlocked(u)' <=> IsBlocked(u) /\ u \notin S
  BY <1>2, <1>3, <1>4 DEF IsBlocked, InCall
<1>6. Calls' = Calls /\ BlockedCalls' = BlockedCalls \ {CallOf(u) : u \in S}
  BY <1>2, <1>5, NotifyCalls
<1>7. {CallOf(u) : u \in S} = Contract!On(a)
  BY CallsMember, CallOfType DEF Contract!On
<1>8. Contract!WakeAll(a)
  BY <1>1, <1>2, <1>6, <1>7 DEF Contract!WakeAll
<1> QED
  BY <1>1, <1>8 DEF Contract!Next

(* notify_one unblocks at most one call of its object, and looks at one if *)
(* any is blocked.                                                         *)
LEMMA NotifyOneWakes ==
    ASSUME TypeOK, EntryIntegrity, NEW t \in Threads, NEW a \in Addresses,
           pc[t] = "idle", Notify_one_direct(t, a, "idle")
    PROVE  \/ /\ \A u \in Threads : IsBlocked(u) => Storage[u] # a
              /\ \A u \in Threads : IsBlocked(u)' <=> IsBlocked(u)
           \/ \E w \in Threads :
                /\ InCall(w) /\ Storage[w] = a
                /\ \A u \in Threads : IsBlocked(u)' <=> IsBlocked(u) /\ u # w
<1>1. CASE Srwlock
  <2>1. Lock = NoThread
    BY <1>1 DEF Notify_one_direct, Notify_one_indirect
  <2>2. \A u \in Threads : pc[u] # "sleep"
    BY <2>1, NoThreadAssumption DEF EntryIntegrity, LockOwner, OwnerLabels
  <2>3. CASE Matching(a) = {} /\ Goto(t, "idle")
    <3>1. \A u \in Threads : IsBlocked(u) => Linked(u)
      BY <1>1 DEF EntryIntegrity, ListIntegrity, IsBlocked
    <3>2. \A u \in Threads : IsBlocked(u) => Storage[u] # a
      BY <2>3, <3>1 DEF Linked, Matching
    <3>3. \A u \in Threads : pc'[u] = pc[u]
      BY <2>3 DEF Goto, TypeOK
    <3> QED
      BY <3>2, <3>3 DEF IsBlocked
  <2>4. ASSUME NEW i \in Matching(a),
               pc' = [WakeContexts({Wait_list[i]}) EXCEPT ![t] = "idle"]
        PROVE  \E w \in Threads :
                /\ InCall(w) /\ Storage[w] = a
                /\ \A u \in Threads : IsBlocked(u)' <=> IsBlocked(u) /\ u # w
    <3>1. PICK w \in Threads : w = Wait_list[i] /\ Linked(w) /\ Storage[w] = a
      <4>1. i \in 1..Len(Wait_list) /\ Storage[Wait_list[i]] = a
        BY DEF Matching
      <4>2. Wait_list[i] \in Threads
        BY <4>1 DEF TypeOK
      <4>3. Linked(Wait_list[i])
        BY <4>1 DEF Linked
      <4> QED
        BY <4>1, <4>2, <4>3
    <3>2. InCall(w) /\ w # t
      BY <1>1, <3>1 DEF EntryIntegrity, ListIntegrity, InCall
    <3>3. ~IsBlocked(w)'
      <4>1. pc'[w] = IF pc[w] = "asleep" THEN "awake" ELSE pc[w]
        BY <2>4, <3>1, <3>2 DEF WakeContexts
      <4>2. pc[w] # "sleep"
        BY <2>2, <3>1
      <4> QED
        BY <4>1, <4>2 DEF IsBlocked
    <3>4. \A u \in Threads \ {w} : pc'[u] = pc[u]
      BY <2>4, <3>1, <3>2 DEF WakeContexts, TypeOK
    <3>5. \A u \in Threads : IsBlocked(u)' <=> IsBlocked(u) /\ u # w
      BY <3>3, <3>4 DEF IsBlocked
    <3> QED
      BY <3>1, <3>2, <3>5
  <2> QED
    BY <1>1, <2>3, <2>4 DEF Notify_one_direct, Notify_one_indirect
<1>2. CASE ~Srwlock
  <2>1. \A u \in Threads : IsBlocked(u) <=> pc[u] = "asleep"
    BY <1>2 DEF EntryIntegrity, LevelLabels, IsBlocked
  <2>2. CASE Blocked(a) = {} /\ Goto(t, "idle")
    <3>1. \A u \in Threads : pc'[u] = pc[u]
      BY <2>2 DEF Goto, TypeOK
    <3> QED
      BY <2>1, <2>2, <3>1 DEF Blocked, IsBlocked
  <2>3. ASSUME NEW w \in Blocked(a),
               pc' = [WakeByAddress({w}) EXCEPT ![t] = "idle"]
        PROVE  /\ w \in Threads /\ InCall(w) /\ Storage[w] = a
               /\ \A u \in Threads : IsBlocked(u)' <=> IsBlocked(u) /\ u # w
    <3>1. w \in Threads /\ InCall(w) /\ Storage[w] = a /\ w # t
      BY DEF Blocked, InCall
    <3>2. pc'[w] = "ret"
      BY <2>3, <3>1 DEF WakeByAddress
    <3>3. \A u \in Threads \ {w} : pc'[u] = pc[u]
      BY <2>3 DEF WakeByAddress, TypeOK
    <3> QED
      BY <3>1, <3>2, <3>3 DEF IsBlocked
  <2> QED
    BY <1>2, <2>2, <2>3 DEF Notify_one_direct
<1> QED
  BY <1>1, <1>2

(* notify_one is WakeOne of the contract. *)
LEMMA NotifyOneImplements ==
    ASSUME TypeOK, EntryIntegrity, NEW t \in Threads, NEW a \in Addresses,
           Notify_one(t, a)
    PROVE  Contract!Next
<1>1. /\ pc[t] = "idle" /\ Notify_one_direct(t, a, "idle")
      /\ ones' = [ones EXCEPT ![a] = @ + 1] /\ UNCHANGED alls
  BY DEF Notify_one, StartOp
<1>2. /\ UNCHANGED mem
      /\ \A u \in Threads : CallOf(u)' = CallOf(u)
      /\ \A u \in Threads : InCall(u)' <=> InCall(u)
  BY <1>1, NotifyFrame
<1>3. CASE /\ \A u \in Threads : IsBlocked(u) => Storage[u] # a
           /\ \A u \in Threads : IsBlocked(u)' <=> IsBlocked(u)
  <2>1. Calls' = Calls /\ BlockedCalls' = BlockedCalls
    <3>1. \A u \in Threads : IsBlocked(u)' <=> IsBlocked(u) /\ u \notin {}
      BY <1>3
    <3>2. Calls' = Calls /\ BlockedCalls' = BlockedCalls \ {CallOf(u) : u \in {}}
      BY <1>2, <3>1, NotifyCalls
    <3> QED
      BY <3>2
  <2>2. Contract!On(a) \cap BlockedCalls = {}
    BY <1>3, CallsMember, CallOfType DEF Contract!On
  <2>3. Contract!WakeOne(a)
    BY <1>1, <1>2, <2>1, <2>2 DEF Contract!WakeOne
  <2> QED
    BY <2>3 DEF Contract!Next
<1>4. ASSUME NEW w \in Threads, InCall(w), Storage[w] = a,
             \A u \in Threads : IsBlocked(u)' <=> IsBlocked(u) /\ u # w
      PROVE  Contract!Next
  <2>1. {w} \in SUBSET Threads /\ {CallOf(u) : u \in {w}} = {CallOf(w)}
    OBVIOUS
  <2>2. Calls' = Calls /\ BlockedCalls' = BlockedCalls \ {CallOf(w)}
    <3>1. \A u \in Threads : IsBlocked(u)' <=> IsBlocked(u) /\ u \notin {w}
      BY <1>4
    <3> QED
      BY <1>2, <2>1, <3>1, NotifyCalls
  <2>3. CallOf(w) \in Contract!On(a)
    BY <1>4, CallsMember, CallOfType DEF Contract!On
  <2>4. Contract!WakeOne(a)
    BY <1>1, <1>2, <2>2, <2>3 DEF Contract!WakeOne
  <2> QED
    BY <2>4 DEF Contract!Next
<1> QED
  BY <1>1, <1>3, <1>4, NotifyOneWakes

-----------------------------------------------------------------------------
(* No call is open at the start. *)
LEMMA InitImplements == Init => Contract!Init
<1> SUFFICES ASSUME Init PROVE Contract!Init
  OBVIOUS
<1>1. \A t \in Threads : pc[t] = "idle"
  BY DEF Init, WaitInit
<1>2. Calls = {} /\ BlockedCalls = {}
  BY <1>1 DEF Calls, BlockedCalls
<1> QED
  BY <1>2 DEF Init, WaitInit, Contract!Init

(* Every step is a step of the contract or a stutter. *)
LEMMA NextImplements ==
    TypeOK /\ EntryIntegrity /\ [Next]_vars => [Contract!Next]_(Contract!aVars)
<1> SUFFICES ASSUME TypeOK, EntryIntegrity, [Next]_vars
             PROVE  Contract!Next \/ UNCHANGED Contract!aVars
  OBVIOUS
<1>1. CASE UNCHANGED vars
  BY <1>1 DEF vars, waitVars, clientVars, Contract!aVars, Calls, BlockedCalls, CallOf
<1>2. ASSUME NEW t \in Threads, NEW a \in Addresses, NEW v \in Values,
             Call_wait(t, a, v) \/ Store(t, a, v)
      PROVE  Contract!Next \/ UNCHANGED Contract!aVars
  BY <1>2, StartImplements
<1>3. ASSUME NEW t \in Threads, Run_wait(t)
      PROVE  Contract!Next \/ UNCHANGED Contract!aVars
  BY <1>3, RunWaitImplements
<1>4. ASSUME NEW t \in Threads, WaitStep(t), UNCHANGED clientVars
      PROVE  Contract!Next \/ UNCHANGED Contract!aVars
  BY <1>4, WaitStepImplements
<1>5. ASSUME NEW t \in Threads, Notify_all(t) PROVE Contract!Next
  BY <1>5, NotifyAllImplements
<1>6. ASSUME NEW t \in Threads, NEW a \in Addresses, Notify_one(t, a)
      PROVE  Contract!Next
  BY <1>6, NotifyOneImplements
<1> QED
  BY <1>1, <1>2, <1>3, <1>4, <1>5, <1>6 DEF Next, Terminating

(* The wait table implements the contract that xatomic_wait.h states for   *)
(* __std_atomic_wait_direct and the notify functions: for every number of  *)
(* threads, addresses and operations, at both API levels, a call blocks    *)
(* only on an unchanged value, notify_all unblocks every call on its       *)
(* object, and notify_one looks at a call of its object if one is blocked. *)
THEOREM ImplementsContract == Spec => ContractSpec
<1> QED
  BY InitType, NextType, InitEntry, NextEntry, InitImplements, NextImplements, PTL
     DEF Spec, ContractSpec, Contract!Spec

-----------------------------------------------------------------------------
(* The level the wait functions use (WaitFunctions), for any threads and   *)
(* requests, whether the system has WaitOnAddress or not.                  *)
USE DEF not_set, detecting, has_srwlock, has_wait_on_address, Level

Best == IF Available THEN has_wait_on_address ELSE has_srwlock

(* The level and the results follow the pointers; a thread about to        *)
(* publish has stored them; and as long as nobody asks for the fallback    *)
(* there is one level to end with.                                         *)
LevelInv ==
    /\ LevelTypeOK
    /\ Wait_api_level = has_wait_on_address => Pfn
    /\ PointersReady
    /\ \A t \in Callers :
        /\ stage[t] = "publish" => Local[t] = Best /\ (Available => Pfn)
        /\ stage[t] = "init_cas" => Local[t] <= detecting
    /\ ~forced => /\ Wait_api_level \in {not_set, detecting, Best}
                  /\ \A t \in Callers :
                        /\ stage[t] \notin {"force", "force_cas"}
                        /\ result[t] \in {not_set, Best}

(* The program starts without a level. *)
LEMMA InitLevelInv == InitLevel => LevelInv
<1> SUFFICES ASSUME InitLevel PROVE LevelInv
  OBVIOUS
<1>1. LevelTypeOK
  <2>1. Wait_api_level \in Level /\ Local \in [Callers -> Level] /\ result \in [Callers -> Level]
    BY DEF InitLevel
  <2>2. Pfn \in BOOLEAN /\ forced \in BOOLEAN
    BY Zenon DEF InitLevel
  <2> QED
    BY <2>1, <2>2 DEF InitLevel, LevelTypeOK
<1>2. PointersReady
  BY DEF InitLevel, PointersReady
<1> QED
  BY <1>1, <1>2 DEF InitLevel, LevelInv

(* No step of _Acquire_wait_functions, _Init_wait_functions or             *)
(* __std_atomic_set_api_level breaks the invariant.                        *)
LEMMA NextLevelInv == LevelInv /\ [NextLevel]_levelVars => LevelInv'
<1> SUFFICES ASSUME LevelInv, [NextLevel]_levelVars PROVE LevelInv'
  OBVIOUS
<1> USE AvailableAssumption DEF LevelInv, LevelTypeOK, PointersReady, Best, MoveTo, See, Return
<1>1. ASSUME NEW t \in Callers, NEW r \in Requests, Start(t, r) PROVE LevelInv'
  BY <1>1 DEF Start
<1>2. ASSUME NEW t \in Callers, Force_load(t), UNCHANGED forced PROVE LevelInv'
  BY <1>2 DEF Force_load
<1>3. ASSUME NEW t \in Callers, Force_cas(t), UNCHANGED forced PROVE LevelInv'
  BY <1>3 DEF Force_cas
<1>4. ASSUME NEW t \in Callers, Acquire(t), UNCHANGED forced PROVE LevelInv'
  BY <1>4 DEF Acquire
<1>5. ASSUME NEW t \in Callers, Init_cas(t), UNCHANGED forced PROVE LevelInv'
  BY <1>5 DEF Init_cas
<1>6. ASSUME NEW t \in Callers, Detect(t), UNCHANGED forced PROVE LevelInv'
  BY <1>6 DEF Detect
<1>7. ASSUME NEW t \in Callers, Publish(t), UNCHANGED forced PROVE LevelInv'
  BY <1>7 DEF Publish
<1>8. CASE UNCHANGED levelVars
  BY <1>8 DEF levelVars
<1> QED
  BY <1>1, <1>2, <1>3, <1>4, <1>5, <1>6, <1>7, <1>8 DEF NextLevel, Step, AllReturned

(* Whoever is given a level can use it, and so can the others. *)
LEMMA LevelInvSettled == LevelInv => LevelSettled
BY AvailableAssumption DEF LevelInv, LevelSettled, OneLevel, Best, LevelTypeOK

(* Racing detections settle on one level, with its pointers stored, for    *)
(* every number of threads, on every system.                               *)
THEOREM LevelsSettle == LevelSpec => []LevelSettled
<1>1. InitLevel => LevelInv
  BY InitLevelInv
<1>2. LevelInv /\ [NextLevel]_levelVars => LevelInv'
  BY NextLevelInv
<1>3. LevelInv => LevelSettled
  BY LevelInvSettled
<1> QED
  BY <1>1, <1>2, <1>3, PTL DEF LevelSpec

=============================================================================
