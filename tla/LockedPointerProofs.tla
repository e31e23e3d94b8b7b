------------------------ MODULE LockedPointerProofs ------------------------
(***************************************************************************)
(* Proofs about LockedPointer, for any threads, pointers, API level and    *)
(* bounds: the lock bits exclude, implement the contract of module         *)
(* PointerLock that the users of _Locked_pointer rely on, and no waiter is *)
(* stranded.                                                               *)
(***************************************************************************)
EXTENDS LockedPointer, SequenceTheorems, TLAPS

(* Each leaf is tried with SMT, then with Zenon, then with more time. *)
USE SMTT(10), ZenonT(10), SMTT(30)

USE DEF pointerVars, ClientLabels, WaitLabels, LinkedLabels,
        Not_locked, Locked_notify_not_needed, Locked_notify_needed

(* A word with given bits is a word, and has those bits. *)
LEMMA WordType ==
    ASSUME NEW p \in Pointers, NEW b \in {0, 1, 2}
    PROVE  Word(p, b) \in Words /\ Word(p, b).ptr = p /\ Word(p, b).lock = b
BY DEF Word, Words

(* The parts of a word. *)
LEMMA WordParts ==
    ASSUME NEW w \in Words
    PROVE  w.ptr \in Pointers /\ w.lock \in {0, 1, 2}
BY DEF Words

(* The lock starts free and well typed. *)
LEMMA InitType == Init => TypeOK
<1> SUFFICES ASSUME Init PROVE TypeOK
  OBVIOUS
<1>1. Word0 \in Words
  BY WordType, PointersAssumption DEF Word0
<1>2. (CHOOSE a \in Addresses : TRUE) \in Addresses
  BY AddressesAssumption
<1>3. 0 \in 0..MaxOps
  BY OpsAssumption
<1> QED
  BY <1>1, <1>2, <1>3 DEF Init, WaitInit, TypeOK

(* What the wait and notify functions may do to a thread: nothing moves    *)
(* into or out of the critical section, and no word changes.               *)
Aside ==
    /\ TypeOK'
    /\ mem' = mem
    /\ \A u \in Threads : pc'[u] = "locked" <=> pc[u] = "locked"

(* The steps of the wait functions leave word and owner alone. *)
LEMMA WaitStepAside ==
    ASSUME TypeOK, NEW t \in Threads, WaitStep(t), UNCHANGED pointerVars
    PROVE  Aside
<1> USE DEF TypeOK, Aside, Goto, argVars, tableVars
<1>1. CASE Wait_enter(t)
  BY <1>1 DEF Wait_enter
<1>2. CASE Wait_compare(t)
  BY <1>2 DEF Wait_compare
<1>3. CASE Wait_sleep(t)
  BY <1>3 DEF Wait_sleep
<1>4. CASE Wait_spurious(t)
  BY <1>4 DEF Wait_spurious
<1>5. CASE Wait_timeout(t)
  BY <1>5 DEF Wait_timeout
<1>6. CASE Deadline_passes(t)
  BY <1>6 DEF Deadline_passes
<1>7. CASE Wait_relock(t)
  BY <1>7 DEF Wait_relock
<1>8. CASE Wait_on_address(t)
  BY <1>8 DEF Wait_on_address
<1> QED
  BY <1>1, <1>2, <1>3, <1>4, <1>5, <1>6, <1>7, <1>8 DEF WaitStep

(* A notify leaves word and owner alone. *)
LEMMA NotifyAside ==
    ASSUME TypeOK, NEW t \in Threads, Unlock_notify(t)
    PROVE  Aside
<1> USE DEF TypeOK, Aside, argVars, tableVars
<1>1. pc[t] = "unlock" /\ mem' = mem /\ UNCHANGED <<Storage, Comparand, Rep, ops>>
  BY DEF Unlock_notify, Notify_all_direct, Notify_all_indirect
<1>2. \/ \E S : pc' = [WakeContexts(S) EXCEPT ![t] = "idle"]
      \/ pc' = [WakeByAddress(Blocked(Cell)) EXCEPT ![t] = "idle"]
  BY DEF Unlock_notify, Notify_all_direct, Notify_all_indirect
<1>3. ASSUME NEW S, pc' = [WakeContexts(S) EXCEPT ![t] = "idle"]
      PROVE  Aside
  BY <1>1, <1>3 DEF WakeContexts
<1>4. ASSUME pc' = [WakeByAddress(Blocked(Cell)) EXCEPT ![t] = "idle"]
      PROVE  Aside
  BY <1>1, <1>4 DEF WakeByAddress, Blocked
<1> QED
  BY <1>2, <1>3, <1>4

(* The wait of _Lock_and_load leaves them alone. *)
LEMMA LockWaitAside ==
    ASSUME TypeOK, NEW t \in Threads, Lock_wait(t)
    PROVE  Aside
BY DEF TypeOK, Aside, Lock_wait, Atomic_wait_direct, Wait_direct, Goto, tableVars

(* The beginning of _Lock_and_load and its load leave them alone. *)
LEMMA CallAside ==
    ASSUME TypeOK, NEW t \in Threads, Call_lock(t) \/ Lock_load(t)
    PROVE  Aside
<1>1. CASE Call_lock(t)
  BY <1>1, OpsAssumption DEF TypeOK, Aside, Call_lock, Goto, argVars, tableVars
<1>2. CASE Lock_load(t)
  BY <1>2, CellAssumption DEF TypeOK, Aside, Lock_load, Goto, argVars, tableVars
<1> QED
  BY <1>1, <1>2

-----------------------------------------------------------------------------
(* The three steps that change the word. *)

(* Thread t takes the free lock. *)
Enters(t) ==
    /\ mem[Cell].lock = 0
    /\ mem'[Cell].lock = 1
    /\ mem'[Cell].ptr = mem[Cell].ptr
    /\ \A u \in Threads : pc'[u] = "locked" <=> pc[u] = "locked" \/ u = t

(* A thread asks the holder for a notify. *)
AsksForNotify ==
    /\ mem[Cell].lock = 1
    /\ mem'[Cell].lock = 2
    /\ mem'[Cell].ptr = mem[Cell].ptr
    /\ \A u \in Threads : pc'[u] = "locked" <=> pc[u] = "locked"

(* The holder t stores p and lets go. *)
Leaves(t, p) ==
    /\ pc[t] = "locked"
    /\ mem'[Cell].lock = 0
    /\ mem'[Cell].ptr = p
    /\ \A u \in Threads : pc'[u] = "locked" <=> pc[u] = "locked" /\ u # t

(* A compare-exchange that succeeds found the word it had loaded. *)
LEMMA ExchangedWord ==
    ASSUME TypeOK, NEW t \in Threads, NEW b \in {0, 1, 2}, Exchanged(t, b)
    PROVE  /\ mem[Cell] = Rep[t]
           /\ mem' \in [Addresses -> Words]
           /\ mem'[Cell].ptr = mem[Cell].ptr
           /\ mem'[Cell].lock = b
<1>1. mem[Cell] = Rep[t] /\ mem' = [mem EXCEPT ![Cell] = Word(Rep[t].ptr, b)]
  BY DEF Exchanged
<1>2. Rep[t] \in Words /\ mem \in [Addresses -> Words] /\ Cell \in Addresses
  BY CellAssumption DEF TypeOK
<1>3. Word(Rep[t].ptr, b) \in Words /\ Word(Rep[t].ptr, b).ptr = Rep[t].ptr
      /\ Word(Rep[t].ptr, b).lock = b
  BY <1>2, WordParts, WordType
<1> QED
  BY <1>1, <1>2, <1>3

(* The exchange on a free word takes the lock, or fails. *)
LEMMA LockFree ==
    ASSUME TypeOK, NEW t \in Threads, pc[t] = "try", Lock_free(t), UNCHANGED ops
    PROVE  TypeOK' /\ (Aside \/ Enters(t))
<1> USE DEF TypeOK, Goto
<1>1. CASE NotExchanged(t)
  BY <1>1, CellAssumption DEF NotExchanged, Aside
<1>2. CASE Exchanged(t, 1) /\ Goto(t, "locked") /\ UNCHANGED <<Rep, Storage, Comparand>>
  <2>1. mem[Cell].lock = 0
    BY <1>2, 1 \in {0, 1, 2}, ExchangedWord DEF Lock_free
  <2>2. mem' \in [Addresses -> Words] /\ mem'[Cell].ptr = mem[Cell].ptr /\ mem'[Cell].lock = 1
    BY <1>2, 1 \in {0, 1, 2}, ExchangedWord
  <2>3. TypeOK'
    BY <1>2, <2>2
  <2>4. \A u \in Threads : pc'[u] = "locked" <=> pc[u] = "locked" \/ u = t
    BY <1>2
  <2> QED
    BY <2>1, <2>2, <2>3, <2>4 DEF Enters
<1> QED
  BY <1>1, <1>2 DEF Lock_free

(* The exchange on a taken word asks for a notify, or fails. *)
LEMMA LockTaken ==
    ASSUME TypeOK, NEW t \in Threads, pc[t] = "try", Lock_taken(t), UNCHANGED ops
    PROVE  TypeOK' /\ (Aside \/ AsksForNotify)
<1> USE DEF TypeOK, Goto
<1>1. CASE NotExchanged(t)
  BY <1>1, CellAssumption DEF NotExchanged, Aside
<1>2. CASE /\ Exchanged(t, 2)
           /\ Rep' = [Rep EXCEPT ![t] = Word(Rep[t].ptr, 2)]
           /\ Atomic_wait(t, Cell, Word(Rep[t].ptr, 2))
  <2>1. mem[Cell].lock = 1
    BY <1>2, 2 \in {0, 1, 2}, ExchangedWord DEF Lock_taken
  <2>2. mem' \in [Addresses -> Words] /\ mem'[Cell].ptr = mem[Cell].ptr /\ mem'[Cell].lock = 2
    BY <1>2, 2 \in {0, 1, 2}, ExchangedWord
  <2>3. Word(Rep[t].ptr, 2) \in Words
    BY WordParts, WordType
  <2>4. TypeOK'
    BY <1>2, <2>2, <2>3, CellAssumption DEF Atomic_wait
  <2>5. \A u \in Threads : pc'[u] = "locked" <=> pc[u] = "locked"
    BY <1>2 DEF Atomic_wait
  <2> QED
    BY <2>1, <2>2, <2>4, <2>5 DEF AsksForNotify
<1> QED
  BY <1>1, <1>2 DEF Lock_taken

(* One attempt takes the lock, asks for a notify, or changes nothing. *)
LEMMA LockTry ==
    ASSUME TypeOK, NEW t \in Threads, Lock_try(t)
    PROVE  TypeOK' /\ (Aside \/ Enters(t) \/ AsksForNotify)
<1>1. pc[t] = "try" /\ UNCHANGED ops
  BY DEF Lock_try
<1>2. CASE Lock_waited_for(t)
  BY <1>1, <1>2, CellAssumption DEF Lock_waited_for, Atomic_wait, TypeOK, Aside, Goto
<1> QED
  BY <1>1, <1>2, LockFree, LockTaken DEF Lock_try

(* _Store_and_unlock leaves the critical section. *)
LEMMA UnlockLeaves ==
    ASSUME TypeOK, NEW t \in Threads, NEW p \in Pointers, Unlock(t, p)
    PROVE  TypeOK' /\ Leaves(t, p)
<1>1. Word(p, 0) \in Words /\ Word(p, 0).ptr = p /\ Word(p, 0).lock = 0
  BY WordType
<1>2. mem' = [mem EXCEPT ![Cell] = Word(p, 0)] /\ Cell \in Addresses
  BY CellAssumption DEF Unlock
<1>3. mem' \in [Addresses -> Words] /\ mem'[Cell] = Word(p, 0)
  BY <1>1, <1>2 DEF TypeOK
<1>4. \/ pc' = [pc EXCEPT ![t] = "unlock"]
      \/ pc' = [pc EXCEPT ![t] = "idle"]
  BY DEF Unlock, Goto
<1>5. TypeOK'
  BY <1>3, <1>4 DEF TypeOK, Unlock, argVars
<1> QED
  BY <1>1, <1>3, <1>4, <1>5 DEF TypeOK, Unlock, Leaves

-----------------------------------------------------------------------------
(* Every step is one of these. *)
LEMMA StepKinds ==
    ASSUME TypeOK, [Next]_vars
    PROVE  /\ TypeOK'
           /\ \/ Aside
              \/ AsksForNotify
              \/ \E t \in Threads : Enters(t)
              \/ \E t \in Threads, p \in Pointers : Leaves(t, p)
<1>1. CASE UNCHANGED vars
  BY <1>1 DEF vars, waitVars, TypeOK, Aside
<1>2. ASSUME NEW t \in Threads, Call_lock(t) \/ Lock_load(t) PROVE Aside
  BY <1>2, CallAside
<1>3. ASSUME NEW t \in Threads, Lock_wait(t) PROVE Aside
  BY <1>3, LockWaitAside
<1>4. ASSUME NEW t \in Threads, Unlock_notify(t) PROVE Aside
  BY <1>4, NotifyAside
<1>5. ASSUME NEW t \in Threads, WaitStep(t), UNCHANGED pointerVars PROVE Aside
  BY <1>5, WaitStepAside
<1>6. Aside => TypeOK'
  BY DEF Aside
<1> QED
  BY <1>1, <1>2, <1>3, <1>4, <1>5, <1>6, LockTry, UnlockLeaves
     DEF Next, Run, Terminating

(* The types of module LockedPointer are kept; no word has a bit pattern   *)
(* on which _Lock_and_load aborts.                                         *)
THEOREM TypeCorrect == Spec => []TypeOK
<1> QED
  BY InitType, StepKinds, PTL DEF Spec

(* Nobody is in the critical section at the start. *)
LEMMA InitExclusive == Init => Exclusive
<1> SUFFICES ASSUME Init PROVE Exclusive
  OBVIOUS
<1>1. mem[Cell] = Word0 /\ \A t \in Threads : pc[t] = "idle"
  BY CellAssumption DEF Init, WaitInit
<1>2. Word0.lock = 0
  BY WordType, PointersAssumption DEF Word0
<1> QED
  BY <1>1, <1>2 DEF Exclusive

(* Exclusive is inductive relative to the types. *)
LEMMA NextExclusive == TypeOK /\ Exclusive /\ [Next]_vars => Exclusive'
<1> SUFFICES ASSUME TypeOK, Exclusive, [Next]_vars PROVE Exclusive'
  OBVIOUS
<1>1. CASE Aside \/ AsksForNotify
  BY <1>1 DEF Aside, AsksForNotify, Exclusive
<1>2. ASSUME NEW t \in Threads, Enters(t) PROVE Exclusive'
  BY <1>2 DEF Enters, Exclusive
<1>3. ASSUME NEW t \in Threads, NEW p \in Pointers, Leaves(t, p) PROVE Exclusive'
  BY <1>3 DEF Leaves, Exclusive
<1> QED
  BY <1>1, <1>2, <1>3, StepKinds

(* The lock bits of _Locked_pointer are set exactly while a thread is      *)
(* between _Lock_and_load and _Store_and_unlock, and never are two.        *)
THEOREM MutualExclusion == Spec => []Exclusive
<1> QED
  BY InitType, StepKinds, InitExclusive, NextExclusive, PTL DEF Spec

-----------------------------------------------------------------------------
(* The refinement mapping: the owner is the thread in the critical section. *)
OwnerIsInside ==
    /\ mem[Cell].lock = 0 => Owner = NoThread
    /\ \A t \in Threads : pc[t] = "locked" => Owner = t

(* Exclusive makes the owner of the contract the thread inside. *)
LEMMA OwnerIs == Exclusive => OwnerIsInside
<1> SUFFICES ASSUME Exclusive PROVE OwnerIsInside
  OBVIOUS
<1>1. CASE mem[Cell].lock = 0
  <2>1. \A t \in Threads : pc[t] # "locked"
    BY <1>1 DEF Exclusive
  <2>2. Holder = {}
    BY <2>1 DEF Holder
  <2> QED
    BY <2>1, <2>2 DEF Owner, OwnerIsInside
<1>2. ASSUME NEW t \in Threads, pc[t] = "locked" PROVE Owner = t
  <2>1. \A u \in Threads : pc[u] = "locked" => u = t
    BY <1>2 DEF Exclusive
  <2>2. Holder = {t}
    BY <1>2, <2>1 DEF Holder
  <2>3. \A u \in Holder : u = t
    BY <2>2
  <2>4. Holder # {} /\ (CHOOSE u \in Holder : TRUE) \in Holder
    BY <2>2
  <2> QED
    BY <2>3, <2>4 DEF Owner
<1>3. CASE mem[Cell].lock # 0
  BY <1>2, <1>3 DEF OwnerIsInside
<1> QED
  BY <1>1, <1>3

(* The same of the next state. *)
LEMMA OwnerIsNext == Exclusive' => OwnerIsInside'
BY OwnerIs, PTL

(* Steps that leave the word alone leave the owner alone. *)
LEMMA OwnerStays ==
    ASSUME \A u \in Threads : pc'[u] = "locked" <=> pc[u] = "locked"
    PROVE  Owner' = Owner
<1>1. Holder' = Holder
  BY DEF Holder
<1> QED
  BY <1>1 DEF Owner

(* The lock starts as the contract does. *)
LEMMA InitImplements == Init => Contract!Init
<1> SUFFICES ASSUME Init PROVE Contract!Init
  OBVIOUS
<1>1. mem[Cell] = Word0
  BY CellAssumption DEF Init, WaitInit
<1>2. Word0.lock = 0 /\ Word0.ptr \in Pointers
  BY WordType, PointersAssumption DEF Word0
<1>3. Owner = NoThread
  BY <1>1, <1>2, InitExclusive, OwnerIs DEF OwnerIsInside
<1> QED
  BY <1>1, <1>2, <1>3 DEF Contract!Init

(* Every step is a step of the contract or a stutter. *)
LEMMA NextImplements ==
    TypeOK /\ Exclusive /\ Exclusive' /\ [Next]_vars
        => [Contract!Next]_<<Owner, mem[Cell].ptr>>
<1> SUFFICES ASSUME TypeOK, Exclusive, Exclusive', [Next]_vars
             PROVE  Contract!Next \/ UNCHANGED <<Owner, mem[Cell].ptr>>
  OBVIOUS
<1>1. CASE Aside
  BY <1>1, OwnerStays DEF Aside
<1>2. CASE AsksForNotify
  BY <1>2, OwnerStays DEF AsksForNotify
<1>3. ASSUME NEW t \in Threads, Enters(t) PROVE Contract!Next
  <2>1. Owner = NoThread
    BY <1>3, OwnerIs DEF Enters, OwnerIsInside
  <2>2. pc'[t] = "locked"
    BY <1>3 DEF Enters
  <2>3. Owner' = t
    BY <2>2, OwnerIsNext DEF OwnerIsInside
  <2>4. Contract!Lock_and_load(t)
    BY <1>3, <2>1, <2>3 DEF Enters, Contract!Lock_and_load
  <2> QED
    BY <2>4 DEF Contract!Next
<1>4. ASSUME NEW t \in Threads, NEW p \in Pointers, Leaves(t, p) PROVE Contract!Next
  <2>1. Owner = t
    BY <1>4, OwnerIs DEF Leaves, OwnerIsInside
  <2>2. mem'[Cell].lock = 0
    BY <1>4 DEF Leaves
  <2>3. Owner' = NoThread
    BY <2>2, OwnerIsNext DEF OwnerIsInside
  <2>4. Contract!Store_and_unlock(t, p)
    BY <1>4, <2>1, <2>3 DEF Leaves, Contract!Store_and_unlock
  <2> QED
    BY <2>4 DEF Contract!Next
<1> QED
  BY <1>1, <1>2, <1>3, <1>4, StepKinds

(* The bits implement the lock that the users of _Locked_pointer see:      *)
(* _Lock_and_load returns the pointer stored last, to one thread at a      *)
(* time, for every number of threads and at both API levels.               *)
THEOREM ImplementsPointerLock == Spec => ContractSpec
<1> QED
  BY InitType, StepKinds, InitExclusive, NextExclusive, InitImplements,
     NextImplements, PTL
     DEF Spec, ContractSpec, Contract!Spec

-----------------------------------------------------------------------------
(* No waiter is stranded.                                                  *)

(* u is on the list l. *)
Among(l, u) == \E i \in 1..Len(l) : l[i] = u

(* A context that is linked joins the ones that are. *)
LEMMA AppendedList ==
    ASSUME NEW S, NEW l \in Seq(S), NEW t \in S
    PROVE  /\ Append(l, t) \in Seq(S)
           /\ Among(Append(l, t), t)
           /\ \A u \in S : Among(l, u) => Among(Append(l, t), u)
<1>1. /\ Append(l, t) \in Seq(S) /\ Len(l) \in Nat
      /\ Len(Append(l, t)) = Len(l) + 1
      /\ \A i \in 1..Len(l) : Append(l, t)[i] = l[i]
      /\ Append(l, t)[Len(l) + 1] = t
  OBVIOUS
<1>2. Len(l) + 1 \in 1..(Len(l) + 1) /\ 1..Len(l) \subseteq 1..(Len(l) + 1)
  BY <1>1
<1> QED
  BY <1>1, <1>2 DEF Among

(* Unlinking one context leaves the others on the list. *)
LEMMA ShortenedList ==
    ASSUME NEW S, NEW l \in Seq(S), NEW i \in 1..Len(l)
    PROVE  /\ Without(l, i) \in Seq(S)
           /\ \A u \in S : u # l[i] /\ Among(l, u) => Among(Without(l, i), u)
<1> DEFINE p == SubSeq(l, 1, i - 1)
           q == SubSeq(l, i + 1, Len(l))
<1>1. p \in Seq(S) /\ Len(p) = i - 1 /\ \A j \in 1..(i - 1) : p[j] = l[j]
  OBVIOUS
<1>2. /\ q \in Seq(S)
      /\ Len(q) = Len(l) - i
      /\ \A j \in 1..(Len(l) - i) : q[j] = l[i + j]
  OBVIOUS
<1>3. Without(l, i) = p \o q /\ Len(l) \in Nat
  BY DEF Without
<1> HIDE DEF p, q
<1>4. /\ p \o q \in Seq(S)
      /\ Len(p \o q) = Len(p) + Len(q)
      /\ \A j \in 1..(Len(p) + Len(q)) :
            (p \o q)[j] = IF j <= Len(p) THEN p[j] ELSE q[j - Len(p)]
  BY <1>1, <1>2, ConcatProperties
<1>5. ASSUME NEW u \in S, u # l[i], Among(l, u) PROVE Among(p \o q, u)
  <2>1. PICK k \in 1..Len(l) : l[k] = u
    BY <1>5 DEF Among
  <2>2. CASE k < i
    <3>1. k \in 1..Len(p \o q) /\ (p \o q)[k] = u
      BY <1>1, <1>2, <1>3, <1>4, <2>1, <2>2
    <3> QED
      BY <3>1 DEF Among
  <2>3. CASE k > i
    <3>1. /\ k - 1 \in 1..(Len(p) + Len(q)) /\ ~(k - 1 <= Len(p))
          /\ (k - 1) - Len(p) = k - i /\ k - i \in 1..(Len(l) - i) /\ i + (k - i) = k
      BY <1>1, <1>2, <1>3, <2>1, <2>3
    <3>2. (p \o q)[k - 1] = q[k - i] /\ q[k - i] = u
      BY <1>2, <1>4, <2>1, <3>1
    <3> QED
      BY <1>4, <3>1, <3>2 DEF Among
  <2> QED
    BY <1>3, <1>5, <2>1, <2>2, <2>3
<1> QED
  BY <1>3, <1>4, <1>5

(* A thread waits only for a word that says "notify needed"; at            *)
(* has_srwlock its context is linked while it sleeps, and the lock of the  *)
(* entry is its own from the comparison to the sleep, so that no notify    *)
(* comes in between.                                                       *)
WaitsOnNeeded ==
    /\ Wait_list \in Seq(Threads)
    /\ \A t \in Threads :
        /\ pc[t] \in AtomicWaitLabels => Comparand[t].lock = 2
        /\ Srwlock /\ pc[t] \in LinkedLabels => Among(Wait_list, t)
        /\ pc[t] \in OwnerLabels => Srwlock /\ Lock = t
        /\ pc[t] \in {"awake", "expired"} => Srwlock
    /\ NobodyStranded

(* Nobody waits at the start. *)
LEMMA InitWaits == Init => WaitsOnNeeded
  BY DEF Init, WaitInit, WaitsOnNeeded, NobodyStranded, AtomicWaitLabels, OwnerLabels

(* A step of one thread that leaves the entry alone. *)
LEMMA MovesWaits ==
    ASSUME TypeOK, WaitsOnNeeded, NEW t \in Threads, NEW label,
           pc' = [pc EXCEPT ![t] = label], UNCHANGED <<Lock, Wait_list>>,
           \A u \in Threads \ {t} : Comparand'[u] = Comparand[u],
           label \in AtomicWaitLabels => Comparand'[t].lock = 2,
           Srwlock /\ label \in LinkedLabels => pc[t] \in LinkedLabels,
           label \in OwnerLabels => pc[t] \in OwnerLabels,
           label \in {"awake", "expired"} => Srwlock,
           pc[t] # "unlock",
           mem[Cell].lock = 2 => mem'[Cell].lock = 2 \/ label = "unlock",
           label \in {"sleep", "asleep"} =>
                pc[t] \in {"sleep", "asleep"} \/ mem'[Cell].lock = 2
    PROVE  WaitsOnNeeded'
<1>1. /\ pc \in [Threads -> ClientLabels \cup WaitLabels]
      /\ pc'[t] = label /\ \A u \in Threads \ {t} : pc'[u] = pc[u]
  BY DEF TypeOK
<1>2. NobodyStranded'
  <2> SUFFICES ASSUME NEW s \in Threads, pc'[s] \in {"sleep", "asleep"}
               PROVE  mem'[Cell].lock = 2 \/ \E u \in Threads : pc'[u] = "unlock"
    BY DEF NobodyStranded
  <2>1. pc[s] \in {"sleep", "asleep"} \/ mem'[Cell].lock = 2
    BY <1>1
  <2>2. ASSUME pc[s] \in {"sleep", "asleep"}
        PROVE  mem[Cell].lock = 2 \/ \E u \in Threads \ {t} : pc[u] = "unlock"
    BY <2>2 DEF WaitsOnNeeded, NobodyStranded
  <2> QED
    BY <1>1, <2>1, <2>2
<1>3. Srwlock' = Srwlock
  BY DEF Srwlock
<1> QED
  BY <1>1, <1>2, <1>3 DEF WaitsOnNeeded, AtomicWaitLabels, OwnerLabels

(* What a waiting thread compares with. *)
LEMMA Compared ==
    ASSUME TypeOK, WaitsOnNeeded, NEW t \in Threads, pc[t] \in AtomicWaitLabels
    PROVE  /\ Comparand[t].lock = 2
           /\ mem[Storage[t]] = Comparand[t] => mem[Cell].lock = 2
<1>1. Storage[t] = Cell
  BY CellAssumption DEF TypeOK
<1> QED
  BY <1>1 DEF WaitsOnNeeded

(* A step of a waiting thread on the entry: it links or unlinks its        *)
(* context, or takes or drops the lock.                                    *)
LEMMA EntryWaits ==
    ASSUME TypeOK, WaitsOnNeeded, Srwlock, NEW t \in Threads,
           NEW label \in {"compare", "asleep", "ret"},
           pc[t] \in AtomicWaitLabels, pc' = [pc EXCEPT ![t] = label],
           UNCHANGED <<mem, Comparand>>,
           Wait_list' \in Seq(Threads),
           \A u \in Threads \ {t} : Among(Wait_list, u) => Among(Wait_list', u),
           label \in LinkedLabels => Among(Wait_list', t),
           Lock \in {NoThread, t}, label = "compare" => Lock' = t,
           label = "asleep" => pc[t] = "sleep"
    PROVE  WaitsOnNeeded'
<1>1. /\ pc \in [Threads -> ClientLabels \cup WaitLabels]
      /\ pc'[t] = label /\ \A u \in Threads \ {t} : pc'[u] = pc[u]
  BY DEF TypeOK
<1>2. NobodyStranded'
  <2> SUFFICES ASSUME NEW s \in Threads, pc'[s] \in {"sleep", "asleep"}
               PROVE  mem'[Cell].lock = 2 \/ \E u \in Threads : pc'[u] = "unlock"
    BY DEF NobodyStranded
  <2>1. pc[s] \in {"sleep", "asleep"}
    BY <1>1
  <2>2. mem[Cell].lock = 2 \/ \E u \in Threads : pc[u] = "unlock"
    BY <2>1 DEF WaitsOnNeeded, NobodyStranded
  <2> QED
    BY <1>1, <2>2 DEF AtomicWaitLabels
<1>3. \A u \in Threads \ {t} : pc'[u] \notin OwnerLabels
  BY <1>1, NoThreadAssumption DEF WaitsOnNeeded
<1>4. Srwlock'
  BY DEF Srwlock
<1> QED
  BY <1>1, <1>2, <1>3, <1>4 DEF WaitsOnNeeded, AtomicWaitLabels, OwnerLabels

(* The steps of the wait functions. *)
LEMMA WaitStepWaits ==
    ASSUME TypeOK, WaitsOnNeeded, NEW t \in Threads, WaitStep(t)
    PROVE  WaitsOnNeeded'
<1> USE DEF Goto, argVars, tableVars, AtomicWaitLabels, OwnerLabels
<1>1. /\ Wait_list \in Seq(Threads)
      /\ pc[t] \in OwnerLabels => Srwlock /\ Lock = t
      /\ pc[t] \in {"awake", "expired"} => Srwlock
      /\ Srwlock /\ pc[t] \in LinkedLabels => Among(Wait_list, t)
      /\ pc[t] \in AtomicWaitLabels => Comparand[t].lock = 2
  BY DEF WaitsOnNeeded
<1>2. ASSUME Unlink(t)
      PROVE  /\ Wait_list' \in Seq(Threads)
             /\ \A u \in Threads \ {t} : Among(Wait_list, u) => Among(Wait_list', u)
  BY <1>1, <1>2, ShortenedList DEF Unlink
<1>3. CASE Wait_enter(t)
  <2>1. /\ Srwlock /\ pc[t] = "enter" /\ Lock = NoThread /\ Lock' = t
        /\ Wait_list' = Append(Wait_list, t) /\ pc' = [pc EXCEPT ![t] = "compare"]
        /\ UNCHANGED <<mem, Comparand>>
    BY <1>3 DEF Wait_enter
  <2> QED
    BY <1>1, <2>1, AppendedList, EntryWaits
<1>4. CASE Wait_compare(t)
  <2>1. CASE /\ mem[Storage[t]] = Comparand[t] /\ pc' = [pc EXCEPT ![t] = "sleep"]
             /\ UNCHANGED tableVars
    <3>1. pc[t] = "compare" /\ UNCHANGED <<mem, Comparand>> /\ mem[Cell].lock = 2
      BY <1>4, <2>1, Compared DEF Wait_compare
    <3> QED
      BY <1>1, <2>1, <3>1, MovesWaits
  <2>2. CASE Unlink(t) /\ Lock' = NoThread /\ pc' = [pc EXCEPT ![t] = "ret"]
    <3>1. pc[t] = "compare" /\ UNCHANGED <<mem, Comparand>>
      BY <1>4 DEF Wait_compare
    <3> QED
      BY <1>1, <1>2, <2>2, <3>1, EntryWaits
  <2> QED
    BY <1>4, <2>1, <2>2 DEF Wait_compare
<1>5. CASE Wait_sleep(t)
  <2>1. /\ pc[t] = "sleep" /\ pc' = [pc EXCEPT ![t] = "asleep"]
        /\ UNCHANGED <<mem, Wait_list, Comparand>>
    BY <1>5 DEF Wait_sleep
  <2> QED
    BY <1>1, <2>1, EntryWaits
<1>6. CASE Wait_spurious(t) \/ Wait_timeout(t)
  <2>1. /\ pc[t] = "asleep" /\ UNCHANGED <<mem, tableVars, Comparand>>
        /\ \E label \in {"awake", "expired", "ret"} :
            /\ pc' = [pc EXCEPT ![t] = label]
            /\ label \in {"awake", "expired"} => Srwlock
    BY <1>6 DEF Wait_spurious, Wait_timeout
  <2>2. PICK label \in {"awake", "expired", "ret"} :
            /\ pc' = [pc EXCEPT ![t] = label]
            /\ label \in {"awake", "expired"} => Srwlock
    BY <2>1
  <2> QED
    BY <1>1, <2>1, <2>2, MovesWaits
<1>7. CASE Deadline_passes(t)
  BY <1>7 DEF Deadline_passes, WaitsOnNeeded, NobodyStranded, Srwlock
<1>8. CASE Wait_relock(t)
  <2>1. pc[t] \in {"awake", "expired"} /\ Lock = NoThread /\ UNCHANGED <<mem, Comparand>>
    BY <1>8 DEF Wait_relock
  <2>2. CASE Lock' = t /\ pc' = [pc EXCEPT ![t] = "compare"] /\ UNCHANGED Wait_list
    BY <1>1, <2>1, <2>2, EntryWaits
  <2>3. CASE Unlink(t) /\ pc' = [pc EXCEPT ![t] = "ret"]
    BY <1>1, <1>2, <2>1, <2>3, EntryWaits
  <2> QED
    BY <1>8, <2>2, <2>3 DEF Wait_relock
<1>9. CASE Wait_on_address(t)
  <2>1. ~Srwlock /\ pc[t] = "enter" /\ UNCHANGED <<mem, tableVars, Comparand>>
    BY <1>9 DEF Wait_on_address
  <2>2. CASE mem[Storage[t]] = Comparand[t] /\ pc' = [pc EXCEPT ![t] = "asleep"]
    <3>1. mem[Cell].lock = 2
      BY <2>1, <2>2, Compared
    <3> QED
      BY <1>1, <2>1, <2>2, <3>1, MovesWaits
  <2>3. CASE pc' = [pc EXCEPT ![t] = "ret"]
    BY <1>1, <2>1, <2>3, MovesWaits
  <2> QED
    BY <1>9, <2>2, <2>3 DEF Wait_on_address
<1> QED
  BY <1>3, <1>4, <1>5, <1>6, <1>7, <1>8, <1>9 DEF WaitStep

(* Notify_all_direct reaches everybody who sleeps: their contexts are      *)
(* linked, and nobody is between comparison and sleep.                     *)
LEMMA NotifyWaits ==
    ASSUME TypeOK, WaitsOnNeeded, NEW t \in Threads, Unlock_notify(t)
    PROVE  WaitsOnNeeded'
<1> USE DEF argVars, tableVars, AtomicWaitLabels, OwnerLabels
<1>1. pc[t] = "unlock" /\ UNCHANGED <<mem, Lock, Wait_list, Storage, Comparand>>
  BY DEF Unlock_notify, Notify_all_direct, Notify_all_indirect
<1>2. /\ pc \in [Threads -> ClientLabels \cup WaitLabels]
      /\ \A u \in Threads : Storage[u] = Cell
  BY CellAssumption DEF TypeOK
<1>3. CASE Srwlock
  <2>1. /\ Lock = NoThread
        /\ pc' = [WakeContexts({Wait_list[i] : i \in Matching(Cell)}) EXCEPT ![t] = "idle"]
    BY <1>3 DEF Unlock_notify, Notify_all_direct, Notify_all_indirect
  <2>2. \A u \in Threads : pc[u] # "sleep"
    BY <2>1, NoThreadAssumption DEF WaitsOnNeeded
  <2>3. ASSUME NEW u \in Threads, pc[u] = "asleep"
        PROVE  u \in {Wait_list[i] : i \in Matching(Cell)}
    <3>1. PICK i \in 1..Len(Wait_list) : Wait_list[i] = u
      BY <1>3, <2>3 DEF WaitsOnNeeded, Among
    <3> QED
      BY <1>2, <3>1 DEF Matching
  <2>4. \A u \in Threads : \/ pc'[u] = pc[u] /\ pc'[u] \notin {"sleep", "asleep"}
                           \/ pc[u] = "asleep" /\ pc'[u] = "awake"
                           \/ pc'[u] = "idle"
    BY <1>2, <2>1, <2>2, <2>3 DEF WakeContexts
  <2>5. NobodyStranded'
    BY <2>4 DEF NobodyStranded
  <2>6. Srwlock'
    BY <1>3 DEF Srwlock
  <2> QED
    BY <1>1, <1>3, <2>4, <2>5, <2>6 DEF WaitsOnNeeded
<1>4. CASE ~Srwlock
  <2>1. pc' = [WakeByAddress(Blocked(Cell)) EXCEPT ![t] = "idle"]
    BY <1>4 DEF Unlock_notify, Notify_all_direct
  <2>2. \A u \in Threads : pc[u] # "sleep"
    BY <1>4 DEF WaitsOnNeeded
  <2>3. \A u \in Threads : \/ pc'[u] = pc[u] /\ pc'[u] \notin {"sleep", "asleep"}
                           \/ pc[u] = "asleep" /\ pc'[u] = "ret"
                           \/ pc'[u] = "idle"
    BY <1>2, <2>1, <2>2 DEF WakeByAddress, Blocked
  <2>4. NobodyStranded'
    BY <2>3 DEF NobodyStranded
  <2>5. Srwlock' = Srwlock
    BY DEF Srwlock
  <2> QED
    BY <1>1, <1>4, <2>3, <2>4, <2>5 DEF WaitsOnNeeded
<1> QED
  BY <1>3, <1>4

(* An attempt waits only after the word says "notify needed". *)
LEMMA LockTryWaits ==
    ASSUME TypeOK, WaitsOnNeeded, NEW t \in Threads, Lock_try(t)
    PROVE  WaitsOnNeeded'
<1> USE DEF Goto, tableVars, AtomicWaitLabels, OwnerLabels
<1>1. /\ pc[t] = "try" /\ UNCHANGED <<Lock, Wait_list>>
      /\ pc \in [Threads -> ClientLabels \cup WaitLabels]
      /\ Comparand \in [Threads -> Words] /\ Rep[t] \in Words
  BY DEF Lock_try, TypeOK
<1>2. CASE NotExchanged(t)
  <2>1. pc' = [pc EXCEPT ![t] = "try"] /\ UNCHANGED <<mem, Comparand>>
    BY <1>1, <1>2 DEF NotExchanged
  <2> QED
    BY <1>1, <2>1, MovesWaits
<1>3. CASE Rep[t].lock = 0 /\ Exchanged(t, 1) /\ Goto(t, "locked") /\ UNCHANGED Comparand
  <2>1. mem[Cell].lock = 0
    BY <1>3, 1 \in {0, 1, 2}, ExchangedWord
  <2>2. /\ pc' = [pc EXCEPT ![t] = "locked"] /\ Comparand' = Comparand
        /\ mem[Cell].lock # 2
    BY <1>3, <2>1
  <2> QED
    BY <1>1, <2>2, MovesWaits
<1>4. CASE Exchanged(t, 2) /\ Atomic_wait(t, Cell, Word(Rep[t].ptr, 2))
  <2>1. mem'[Cell].lock = 2
    BY <1>4, 2 \in {0, 1, 2}, ExchangedWord
  <2>2. Word(Rep[t].ptr, 2).lock = 2
    BY <1>1, WordParts, WordType
  <2>3. /\ pc' = [pc EXCEPT ![t] = "wait_load"] /\ Comparand'[t].lock = 2
        /\ \A u \in Threads \ {t} : Comparand'[u] = Comparand[u]
    BY <1>1, <1>4, <2>2 DEF Atomic_wait
  <2> QED
    BY <1>1, <2>1, <2>3, MovesWaits
<1>5. CASE Lock_waited_for(t)
  <2>1. /\ pc' = [pc EXCEPT ![t] = "wait_load"] /\ Comparand'[t].lock = 2 /\ mem' = mem
        /\ \A u \in Threads \ {t} : Comparand'[u] = Comparand[u]
    BY <1>1, <1>5 DEF Lock_waited_for, Atomic_wait
  <2> QED
    BY <1>1, <2>1, MovesWaits
<1> QED
  BY <1>2, <1>3, <1>4, <1>5 DEF Lock_try, Lock_free, Lock_taken

(* The invariant of the waits is inductive, given the types. *)
LEMMA NextWaits == TypeOK /\ WaitsOnNeeded /\ [Next]_vars => WaitsOnNeeded'
<1> SUFFICES ASSUME TypeOK, WaitsOnNeeded, [Next]_vars PROVE WaitsOnNeeded'
  OBVIOUS
<1> USE DEF Goto, argVars, tableVars, AtomicWaitLabels, OwnerLabels
<1>1. CASE UNCHANGED vars
  BY <1>1 DEF vars, waitVars, WaitsOnNeeded, NobodyStranded, Srwlock
<1>2. ASSUME NEW t \in Threads, Call_lock(t) \/ Lock_load(t) PROVE WaitsOnNeeded'
  <2>1. /\ pc[t] \in {"idle", "load"} /\ UNCHANGED <<mem, Lock, Wait_list, Comparand>>
        /\ pc' = [pc EXCEPT ![t] = "load"] \/ pc' = [pc EXCEPT ![t] = "try"]
    BY <1>2 DEF Call_lock, Lock_load
  <2> QED
    BY <2>1, MovesWaits
<1>3. ASSUME NEW t \in Threads, Lock_wait(t) PROVE WaitsOnNeeded'
  <2>1. /\ pc[t] \in {"wait_load", "ret"} /\ UNCHANGED <<mem, Lock, Wait_list>>
        /\ pc' = [pc EXCEPT ![t] = "enter"] \/ pc' = [pc EXCEPT ![t] = "load"]
        /\ Comparand' = [Comparand EXCEPT ![t] = Comparand[t]] \/ Comparand' = Comparand
    BY <1>3 DEF Lock_wait, Atomic_wait_direct, Wait_direct
  <2>2. Comparand' = Comparand /\ Comparand[t].lock = 2
    BY <2>1 DEF TypeOK, WaitsOnNeeded
  <2> QED
    BY <2>1, <2>2, MovesWaits
<1>4. ASSUME NEW t \in Threads, NEW p \in Pointers, Unlock(t, p) PROVE WaitsOnNeeded'
  <2>1. pc[t] = "locked" /\ UNCHANGED <<Lock, Wait_list, Comparand>>
    BY <1>4 DEF Unlock
  <2>2. CASE mem[Cell].lock = 2 /\ pc' = [pc EXCEPT ![t] = "unlock"]
    BY <2>1, <2>2, MovesWaits
  <2>3. CASE mem[Cell].lock # 2 /\ pc' = [pc EXCEPT ![t] = "idle"]
    BY <2>1, <2>3, MovesWaits
  <2> QED
    BY <1>4, <2>2, <2>3 DEF Unlock
<1> QED
  BY <1>1, <1>2, <1>3, <1>4, LockTryWaits, NotifyWaits, WaitStepWaits
     DEF Next, Run, Terminating

(* Whoever sleeps in _Lock_and_load is owed a notification: the bits say   *)
(* that one is needed, or the thread that unlocked is about to give it, so *)
(* that store_and_unlock may leave it out whenever nobody asked, however   *)
(* the lock is passed from thread to thread meanwhile.                     *)
THEOREM WaitersNotified == Spec => []NobodyStranded
<1>1. WaitsOnNeeded => NobodyStranded
  BY DEF WaitsOnNeeded
<1> QED
  BY <1>1, InitType, StepKinds, InitWaits, NextWaits, PTL DEF Spec

=============================================================================
