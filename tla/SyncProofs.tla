--------------------------- MODULE SyncProofs ---------------------------
(***************************************************************************)
(* Proofs about Semaphore and Barrier, the two clients of AtomicWait that  *)
(* count, for any finite set of threads, any bounds and API level.         *)
(*                                                                         *)
(* Semaphore: the counter never leaves 0..max(), _Waiting is the number of *)
(* threads that have announced themselves, and release wakes enough.       *)
(*                                                                         *)
(* Barrier, with arrivals for oneself or for others: there is one          *)
(* completion at a time, each phase expects the threads that are left, and *)
(* nobody returns from a wait before its phase is complete.                *)
(***************************************************************************)
EXTENDS Semaphore, Barrier, FiniteSetTheorems, TLAPS

USE DEF ClientLabels, WaitLabels, LinkedLabels, tableVars, argVars, semVars

(* Each leaf is tried with SMT, then with Zenon, then with more time. *)
USE SMTT(10), ZenonT(10), SMTT(30)

(* The threads between the announcement and the withdrawal in _Wait. *)
Announced == {t \in Threads : pc[t] \in {"load_counter"} \cup WaitLabels}

(* TypeOK without the bound on _Waiting, which WaitingCounted gives. *)
Typed ==
    /\ mem \in [Addresses -> 0..Least_max_value]
    /\ pc \in [Threads -> ClientLabels \cup WaitLabels]
    /\ Current \in [Threads -> 0..Least_max_value]
    /\ Update \in [Threads -> 0..Least_max_value]
    /\ ops \in 0..MaxOps

(* A thread about to take one from the count has seen a positive count, a  *)
(* thread about to notify has one waiter left to notify.                   *)
Positive ==
    \A t \in Threads :
        /\ pc[t] \in {"cas", "try_cas"} => Current[t] > 0
        /\ pc[t] \in {"load_waiting", "notify_one"} => Update[t] > 0

(* What the steps that neither announce nor withdraw a thread do. *)
Aside == Typed' /\ Positive' /\ Announced' = Announced /\ Waiting' = Waiting

-----------------------------------------------------------------------------
(* The semaphore starts with the desired count and no waiter. *)
LEMMA InitCounted == Init => Typed /\ Positive /\ WaitingCounted
<1> SUFFICES ASSUME Init PROVE Typed /\ Positive /\ WaitingCounted
  OBVIOUS
<1>1. Typed /\ Positive
  BY CountsAssumption DEF Init, WaitInit, Typed, Positive
<1>2. Announced = {}
  BY DEF Init, WaitInit, Announced
<1>3. WaitingCounted
  BY <1>2, FS_EmptySet DEF WaitingCounted, Announced, Init
<1> QED
  BY <1>1, <1>3

(* Nobody is announced or forgotten inside __std_atomic_wait_direct. *)
LEMMA WaitStepAside ==
    ASSUME Typed, Positive, NEW t \in Threads, WaitStep(t), UNCHANGED semVars
    PROVE  Aside
<1> USE DEF Goto
<1>1. mem' = mem
  BY DEF WaitStep, Wait_enter, Wait_compare, Wait_sleep, Wait_spurious, Wait_timeout,
         Deadline_passes, Wait_relock, Wait_on_address
<1>2. \/ pc' = pc
      \/ /\ pc[t] \in WaitLabels
         /\ \E label \in WaitLabels : pc' = [pc EXCEPT ![t] = label]
  BY DEF WaitStep, Wait_enter, Wait_compare, Wait_sleep, Wait_spurious, Wait_timeout,
         Deadline_passes, Wait_relock, Wait_on_address
<1> QED
  BY <1>1, <1>2 DEF Aside, Typed, Positive, Announced

(* A notify moves sleepers within _Wait, and its caller. *)
LEMMA NotifyMoves ==
    ASSUME Typed, NEW t \in Threads, NEW next \in {"idle", "notify_one"},
           \/ Notify_one_direct(t, Counter, next)
           \/ Notify_all_direct(t, Counter, next)
    PROVE  /\ mem' = mem
           /\ pc' \in [Threads -> ClientLabels \cup WaitLabels]
           /\ pc'[t] = next
           /\ \A u \in Threads \ {t} :
                \/ pc'[u] = pc[u]
                \/ pc[u] = "asleep" /\ pc'[u] \in {"awake", "ret"}
<1> USE DEF Typed, Goto, WakeContexts, WakeByAddress, Blocked
<1>1. CASE Notify_one_direct(t, Counter, next)
  BY <1>1 DEF Notify_one_direct, Notify_one_indirect
<1>2. CASE Notify_all_direct(t, Counter, next)
  BY <1>2 DEF Notify_all_direct, Notify_all_indirect
<1> QED
  BY <1>1, <1>2

(* release. *)
LEMMA ReleaseAside ==
    ASSUME Typed, Positive, NEW t \in Threads,
           \/ \E n \in 1..Least_max_value : Release(t, n)
           \/ Release_load_waiting(t)
           \/ Release_notify_all(t)
           \/ Release_notify_one(t)
    PROVE  Aside
<1>1. ASSUME NEW n \in 1..Least_max_value, Release(t, n) PROVE Aside
  <2>1. Count \in 0..Least_max_value /\ Count + n \in 0..Least_max_value
    BY <1>1, CounterAssumption, CountsAssumption DEF Typed, Count, Release
  <2> QED
    BY <1>1, <2>1, CounterAssumption, CountsAssumption
       DEF Release, Start, Goto, Count, Aside, Typed, Positive, Announced
<1>2. CASE Release_load_waiting(t)
  <2>1. PICK label \in {"idle", "notify_all", "notify_one"} : pc' = [pc EXCEPT ![t] = label]
    <3> DEFINE label == CASE Waiting = 0              -> "idle"
                          [] Waiting \in 1..Update[t] -> "notify_all"
                          [] OTHER                    -> "notify_one"
    <3>1. pc' = [pc EXCEPT ![t] = label]
      BY <1>2 DEF Release_load_waiting, Goto
    <3>2. Waiting = 0 => Waiting \notin 1..Update[t]
      BY DEF Typed
    <3>3. label \in {"idle", "notify_all", "notify_one"}
      BY <3>2
    <3> QED
      BY <3>1, <3>3
  <2>2. pc[t] = "load_waiting" /\ UNCHANGED <<mem, semVars>>
    BY <1>2 DEF Release_load_waiting
  <2>3. Announced' = Announced
    BY <2>1, <2>2 DEF Announced, Typed
  <2>4. Typed'
    BY <2>1, <2>2 DEF Typed
  <2>5. Positive'
    BY <2>1, <2>2 DEF Positive, Typed
  <2> QED
    BY <2>2, <2>3, <2>4, <2>5 DEF Aside
<1>3. CASE Release_notify_all(t)
  BY <1>3, NotifyMoves DEF Release_notify_all, Aside, Typed, Positive, Announced
<1>4. CASE Release_notify_one(t)
  <2> DEFINE next == IF Update[t] = 1 THEN "idle" ELSE "notify_one"
  <2>1. /\ pc[t] = "notify_one" /\ Update[t] \in 1..Least_max_value
        /\ Update' = [Update EXCEPT ![t] = @ - 1]
        /\ UNCHANGED <<Waiting, Current, ops>>
    BY <1>4, CountsAssumption DEF Release_notify_one, Typed, Positive
  <2>2. /\ mem' = mem
        /\ pc' \in [Threads -> ClientLabels \cup WaitLabels]
        /\ pc'[t] = next
        /\ \A u \in Threads \ {t} :
             \/ pc'[u] = pc[u]
             \/ pc[u] = "asleep" /\ pc'[u] \in {"awake", "ret"}
    <3>1. next \in {"idle", "notify_one"} /\ Notify_one_direct(t, Counter, next)
      BY <1>4 DEF Release_notify_one
    <3> HIDE DEF next
    <3> QED
      BY <3>1, NotifyMoves
  <2>3. Update' \in [Threads -> 0..Least_max_value] /\ Update'[t] = Update[t] - 1
        /\ \A u \in Threads \ {t} : Update'[u] = Update[u]
    BY <2>1, CountsAssumption DEF Typed
  <2>4. pc'[t] = "notify_one" => Update'[t] > 0
    BY <2>1, <2>2, <2>3, CountsAssumption
  <2>5. Announced' = Announced
    BY <2>1, <2>2 DEF Announced
  <2>6. Positive'
    BY <2>1, <2>2, <2>3, <2>4 DEF Positive
  <2> QED
    BY <2>1, <2>2, <2>3, <2>5, <2>6 DEF Aside, Typed
<1> QED
  BY <1>1, <1>2, <1>3, <1>4

(* acquire, try_acquire_for, try_acquire_until and try_acquire, but for    *)
(* the announcement and the withdrawal.                                    *)
LEMMA AcquireAside ==
    ASSUME Typed, Positive, NEW t \in Threads,
           \/ \E d \in {"none", "ahead"} : Acquire(t, d)
           \/ Acquire_load(t) \/ Acquire_cas(t) \/ Acquire_check(t)
           \/ Wait_load_counter(t)
           \/ Try_acquire(t) \/ Try_acquire_cas(t)
    PROVE  Aside
<1> USE DEF Goto, Start
<1>1. Count \in 0..Least_max_value
  BY CounterAssumption DEF Typed, Count
<1>2. ASSUME Current[t] = Count, pc[t] \in {"cas", "try_cas"},
             mem' = [mem EXCEPT ![Counter] = Current[t] - 1]
      PROVE  mem' \in [Addresses -> 0..Least_max_value]
  <2>1. Current[t] - 1 \in 0..Least_max_value
    BY <1>1, <1>2, CountsAssumption DEF Positive
  <2> QED
    BY <1>2, <2>1 DEF Typed
<1>3. \E label \in {"cas", "check", "add_waiting"} :
        NextFor(t, Count) = label /\ (label = "cas" => Count > 0)
  BY <1>1 DEF NextFor
<1>4. ASSUME NEW d, Acquire(t, d) PROVE Aside
  BY <1>4, CountsAssumption DEF Acquire, Aside, Typed, Positive, Announced
<1>5. CASE Acquire_load(t)
  BY <1>1, <1>3, <1>5 DEF Acquire_load, Aside, Typed, Positive, Announced
<1>6. CASE Acquire_cas(t)
  <2>1. CASE Count = Current[t]
    BY <1>2, <1>6, <2>1 DEF Acquire_cas, Aside, Typed, Positive, Announced
  <2>2. CASE Count # Current[t]
    BY <1>1, <1>3, <1>6, <2>2 DEF Acquire_cas, Aside, Typed, Positive, Announced
  <2> QED
    BY <2>1, <2>2
<1>7. CASE Acquire_check(t)
  BY <1>7 DEF Acquire_check, Aside, Typed, Positive, Announced
<1>8. CASE Wait_load_counter(t)
  BY <1>8 DEF Wait_load_counter, Wait_direct, Aside, Typed, Positive, Announced
<1>9. CASE Try_acquire(t)
  BY <1>1, <1>9, CountsAssumption DEF Try_acquire, Aside, Typed, Positive, Announced
<1>10. CASE Try_acquire_cas(t)
  BY <1>2, <1>10 DEF Try_acquire_cas, Aside, Typed, Positive, Announced
<1> QED
  BY <1>4, <1>5, <1>6, <1>7, <1>8, <1>9, <1>10

-----------------------------------------------------------------------------
(* The two steps that change _Waiting. *)
LEMMA AnnounceCounted ==
    ASSUME IsFiniteSet(Threads), Typed, Positive, WaitingCounted,
           NEW t \in Threads, Wait_add_waiting(t) \/ Wait_sub_waiting(t)
    PROVE  Typed' /\ Positive' /\ WaitingCounted'
<1>1. IsFiniteSet(Announced) /\ Waiting = Cardinality(Announced)
  BY FS_Subset DEF Announced, WaitingCounted
<1>2. CASE Wait_add_waiting(t)
  <2>1. Announced' = Announced \cup {t} /\ t \notin Announced
    BY <1>2 DEF Wait_add_waiting, Goto, Typed, Announced
  <2>2. Cardinality(Announced') = Cardinality(Announced) + 1
    BY <1>1, <2>1, FS_AddElement
  <2>3. WaitingCounted'
    BY <1>1, <1>2, <2>2 DEF Wait_add_waiting, WaitingCounted, Announced
  <2> QED
    BY <1>2, <2>3 DEF Wait_add_waiting, Goto, Typed, Positive
<1>3. CASE Wait_sub_waiting(t)
  <2>1. Announced' = Announced \ {t} /\ t \in Announced
    BY <1>3 DEF Wait_sub_waiting, Goto, Typed, Announced
  <2>2. Cardinality(Announced') = Cardinality(Announced) - 1
    BY <1>1, <2>1, FS_RemoveElement
  <2>3. WaitingCounted'
    BY <1>1, <1>3, <2>2 DEF Wait_sub_waiting, WaitingCounted, Announced
  <2> QED
    BY <1>3, <2>3 DEF Wait_sub_waiting, Goto, Typed, Positive
<1> QED
  BY <1>2, <1>3

(* The invariant is inductive. *)
LEMMA NextCounted ==
    ASSUME IsFiniteSet(Threads)
    PROVE  Typed /\ Positive /\ WaitingCounted /\ [Next]_vars
                => Typed' /\ Positive' /\ WaitingCounted'
<1> SUFFICES ASSUME Typed, Positive, WaitingCounted, [Next]_vars
             PROVE  Typed' /\ Positive' /\ WaitingCounted'
  OBVIOUS
<1>1. ASSUME Aside PROVE Typed' /\ Positive' /\ WaitingCounted'
  BY <1>1 DEF Aside, WaitingCounted, Announced
<1>2. CASE UNCHANGED vars
  BY <1>1, <1>2 DEF vars, waitVars, Aside, Typed, Positive, Announced
<1>3. ASSUME NEW t \in Threads, Run(t)
      PROVE  Aside \/ Wait_add_waiting(t) \/ Wait_sub_waiting(t)
  BY <1>3, ReleaseAside, AcquireAside DEF Run
<1> QED
  BY <1>1, <1>2, <1>3, ReleaseAside, AcquireAside, WaitStepAside, AnnounceCounted
     DEF Next, Terminating

(* No more threads are announced than there are. *)
LEMMA CountedType ==
    ASSUME IsFiniteSet(Threads)
    PROVE  Typed /\ WaitingCounted => TypeOK
<1> SUFFICES ASSUME Typed, WaitingCounted PROVE TypeOK
  OBVIOUS
<1>1. /\ Announced \subseteq Threads
      /\ Cardinality(Announced) <= Cardinality(Threads)
      /\ Cardinality(Announced) \in Nat /\ Cardinality(Threads) \in Nat
  BY FS_Subset, FS_CardinalityType DEF Announced
<1>2. Waiting \in 0..Cardinality(Threads)
  BY <1>1 DEF WaitingCounted, Announced
<1> QED
  BY <1>2 DEF Typed, TypeOK

(* The count stays within 0 and max(): no release within its precondition  *)
(* and no exchange of acquire or try_acquire takes it out, and the         *)
(* _STL_VERIFY of semaphore never fire.                                    *)
THEOREM CountInRange ==
    ASSUME IsFiniteSet(Threads)
    PROVE  Spec => []TypeOK
<1> QED
  BY InitCounted, NextCounted, CountedType, PTL DEF Spec

(* _Waiting counts the threads inside _Wait, whatever wakes, time-outs and *)
(* spurious returns they meet: release never skips a notify that a thread  *)
(* in _Wait needs because _Waiting is too small.                           *)
THEOREM WaitersCounted ==
    ASSUME IsFiniteSet(Threads)
    PROVE  Spec => []WaitingCounted
<1> QED
  BY InitCounted, NextCounted, PTL DEF Spec

-----------------------------------------------------------------------------
(* Where WaitOnAddress is available: why release wakes enough threads.     *)

(* A thread inside WaitOnAddress waits for the counter to leave 0. *)
OnAddress ==
    /\ Storage \in [Threads -> Addresses]
    /\ Comparand \in [Threads -> 0..Least_max_value]
    /\ \A t \in Threads :
        /\ pc[t] \notin {"compare", "sleep", "awake", "expired"}
        /\ pc[t] = "enter" => Comparand[t] = 0

(* The units of the count that somebody is sure to look for: one for every *)
(* thread that is about to load the counter or to take a unit, and one for *)
(* every notify_one that a release has still to make.                      *)
Promises ==
    {p \in Threads \X (0..Least_max_value) :
        \/ p[2] = 0 /\ pc[p[1]] \in {"ret", "load", "cas"}
        \/ p[2] \in 1..Update[p[1]] /\ pc[p[1]] \in {"load_waiting", "notify_one"}}

(* Somebody sleeps and no notify_all is under way. *)
Sleepers ==
    /\ \E t \in Threads : pc[t] = "asleep"
    /\ \A t \in Threads : pc[t] # "notify_all"

(* Then every unit of the count is promised to be looked for. *)
Promised == Sleepers => Count <= Cardinality(Promises)

(* Promises is a finite set, in every state. *)
LEMMA PairsFinite ==
    ASSUME IsFiniteSet(Threads), NEW P \in SUBSET (Threads \X (0..Least_max_value))
    PROVE  IsFiniteSet(P) /\ Cardinality(P) \in Nat
<1>1. IsFiniteSet(0..Least_max_value)
  BY CountsAssumption, FS_Interval
<1>2. IsFiniteSet(Threads \X (0..Least_max_value))
  BY <1>1, FS_Product
<1> QED
  BY <1>2, FS_Subset, FS_CardinalityType

(* Before and after a step. *)
LEMMA PromisesFinite ==
    ASSUME IsFiniteSet(Threads)
    PROVE  /\ IsFiniteSet(Promises) /\ Cardinality(Promises) \in Nat
           /\ IsFiniteSet(Promises') /\ Cardinality(Promises') \in Nat
<1>1. Promises \in SUBSET (Threads \X (0..Least_max_value))
  BY DEF Promises
<1>2. Promises' \in SUBSET (Threads \X (0..Least_max_value))
  BY DEF Promises
<1> QED
  BY <1>1, <1>2, PairsFinite

(* A step that breaks no promise, raises no count and puts nobody to sleep *)
(* keeps the count promised; so does one that leaves the count at 0.       *)
LEMMA PromisesKept ==
    ASSUME IsFiniteSet(Threads), Typed, Typed', Promised,
           Sleepers' => Sleepers, Promises \subseteq Promises', Count' <= Count
    PROVE  Promised'
<1>1. Cardinality(Promises) <= Cardinality(Promises')
  BY PromisesFinite, FS_Subset
<1>2. Count \in Nat /\ Count' \in Nat
  BY CounterAssumption, CountsAssumption DEF Typed, Count
<1> QED
  BY <1>1, <1>2, PromisesFinite DEF Promised

(* A count of 0 needs no promise. *)
LEMMA PromisesEmpty ==
    ASSUME IsFiniteSet(Threads), Count' = 0
    PROVE  Promised'
BY PromisesFinite DEF Promised

(* The wait itself: a thread falls asleep only when the counter is 0. *)
LEMMA WaitStepPromised ==
    ASSUME IsFiniteSet(Threads), ~Srwlock, Typed, Typed', OnAddress, Promised,
           NEW t \in Threads, WaitStep(t), UNCHANGED semVars
    PROVE  OnAddress' /\ Promised'
<1> USE DEF Goto
<1>1. CASE Wait_on_address(t) /\ mem[Storage[t]] = Comparand[t]
  <2>1. Count' = 0
    BY <1>1, CounterAssumption DEF Wait_on_address, OnAddress, Count
  <2>2. OnAddress'
    BY <1>1 DEF Wait_on_address, OnAddress, Typed
  <2> QED
    BY <2>1, <2>2, PromisesEmpty
<1>2. CASE \/ Wait_on_address(t) /\ mem[Storage[t]] # Comparand[t]
           \/ Wait_spurious(t) \/ Wait_timeout(t) \/ Deadline_passes(t)
  <2>1. /\ \/ pc' = [pc EXCEPT ![t] = "ret"] /\ pc[t] \in {"enter", "asleep"}
           \/ pc' = pc
        /\ UNCHANGED <<mem, Storage, Comparand>>
    BY <1>2 DEF Wait_on_address, Wait_spurious, Wait_timeout, Deadline_passes
  <2>2. OnAddress'
    BY <2>1 DEF OnAddress, Typed
  <2>3. Promises \subseteq Promises' /\ (Sleepers' => Sleepers) /\ Count' = Count
    BY <2>1 DEF Promises, Sleepers, Typed, Count
  <2>4. Count' <= Count
    BY <2>3, CounterAssumption, CountsAssumption DEF Typed, Count
  <2> QED
    BY <2>2, <2>3, <2>4, PromisesKept
<1> QED
  BY <1>1, <1>2
     DEF WaitStep, Wait_enter, Wait_compare, Wait_sleep, Wait_relock, OnAddress, Wait_on_address

(* The calls that promise units, or keep them. *)
LEMMA CallPromised ==
    ASSUME IsFiniteSet(Threads), Typed, Typed', Positive, WaitingCounted, OnAddress, Promised,
           NEW t \in Threads,
           \/ \E d \in {"none", "ahead"} : Acquire(t, d)
           \/ Acquire_load(t) \/ Acquire_check(t)
           \/ Wait_add_waiting(t) \/ Wait_load_counter(t) \/ Wait_sub_waiting(t)
           \/ Try_acquire(t) \/ Try_acquire_cas(t)
    PROVE  OnAddress' /\ Promised'
<1> USE DEF Goto, Start
<1>1. Count \in Nat /\ Count' \in Nat
  BY CounterAssumption, CountsAssumption DEF Typed, Count
<1>2. ASSUME UNCHANGED <<Update, Storage, Comparand>>, Count' <= Count,
             NEW label, pc' = [pc EXCEPT ![t] = label],
             label \notin {"compare", "sleep", "awake", "expired", "enter", "asleep", "notify_all"},
             \/ pc[t] \notin {"ret", "load", "cas", "load_waiting", "notify_one", "notify_all"}
             \/ pc[t] \in {"ret", "load"} /\ label \in {"load", "cas"}
      PROVE  OnAddress' /\ Promised'
  <2>1. OnAddress'
    BY <1>2 DEF OnAddress, Typed
  <2>2. Promises \subseteq Promises' /\ (Sleepers' => Sleepers)
    BY <1>2 DEF Promises, Sleepers, Typed
  <2> QED
    BY <1>2, <2>1, <2>2, PromisesKept
<1>3. ASSUME NEW d, Acquire(t, d) PROVE OnAddress' /\ Promised'
  <2>1. /\ pc[t] = "idle" /\ pc' = [pc EXCEPT ![t] = "load"] /\ Count' = Count
        /\ UNCHANGED <<Update, Storage, Comparand>>
    BY <1>3 DEF Acquire, Count
  <2>2. Count' <= Count
    BY <1>1, <2>1
  <2> QED
    BY <1>2, <2>1, <2>2
<1>4. CASE Acquire_load(t)
  <2>1. CASE Count = 0
    <3>1. OnAddress'
      BY <1>4, <2>1 DEF Acquire_load, NextFor, OnAddress, Typed
    <3> QED
      BY <1>4, <2>1, <3>1, PromisesEmpty DEF Acquire_load, Count
  <2>2. CASE Count > 0
    <3>1. /\ pc[t] = "load" /\ pc' = [pc EXCEPT ![t] = "cas"] /\ Count' = Count
          /\ UNCHANGED <<Update, Storage, Comparand>>
      BY <1>4, <2>2 DEF Acquire_load, NextFor, Count
    <3>2. Count' <= Count
      BY <1>1, <3>1
    <3> QED
      BY <1>2, <3>1, <3>2
  <2> QED
    BY <1>1, <2>1, <2>2
<1>5. CASE Acquire_check(t)
  BY <1>1, <1>2, <1>5 DEF Acquire_check, Count, semVars
<1>6. CASE Wait_add_waiting(t)
  <2>1. /\ pc[t] = "add_waiting" /\ pc' = [pc EXCEPT ![t] = "load_counter"] /\ Count' = Count
        /\ UNCHANGED <<Update, Storage, Comparand>>
    BY <1>6 DEF Wait_add_waiting, Count
  <2>2. Count' <= Count
    BY <1>1, <2>1
  <2> QED
    BY <1>2, <2>1, <2>2
<1>7. CASE Wait_load_counter(t)
  <2>1. CASE Count = 0
    <3>1. OnAddress'
      BY <1>7, <2>1, CounterAssumption, CountsAssumption
         DEF Wait_load_counter, Wait_direct, OnAddress, Typed
    <3> QED
      BY <1>7, <2>1, <3>1, PromisesEmpty DEF Wait_load_counter, Count
  <2>2. CASE Count # 0
    BY <1>1, <1>2, <1>7, <2>2 DEF Wait_load_counter, Count
  <2> QED
    BY <2>1, <2>2
<1>8. CASE Wait_sub_waiting(t)
  <2>1. /\ pc[t] = "ret" /\ pc' = [pc EXCEPT ![t] = "load"] /\ Count' = Count
        /\ UNCHANGED <<Update, Storage, Comparand>>
    BY <1>8 DEF Wait_sub_waiting, Count
  <2>2. Count' <= Count
    BY <1>1, <2>1
  <2> QED
    BY <1>2, <2>1, <2>2
<1>9. CASE Try_acquire(t)
  <2>1. /\ pc[t] = "idle" /\ Count' = Count /\ UNCHANGED <<Update, Storage, Comparand>>
        /\ pc' = [pc EXCEPT ![t] = "idle"] \/ pc' = [pc EXCEPT ![t] = "try_cas"]
    BY <1>9 DEF Try_acquire, Count
  <2>2. Count' <= Count
    BY <1>1, <2>1
  <2> QED
    BY <1>2, <2>1, <2>2
<1>10. CASE Try_acquire_cas(t)
  <2>1. Count' <= Count
    BY <1>1, <1>10, CounterAssumption DEF Try_acquire_cas, Count, Typed
  <2> QED
    BY <1>2, <1>10, <2>1 DEF Try_acquire_cas
<1> QED
  BY <1>3, <1>4, <1>5, <1>6, <1>7, <1>8, <1>9, <1>10

(* A unit that is taken takes one promise with it, the taker's own. *)
LEMMA CasPromised ==
    ASSUME IsFiniteSet(Threads), Typed, Typed', Positive, OnAddress, Promised,
           NEW t \in Threads, Acquire_cas(t)
    PROVE  OnAddress' /\ Promised'
<1> USE DEF Goto
<1>1. Count \in Nat /\ Count' \in Nat
  BY CounterAssumption, CountsAssumption DEF Typed, Count
<1>2. CASE Count = Current[t]
  <2>1. /\ pc[t] = "cas" /\ pc' = [pc EXCEPT ![t] = "idle"]
        /\ mem' = [mem EXCEPT ![Counter] = Current[t] - 1]
        /\ UNCHANGED <<Update, Storage, Comparand>>
    BY <1>2 DEF Acquire_cas
  <2>2. OnAddress'
    BY <2>1 DEF OnAddress, Typed
  <2>3. Count' = Count - 1
    BY <1>2, <2>1, CounterAssumption DEF Count, Typed
  <2>4. <<t, 0>> \in Promises /\ Promises \ {<<t, 0>>} \subseteq Promises' /\ (Sleepers' => Sleepers)
    <3>1. 0 \in 0..Least_max_value
      BY CountsAssumption
    <3>2. <<t, 0>> \in Promises
      BY <2>1, <3>1 DEF Promises
    <3>3. ASSUME NEW p \in Promises \ {<<t, 0>>} PROVE p \in Promises'
      <4>1. p \in Threads \X (0..Least_max_value) /\ p = <<p[1], p[2]>>
        BY <3>3 DEF Promises
      <4>2. p[1] # t
        BY <2>1, <3>3, <4>1 DEF Promises
      <4> QED
        BY <2>1, <3>3, <4>1, <4>2 DEF Promises, Typed
    <3>4. Sleepers' => Sleepers
      BY <2>1 DEF Sleepers, Typed
    <3> QED
      BY <3>2, <3>3, <3>4
  <2>5. Cardinality(Promises) - 1 <= Cardinality(Promises')
    <3>1. /\ IsFiniteSet(Promises \ {<<t, 0>>})
          /\ Cardinality(Promises \ {<<t, 0>>}) = Cardinality(Promises) - 1
      BY <2>4, PromisesFinite, FS_RemoveElement
    <3>2. Cardinality(Promises \ {<<t, 0>>}) <= Cardinality(Promises')
      BY <2>4, PromisesFinite, FS_Subset
    <3> QED
      BY <3>1, <3>2
  <2> QED
    BY <1>1, <2>2, <2>3, <2>4, <2>5, PromisesFinite DEF Promised
<1>3. CASE Count # Current[t]
  <2>1. /\ pc[t] = "cas" /\ pc' = [pc EXCEPT ![t] = NextFor(t, Count)]
        /\ UNCHANGED <<mem, Update, Storage, Comparand>>
    BY <1>3 DEF Acquire_cas
  <2>2. CASE Count = 0
    <3>1. OnAddress'
      BY <2>1, <2>2 DEF NextFor, OnAddress, Typed
    <3> QED
      BY <2>1, <2>2, <3>1, PromisesEmpty DEF Count
  <2>3. CASE Count > 0
    <3>1. NextFor(t, Count) = "cas"
      BY <2>3 DEF NextFor
    <3>2. pc' = pc
      BY <2>1, <3>1 DEF Typed
    <3>3. /\ Promises \subseteq Promises' /\ (Sleepers' => Sleepers)
          /\ OnAddress' /\ Count' = Count
      BY <2>1, <3>2 DEF Promises, Sleepers, OnAddress, Count
    <3> QED
      BY <1>1, <3>3, PromisesKept
  <2> QED
    BY <1>1, <2>2, <2>3
<1> QED
  BY <1>2, <1>3

(* release(n) promises n units, in the loop of its notify_one calls. *)
LEMMA ReleasePromised ==
    ASSUME IsFiniteSet(Threads), Typed, Typed', OnAddress, Promised,
           NEW t \in Threads, NEW n \in 1..Least_max_value, Release(t, n)
    PROVE  OnAddress' /\ Promised'
<1>1. Count \in Nat /\ Count' \in Nat /\ Count' = Count + n
  BY CounterAssumption, CountsAssumption DEF Typed, Count, Release
<1>2. /\ pc[t] = "idle" /\ pc' = [pc EXCEPT ![t] = "load_waiting"]
      /\ Update' = [Update EXCEPT ![t] = n]
      /\ UNCHANGED <<Storage, Comparand>>
  BY DEF Release, Start, Goto
<1>3. OnAddress'
  BY <1>2 DEF OnAddress, Typed
<1> DEFINE N == {t} \X (1..n)
<1>4. Promises \cup N \subseteq Promises' /\ Promises \cap N = {}
  <2>1. \A i \in 1..n : i \in 0..Least_max_value
    BY CountsAssumption
  <2>2. Update'[t] = n /\ pc'[t] = "load_waiting"
    BY <1>2 DEF Typed
  <2>3. N \subseteq Promises'
    BY <2>1, <2>2 DEF Promises
  <2>4. ASSUME NEW p \in Promises PROVE p[1] # t /\ p \in Promises'
    <3>1. p[1] # t
      BY <1>2 DEF Promises
    <3> QED
      BY <1>2, <3>1 DEF Promises, Typed
  <2> QED
    BY <2>3, <2>4
<1>5. Cardinality(Promises) + n <= Cardinality(Promises')
  <2>1. IsFiniteSet(1..n) /\ Cardinality(1..n) = n
    BY CountsAssumption, FS_Interval
  <2>2. IsFiniteSet({t}) /\ Cardinality({t}) = 1
    BY FS_Singleton
  <2>3. IsFiniteSet(N) /\ Cardinality(N) = n
    <3>1. IsFiniteSet(N) /\ Cardinality(N) = Cardinality({t}) * Cardinality(1..n)
      BY <2>1, <2>2, FS_Product
    <3>2. 1 * n = n
      OBVIOUS
    <3> QED
      BY <2>1, <2>2, <3>1, <3>2
  <2> HIDE DEF N
  <2>4. Cardinality(Promises \cup N) = Cardinality(Promises) + n
    <3>1. Cardinality(Promises \cap N) = 0
      BY <1>4, FS_EmptySet
    <3>2. Cardinality(Promises \cup N)
            = Cardinality(Promises) + Cardinality(N) - Cardinality(Promises \cap N)
      BY <2>3, PromisesFinite, FS_Union
    <3> QED
      BY <2>3, <3>1, <3>2, PromisesFinite
  <2>5. Cardinality(Promises \cup N) <= Cardinality(Promises')
    BY <1>4, PromisesFinite, FS_Subset
  <2> QED
    BY <2>4, <2>5
<1>6. Sleepers' => Sleepers
  BY <1>2 DEF Sleepers, Typed
<1> QED
  BY <1>1, <1>3, <1>5, <1>6, PromisesFinite DEF Promised

(* What release does with its reading of _Waiting: it skips the notify     *)
(* only if nobody sleeps.                                                  *)
LEMMA LoadWaitingPromised ==
    ASSUME IsFiniteSet(Threads), Typed, Typed', WaitingCounted, OnAddress, Promised,
           NEW t \in Threads, Release_load_waiting(t)
    PROVE  OnAddress' /\ Promised'
<1>1. pc[t] = "load_waiting" /\ UNCHANGED <<mem, Update, Storage, Comparand>>
  BY DEF Release_load_waiting
<1> DEFINE label == CASE Waiting = 0              -> "idle"
                      [] Waiting \in 1..Update[t] -> "notify_all"
                      [] OTHER                    -> "notify_one"
<1>2. pc' = [pc EXCEPT ![t] = label]
  BY DEF Release_load_waiting, Goto
<1>3. Waiting = 0 => Waiting \notin 1..Update[t]
  BY DEF Typed
<1>4. /\ label \in {"idle", "notify_all", "notify_one"}
      /\ label = "idle" => Waiting = 0
  BY <1>3
<1> HIDE DEF label
<1>5. OnAddress'
  BY <1>1, <1>2, <1>4 DEF OnAddress, Typed
<1>6. CASE label = "idle"
  <2>1. Announced = {}
    <3>1. IsFiniteSet(Announced) /\ Cardinality(Announced) = 0
      BY <1>4, <1>6, FS_Subset DEF WaitingCounted, Announced
    <3> QED
      BY <3>1, FS_EmptySet
  <2>2. ~Sleepers'
    BY <1>2, <1>6, <2>1 DEF Sleepers, Announced, Typed
  <2> QED
    BY <1>5, <2>2 DEF Promised
<1>7. CASE label = "notify_all"
  <2>1. ~Sleepers'
    BY <1>2, <1>7 DEF Sleepers, Typed
  <2> QED
    BY <1>5, <2>1 DEF Promised
<1>8. CASE label = "notify_one"
  <2>1. Promises \subseteq Promises' /\ (Sleepers' => Sleepers) /\ Count' = Count
    BY <1>1, <1>2, <1>8 DEF Promises, Sleepers, Typed, Count
  <2>2. Count' <= Count
    BY <2>1, CounterAssumption, CountsAssumption DEF Typed, Count
  <2> QED
    BY <1>5, <2>1, <2>2, PromisesKept
<1> QED
  BY <1>4, <1>6, <1>7, <1>8

(* A thread woken takes over the promise of the notify that woke it. *)
LEMMA NotifyPromised ==
    ASSUME IsFiniteSet(Threads), ~Srwlock, Typed, Typed', Positive, OnAddress, Promised,
           NEW t \in Threads, Release_notify_all(t) \/ Release_notify_one(t)
    PROVE  OnAddress' /\ Promised'
<1>1. Blocked(Counter) = {u \in Threads : pc[u] = "asleep"}
  BY CounterAssumption DEF Blocked, OnAddress
<1>2. CASE Release_notify_all(t)
  <2>1. /\ pc' = [[u \in Threads |-> IF pc[u] = "asleep" THEN "ret" ELSE pc[u]] EXCEPT ![t] = "idle"]
        /\ UNCHANGED <<Storage, Comparand>>
    BY <1>1, <1>2 DEF Release_notify_all, Notify_all_direct, WakeByAddress
  <2>2. OnAddress' /\ ~Sleepers'
    BY <2>1 DEF OnAddress, Sleepers, Typed
  <2> QED
    BY <2>2 DEF Promised
<1>3. CASE Release_notify_one(t)
  <2> DEFINE next == IF Update[t] = 1 THEN "idle" ELSE "notify_one"
  <2>1. /\ pc[t] = "notify_one" /\ Update[t] \in 1..Least_max_value
        /\ Update' = [Update EXCEPT ![t] = @ - 1]
        /\ UNCHANGED <<mem, Storage, Comparand>>
        /\ Notify_one_direct(t, Counter, next)
    <3>1. /\ pc[t] = "notify_one" /\ Update' = [Update EXCEPT ![t] = @ - 1]
          /\ Notify_one_direct(t, Counter, next)
      BY <1>3 DEF Release_notify_one
    <3>2. Update[t] \in 1..Least_max_value
      BY <3>1, CountsAssumption DEF Typed, Positive
    <3> HIDE DEF next
    <3>3. UNCHANGED <<mem, Storage, Comparand>>
      BY <3>1 DEF Notify_one_direct
    <3> QED
      BY <3>1, <3>2, <3>3
  <2>2. next \in {"idle", "notify_one"} /\ (next = "idle" <=> Update[t] = 1)
    OBVIOUS
  <2> HIDE DEF next
  <2>3. CASE pc' = [pc EXCEPT ![t] = next] /\ Blocked(Counter) = {}
    <3>1. OnAddress'
      BY <2>1, <2>2, <2>3 DEF OnAddress, Typed
    <3>2. ~Sleepers'
      BY <1>1, <2>2, <2>3 DEF Sleepers, Typed
    <3> QED
      BY <3>1, <3>2 DEF Promised
  <2>4. ASSUME NEW v \in Threads, pc[v] = "asleep",
               pc' = [WakeByAddress({v}) EXCEPT ![t] = next]
        PROVE  OnAddress' /\ Promised'
    <3>1. pc' = [u \in Threads |-> IF u = t THEN next ELSE IF u = v THEN "ret" ELSE pc[u]]
      BY <2>4 DEF WakeByAddress
    <3>2. OnAddress'
      BY <2>1, <2>2, <3>1 DEF OnAddress, Typed
    <3>3. Sleepers' => Sleepers
      BY <2>1, <2>4, <3>1 DEF Sleepers
    <3> DEFINE old == <<t, Update[t]>>
               new == <<v, 0>>
    <3>4. old \in Promises /\ new \notin Promises /\ old # new
      BY <2>1, <2>4, CountsAssumption DEF Promises
    <3>5. new \in Promises'
      BY <2>1, <2>4, <3>1, CountsAssumption DEF Promises
    <3>6. ASSUME NEW p \in Promises \ {old} PROVE p \in Promises'
      <4>1. p \in Threads \X (0..Least_max_value) /\ p = <<p[1], p[2]>>
        BY <3>6 DEF Promises
      <4>2. CASE p[1] = t
        <5>1. p[2] \in 1..Update[t] /\ p[2] # Update[t]
          BY <2>1, <3>6, <4>1, <4>2 DEF Promises
        <5>2. p[2] \in 1..(Update[t] - 1) /\ Update'[t] = Update[t] - 1 /\ Update[t] # 1
          BY <2>1, <5>1, CountsAssumption DEF Typed
        <5>3. pc'[t] = "notify_one"
          BY <2>2, <3>1, <5>2
        <5> QED
          BY <4>1, <4>2, <5>2, <5>3 DEF Promises
      <4>3. CASE p[1] # t
        <5>1. p[1] # v /\ Update'[p[1]] = Update[p[1]] /\ pc'[p[1]] = pc[p[1]]
          BY <2>1, <2>4, <3>1, <3>6, <4>1, <4>3 DEF Promises, Typed
        <5> QED
          BY <3>6, <4>1, <5>1 DEF Promises
      <4> QED
        BY <4>2, <4>3
    <3> HIDE DEF old, new
    <3>7. Cardinality(Promises) <= Cardinality(Promises')
      <4> DEFINE Q == (Promises \ {old}) \cup {new}
      <4>1. /\ IsFiniteSet(Promises \ {old})
            /\ Cardinality(Promises \ {old}) = Cardinality(Promises) - 1
        BY <3>4, PromisesFinite, FS_RemoveElement
      <4>2. Cardinality(Q) = Cardinality(Promises \ {old}) + 1
        BY <3>4, <4>1, FS_AddElement
      <4>3. Cardinality(Q) <= Cardinality(Promises')
        BY <3>5, <3>6, PromisesFinite, FS_Subset
      <4> HIDE DEF Q
      <4> QED
        BY <4>1, <4>2, <4>3, PromisesFinite
    <3>8. Count' = Count /\ Count \in Nat
      BY <2>1, CounterAssumption, CountsAssumption DEF Count, Typed
    <3> QED
      BY <3>2, <3>3, <3>7, <3>8, PromisesFinite DEF Promised
  <2> QED
    BY <1>1, <2>1, <2>3, <2>4 DEF Notify_one_direct, Goto
<1> QED
  BY <1>2, <1>3

-----------------------------------------------------------------------------
(* The inductive invariant behind EnoughWoken. *)
WakeInv == Typed /\ Positive /\ WaitingCounted /\ OnAddress /\ Promised

(* The constructor establishes it: nobody is there yet. *)
LEMMA WakeInit ==
    ASSUME IsFiniteSet(Threads)
    PROVE  Init => WakeInv
<1> SUFFICES ASSUME Init PROVE WakeInv
  OBVIOUS
<1>1. Typed /\ Positive /\ WaitingCounted
  BY InitCounted
<1>2. OnAddress
  BY CounterAssumption, CountsAssumption DEF Init, WaitInit, OnAddress
<1>3. ~Sleepers
  BY DEF Init, WaitInit, Sleepers
<1> QED
  BY <1>1, <1>2, <1>3 DEF WakeInv, Promised

(* It is inductive. *)
LEMMA WakeNext ==
    ASSUME IsFiniteSet(Threads), ~Srwlock
    PROVE  WakeInv /\ [Next]_vars => WakeInv'
<1> SUFFICES ASSUME WakeInv, [Next]_vars PROVE WakeInv'
  OBVIOUS
<1>1. Typed /\ Positive /\ WaitingCounted /\ OnAddress /\ Promised
  BY DEF WakeInv
<1>2. Typed' /\ Positive' /\ WaitingCounted'
  BY <1>1, NextCounted
<1>3. CASE UNCHANGED vars
  <2>1. OnAddress' /\ Promised'
    BY <1>1, <1>3 DEF vars, waitVars, OnAddress, Promised, Sleepers, Promises, Count
  <2> QED
    BY <1>2, <2>1 DEF WakeInv
<1>4. ASSUME NEW t \in Threads, Run(t) PROVE OnAddress' /\ Promised'
  BY <1>1, <1>2, <1>4, CallPromised, CasPromised, LoadWaitingPromised, NotifyPromised DEF Run
<1>5. ASSUME NEW t \in Threads, NEW n \in 1..Least_max_value, Release(t, n)
      PROVE  OnAddress' /\ Promised'
  BY <1>1, <1>2, <1>5, ReleasePromised
<1>6. ASSUME NEW t \in Threads,
             \/ \E d \in {"none", "ahead"} : Acquire(t, d)
             \/ Try_acquire(t)
      PROVE  OnAddress' /\ Promised'
  BY <1>1, <1>2, <1>6, CallPromised
<1>7. ASSUME NEW t \in Threads, WaitStep(t), UNCHANGED semVars
      PROVE  OnAddress' /\ Promised'
  BY <1>1, <1>2, <1>7, WaitStepPromised
<1>8. UNCHANGED vars \/ (OnAddress' /\ Promised')
  BY <1>4, <1>5, <1>6, <1>7 DEF Next, Terminating
<1> QED
  BY <1>2, <1>3, <1>8 DEF WakeInv

(* A count that is positive and promised to somebody: that one is awake. *)
LEMMA PromisedAwake ==
    ASSUME IsFiniteSet(Threads)
    PROVE  WakeInv => EnoughWoken
<1> SUFFICES ASSUME WakeInv, \E t \in Threads : pc[t] = "asleep", Count > 0,
                    \A u \in Threads : pc[u] \in {"idle", "asleep"}
             PROVE  FALSE
  BY DEF EnoughWoken
<1>1. Promises = {}
  BY DEF Promises
<1>2. Cardinality(Promises) = 0
  BY <1>1, FS_EmptySet
<1>3. Sleepers
  BY DEF Sleepers
<1>4. Count \in Nat
  BY CounterAssumption, CountsAssumption DEF WakeInv, Typed, Count
<1> QED
  BY <1>2, <1>3, <1>4 DEF WakeInv, Promised

(* Where WaitOnAddress is available, no thread is left asleep in acquire   *)
(* next to a positive count with nobody awake to take it: the wakes of     *)
(* release are enough, for any number of threads and any max().            *)
THEOREM EnoughAreWoken ==
    ASSUME IsFiniteSet(Threads), Api_level = "has_wait_on_address"
    PROVE  Spec => []EnoughWoken
<1>1. ~Srwlock
  BY DEF Srwlock
<1> QED
  BY <1>1, WakeInit, WakeNext, PromisedAwake, PTL DEF Spec


-----------------------------------------------------------------------------
(* Barrier. *)
USE DEF BarrierLabels, WaitLabels, LinkedLabels, tableVars, argVars, barrierVars, value_step

(* What the phase still expects. *)
Left == Value(mem[CurrentAddress])

(* The threads between the two steps of arrive_and_drop. *)
Dropping == {u \in Threads : pc[u] = "drop"}

(* The threads that this phase, and that the next one, expects. *)
Expecting == {t \in Threads \ dropped : arrivedIn[t] # phase}
Members == {t \in Threads \ dropped : pc[t] # "drop"}

(* The low bit of _Current is the parity of the phase; _Total has none.    *)
Parity == Bit(mem[CurrentAddress]) = phase % 2 /\ Total % 2 = 0

(* A thread in the middle of arrive_and_drop keeps its place in this phase *)
(* and has given up the one in the next.                                   *)
Room ==
    /\ Cardinality(Dropping) <= Left
    /\ Left - Cardinality(Dropping) <= Value(Total)

(* One thread completes a phase, the one that arrived last in it, and      *)
(* nothing changes _Total meanwhile.                                       *)
Completing ==
    \A t \in Threads :
        pc[t] \in {"completion", "store"} =>
            /\ Left = 0
            /\ arrivedIn[t] = phase
            /\ pc[t] = "store" => Rem_count[t] = Total
            /\ \A u \in Threads \ {t} : pc[u] \notin {"completion", "store"}

(* A token holds the parity of the phase it was given out in. *)
Tokens ==
    \A t \in Threads :
        /\ arrivedIn[t] <= phase
        /\ arrivedIn[t] # -1 => Arrival[t] = arrivedIn[t] % 2
        /\ pc[t] \notin {"idle", "drop"} => arrivedIn[t] # -1

(* With one arrival per thread and phase the counts are those of the       *)
(* threads that are left.                                                  *)
Accounts ==
    ~ForOthers =>
        /\ Left = Cardinality(Expecting)
        /\ Value(Total) = Cardinality(Members)
        /\ \A t \in Dropping : t \notin dropped /\ arrivedIn[t] # phase

BarrierInv == BarrierTypeOK /\ Parity /\ Room /\ Completing /\ Tokens /\ Accounts

-----------------------------------------------------------------------------
(* The arithmetic of _Current: a count above a bit.                        *)

(* The two halves of a value. *)
LEMMA Halves ==
    ASSUME NEW c \in Nat
    PROVE  /\ Value(c) \in Nat /\ Bit(c) \in {0, 1}
           /\ c = 2 * Value(c) + Bit(c)
  BY DEF Value, Bit

(* An arrival subtracts from the count and leaves the bit. *)
LEMMA Subtracted ==
    ASSUME NEW c \in Nat, NEW n \in Nat, n <= Value(c)
    PROVE  /\ c - n * 2 \in Nat /\ c - n * 2 <= c
           /\ Value(c - n * 2) = Value(c) - n
           /\ Bit(c - n * 2) = Bit(c)
  BY DEF Value, Bit

(* A count above the other bit, as the next phase has it. *)
LEMMA Marked ==
    ASSUME NEW c \in Nat, c % 2 = 0, NEW b \in {0, 1}
    PROVE  Value(c + b) = Value(c) /\ Bit(c + b) = b
  BY DEF Value, Bit

(* The phases have the two bits in turn. *)
LEMMA Alternates ==
    ASSUME NEW p \in Nat
    PROVE  /\ Bit((p % 2) + 1) = (p + 1) % 2 /\ Bit((p % 2) + 1) \in {0, 1}
           /\ p % 2 \in {0, 1}
  BY DEF Bit

(* The counts of threads are natural numbers, in every state. *)
LEMMA ThreadsCounted ==
    ASSUME NEW S \in SUBSET Threads
    PROVE  IsFiniteSet(S) /\ Cardinality(S) \in Nat /\ Cardinality(S) <= Expected /\ Expected \in Nat
  BY BarrierAssumption, FS_Subset, FS_CardinalityType DEF Expected

(* The values that the type invariant speaks of. *)
LEMMA CountsTyped ==
    ASSUME BarrierTypeOK
    PROVE  /\ mem[CurrentAddress] \in Counts /\ Counts \subseteq Nat /\ Expected \in Nat
           /\ Left \in Nat /\ Total \in Nat /\ Value(Total) \in Nat /\ phase \in Nat
           /\ \A t \in Threads : arrivedIn[t] \in Nat \cup {-1}
<1>1. Expected \in Nat /\ Counts \subseteq Nat
  BY ThreadsCounted DEF Counts
<1>2. mem[CurrentAddress] \in Counts /\ Total \in Counts
  BY CurrentAssumption DEF BarrierTypeOK
<1> QED
  BY <1>1, <1>2, Halves DEF BarrierTypeOK, Left

-----------------------------------------------------------------------------
(* The constructor establishes the invariant. *)
LEMMA BarrierInit == InitBarrier => BarrierInv
<1> SUFFICES ASSUME InitBarrier PROVE BarrierInv
  OBVIOUS
<1>1. Expected \in Nat
  BY ThreadsCounted
<1>2. /\ pc = [t \in Threads |-> "idle"] /\ Total = Expected * 2 /\ phase = 0
      /\ mem = [a \in Addresses |-> Expected * 2] /\ mem[CurrentAddress] = Expected * 2
      /\ arrivedIn = [t \in Threads |-> -1] /\ dropped = {}
  BY CurrentAssumption DEF InitBarrier, WaitInit
<1>3. Value(Expected * 2) = Expected /\ Bit(Expected * 2) = 0 /\ (Expected * 2) % 2 = 0
  BY <1>1 DEF Value, Bit
<1>4. Dropping = {} /\ Expecting = Threads /\ Members = Threads
  BY <1>2 DEF Dropping, Expecting, Members
<1>5. Cardinality(Dropping) = 0
  BY <1>4, FS_EmptySet
<1>6. BarrierTypeOK
  BY <1>1, <1>2, BarrierAssumption DEF InitBarrier, WaitInit, BarrierTypeOK, Counts
<1>7. Parity /\ Room
  BY <1>1, <1>2, <1>3, <1>5 DEF Parity, Room, Left
<1>8. Completing /\ Tokens
  BY <1>2 DEF Completing, Tokens
<1>9. Accounts
  BY <1>2, <1>3, <1>4 DEF Accounts, Left, Expected
<1> QED
  BY <1>6, <1>7, <1>8, <1>9 DEF BarrierInv

-----------------------------------------------------------------------------
(* What a wait, a notify or a thread outside the phase does to the         *)
(* barrier: nothing.                                                       *)
Quiet ==
    /\ UNCHANGED <<mem, barrierVars>>
    /\ pc' \in [Threads -> BarrierLabels \cup WaitLabels]
    /\ \A u \in Threads :
        \/ pc'[u] = pc[u]
        \/ /\ pc[u] \notin {"idle", "drop", "completion", "store"}
           /\ pc'[u] \notin {"drop", "completion", "store"}

(* A step that is quiet keeps the invariant. *)
LEMMA QuietKeeps ==
    ASSUME BarrierInv, Quiet
    PROVE  BarrierInv'
<1>1. /\ Dropping' = Dropping /\ Expecting' = Expecting /\ Members' = Members
      /\ Left' = Left /\ Value(Total)' = Value(Total)
  BY DEF Quiet, Dropping, Expecting, Members, Left
<1>2. BarrierTypeOK'
  BY DEF BarrierInv, Quiet, BarrierTypeOK
<1>3. Parity' /\ Room' /\ Accounts'
  BY <1>1 DEF BarrierInv, Quiet, Parity, Room, Accounts
<1>4. Completing' /\ Tokens'
  BY <1>1 DEF BarrierInv, Quiet, Completing, Tokens
<1> QED
  BY <1>2, <1>3, <1>4 DEF BarrierInv

(* The wait functions are quiet. *)
LEMMA WaitStepQuiet ==
    ASSUME BarrierTypeOK, NEW t \in Threads, WaitStep(t), UNCHANGED barrierVars
    PROVE  Quiet
<1> USE DEF Goto
<1>1. mem' = mem
  BY DEF WaitStep, Wait_enter, Wait_compare, Wait_sleep, Wait_spurious, Wait_timeout,
         Deadline_passes, Wait_relock, Wait_on_address
<1>2. \/ pc' = pc
      \/ /\ pc[t] \in WaitLabels
         /\ \E label \in WaitLabels : pc' = [pc EXCEPT ![t] = label]
  BY DEF WaitStep, Wait_enter, Wait_compare, Wait_sleep, Wait_spurious, Wait_timeout,
         Deadline_passes, Wait_relock, Wait_on_address
<1> QED
  BY <1>1, <1>2 DEF Quiet, BarrierTypeOK

(* notify_all moves its caller and the sleepers. *)
LEMMA NotifyAllMoves ==
    ASSUME BarrierTypeOK, NEW t \in Threads, Completion_notify(t)
    PROVE  /\ pc[t] = "notify_all" /\ UNCHANGED <<mem, barrierVars>>
           /\ pc' \in [Threads -> BarrierLabels \cup WaitLabels]
           /\ pc'[t] \in {"holds", "idle"}
           /\ \A u \in Threads \ {t} :
                pc'[u] = pc[u] \/ (pc[u] = "asleep" /\ pc'[u] \in {"awake", "ret"})
<1> DEFINE next == IF kind[t] = "arrive" THEN "holds" ELSE "idle"
<1>1. /\ pc[t] = "notify_all" /\ UNCHANGED barrierVars
      /\ Notify_all_direct(t, CurrentAddress, next) /\ next \in {"holds", "idle"}
  BY DEF Completion_notify
<1> HIDE DEF next
<1> QED
  BY <1>1 DEF Notify_all_direct, Notify_all_indirect, WakeContexts, WakeByAddress, Blocked, BarrierTypeOK

(* So a notify is quiet. *)
LEMMA NotifyQuiet ==
    ASSUME BarrierTypeOK, NEW t \in Threads, Completion_notify(t)
    PROVE  Quiet
  BY NotifyAllMoves DEF Quiet

(* So are the steps of wait. *)
LEMMA WaitQuiet ==
    ASSUME BarrierTypeOK, NEW t \in Threads, Wait(t) \/ Wait_load(t) \/ Wait_atomic(t), Tokens
    PROVE  Quiet
<1> USE DEF Goto, BarrierTypeOK, Quiet
<1>1. CASE Wait(t)
  BY <1>1 DEF Wait
<1>2. CASE Wait_load(t)
  BY <1>2 DEF Wait_load, Atomic_wait
<1>3. CASE Wait_atomic(t)
  BY <1>3 DEF Wait_atomic, Atomic_wait_direct, Wait_direct
<1> QED
  BY <1>1, <1>2, <1>3

-----------------------------------------------------------------------------
(* The last step of an arrival, of whichever kind. *)
LEMMA FetchKeeps ==
    ASSUME BarrierInv, NEW t \in Threads, NEW n \in 1..Expected,
           NEW k \in {"arrive", "arrive_and_wait", "drop"}, Fetch_sub(t, n, k),
           arrivals' \in 0..MaxArrivals,
           \/ k # "drop" /\ pc[t] \in {"idle", "holds"} /\ MayArrive(t, n)
           \/ k = "drop" /\ pc[t] = "drop" /\ n = 1
    PROVE  BarrierInv'
<1> DEFINE c == mem[CurrentAddress] - n * 2
<1>1. /\ mem' = [mem EXCEPT ![CurrentAddress] = c] /\ kind' = [kind EXCEPT ![t] = k]
      /\ Arrival' = [Arrival EXCEPT ![t] = Bit(c)]
      /\ arrivedIn' = [arrivedIn EXCEPT ![t] = phase]
      /\ dropped' = IF k = "drop" THEN dropped \cup {t} ELSE dropped
      /\ UNCHANGED <<Total, Rem_count, phase>>
  BY DEF Fetch_sub
<1>2. \E label \in {"completion", "wait_load", "holds", "idle"} :
        /\ pc' = [pc EXCEPT ![t] = label]
        /\ label = "completion" <=> Value(c) = 0
  BY DEF Fetch_sub, Atomic_wait, Goto
<1>3. BarrierTypeOK /\ Parity /\ Room /\ Completing /\ Tokens /\ Accounts
  BY DEF BarrierInv
<1>4. /\ mem[CurrentAddress] \in Counts /\ Counts \subseteq Nat /\ n \in Nat /\ n >= 1
      /\ Left \in Nat /\ Value(Total) \in Nat /\ phase \in Nat
      /\ Cardinality(Dropping) \in Nat /\ IsFiniteSet(Dropping)
  BY <1>3, CountsTyped, ThreadsCounted DEF Dropping
<1>5. Dropping' = Dropping \ {t}
  BY <1>2, <1>3 DEF Dropping, BarrierTypeOK
<1>6. /\ n + Cardinality(Dropping') <= Left
      /\ Left - n - Cardinality(Dropping') <= Value(Total)
      /\ Cardinality(Dropping') \in Nat
  <2>1. CASE k # "drop"
    <3>1. Dropping' = Dropping
      BY <1>5, <2>1 DEF Dropping
    <3>2. n <= Left - Cardinality(Dropping)
      BY <2>1 DEF MayArrive, Open, Left, Dropping
    <3> QED
      BY <1>3, <1>4, <3>1, <3>2 DEF Room
  <2>2. CASE k = "drop"
    <3>1. Cardinality(Dropping') = Cardinality(Dropping) - 1 /\ n = 1
      <4>1. t \in Dropping /\ n = 1
        BY <2>2 DEF Dropping
      <4> QED
        BY <1>4, <1>5, <4>1, FS_RemoveElement
    <3>2. Cardinality(Dropping') \in Nat
      BY <1>5, ThreadsCounted DEF Dropping
    <3> QED
      BY <1>3, <1>4, <3>1, <3>2 DEF Room
  <2> QED
    BY <2>1, <2>2
<1>7. n <= Left
  BY <1>4, <1>6
<1>8. c \in Nat /\ Value(c) = Left - n /\ Bit(c) = Bit(mem[CurrentAddress]) /\ Bit(c) \in {0, 1}
  BY <1>4, <1>7, Subtracted, Halves DEF Left
<1>9. mem'[CurrentAddress] = c /\ c \in Counts
  <2>1. c \in Nat /\ c <= mem[CurrentAddress]
    BY <1>4, <1>7, Subtracted DEF Left
  <2>2. c \in Counts
    <3>1. Expected \in Nat /\ mem[CurrentAddress] \in 0..(Expected * 2 + 1)
      BY <1>3, <1>4, CountsTyped DEF Counts
    <3> HIDE DEF c
    <3> QED
      BY <2>1, <3>1 DEF Counts
  <2> HIDE DEF c
  <2>3. mem'[CurrentAddress] = c
    BY <1>1, <1>3, CurrentAssumption DEF BarrierTypeOK
  <2> QED
    BY <2>2, <2>3
<1>10. Left' = Left - n
  BY <1>8, <1>9 DEF Left
<1>11. \A u \in Threads : pc[u] \notin {"completion", "store"}
  BY <1>3, <1>4, <1>7 DEF Completing
<1> HIDE DEF c
<1>12. BarrierTypeOK'
  <2>1. mem' \in [Addresses -> Counts] /\ Arrival' \in [Threads -> {0, 1}]
    BY <1>1, <1>3, <1>8, <1>9, CurrentAssumption DEF BarrierTypeOK
  <2>2. pc' \in [Threads -> BarrierLabels \cup WaitLabels]
    BY <1>2, <1>3 DEF BarrierTypeOK
  <2>3. dropped' \subseteq Threads /\ arrivedIn' \in [Threads -> Nat \cup {-1}]
    BY <1>1, <1>3, <1>4 DEF BarrierTypeOK
  <2> QED
    BY <1>1, <1>3, <2>1, <2>2, <2>3 DEF BarrierTypeOK
<1>13. Parity' /\ Room'
  BY <1>1, <1>3, <1>4, <1>6, <1>8, <1>9, <1>10 DEF Parity, Room
<1>14. Completing'
  BY <1>1, <1>2, <1>3, <1>4, <1>8, <1>10, <1>11 DEF Completing, BarrierTypeOK
<1>15. Tokens'
  <2>1. Bit(c) = phase % 2 /\ phase # -1
    BY <1>3, <1>4, <1>8 DEF Parity
  <2> QED
    BY <1>1, <1>2, <1>3, <1>4, <2>1 DEF Tokens, BarrierTypeOK
<1>16. Accounts'
  <2> SUFFICES ASSUME ~ForOthers PROVE Accounts'
    BY DEF Accounts
  <2>1. n = 1 /\ t \notin dropped /\ arrivedIn[t] # phase
    BY <1>3 DEF MayArrive, Accounts, Dropping
  <2>2. Expecting' = Expecting \ {t} /\ t \in Expecting
    BY <1>1, <1>3, <2>1 DEF Expecting, BarrierTypeOK
  <2>3. Members' = Members
    BY <1>1, <1>2, <1>3 DEF Members, BarrierTypeOK
  <2>4. Cardinality(Expecting') = Cardinality(Expecting) - 1
    <3>1. IsFiniteSet(Expecting)
      BY ThreadsCounted DEF Expecting
    <3> QED
      BY <2>2, <3>1, FS_RemoveElement
  <2>5. \A u \in Dropping' : u \notin dropped' /\ arrivedIn'[u] # phase'
    BY <1>1, <1>3, <1>5 DEF Accounts, Dropping, BarrierTypeOK
  <2> QED
    BY <1>1, <1>3, <1>10, <2>1, <2>3, <2>4, <2>5 DEF Accounts
<1> QED
  BY <1>12, <1>13, <1>14, <1>15, <1>16 DEF BarrierInv

(* The first step of arrive_and_drop. *)
LEMMA DropKeeps ==
    ASSUME BarrierInv, NEW t \in Threads, Arrive_and_drop(t)
    PROVE  BarrierInv'
<1>1. /\ MayArrive(t, 1) /\ pc[t] \in {"idle", "holds"} /\ arrivals' = arrivals + 1 /\ arrivals < MaxArrivals
      /\ Total' = Total - 2 /\ pc' = [pc EXCEPT ![t] = "drop"]
      /\ UNCHANGED <<mem, Rem_count, kind, Arrival, phase, arrivedIn, dropped>>
  BY DEF Arrive_and_drop, StartArrival, Goto
<1>2. BarrierTypeOK /\ Parity /\ Room /\ Completing /\ Tokens /\ Accounts
  BY DEF BarrierInv
<1>3. /\ Left \in Nat /\ Total \in Nat /\ Value(Total) \in Nat /\ Expected \in Nat
      /\ Cardinality(Dropping) \in Nat /\ IsFiniteSet(Dropping)
  BY <1>2, CountsTyped, ThreadsCounted DEF Dropping
<1>4. 1 <= Left - Cardinality(Dropping)
  BY <1>1 DEF MayArrive, Open, Left, Dropping
<1>5. 1 <= Value(Total)
  BY <1>2, <1>3, <1>4 DEF Room
<1>6. Total' \in Nat /\ Value(Total') = Value(Total) - 1 /\ Total' % 2 = 0
  <2>1. Total' = Total - 1 * 2
    BY <1>1, <1>3
  <2>2. Bit(Total) = 0
    BY <1>2 DEF Parity, Bit
  <2> QED
    BY <1>3, <1>5, <2>1, <2>2, Subtracted DEF Bit
<1>7. Dropping' = Dropping \cup {t} /\ t \notin Dropping /\ Left' = Left
  BY <1>1, <1>2 DEF Dropping, Left, BarrierTypeOK
<1>8. Cardinality(Dropping') = Cardinality(Dropping) + 1
  BY <1>3, <1>7, FS_AddElement
<1>9. BarrierTypeOK'
  <2>1. Total' \in Counts
    BY <1>1, <1>2, <1>3, <1>6 DEF BarrierTypeOK, Counts
  <2>2. arrivals' \in 0..MaxArrivals
    BY <1>1, <1>2, BarrierAssumption DEF BarrierTypeOK
  <2> QED
    BY <1>1, <1>2, <2>1, <2>2 DEF BarrierTypeOK
<1>10. Parity' /\ Room'
  BY <1>1, <1>2, <1>3, <1>4, <1>6, <1>7, <1>8 DEF Parity, Room
<1>11. Completing'
  BY <1>1, <1>2, <1>3, <1>4 DEF Completing, BarrierTypeOK
<1>12. Tokens'
  BY <1>1, <1>2 DEF Tokens, BarrierTypeOK
<1>13. Accounts'
  <2> SUFFICES ASSUME ~ForOthers PROVE Accounts'
    BY DEF Accounts
  <2>1. t \notin dropped /\ arrivedIn[t] # phase
    BY <1>1 DEF MayArrive
  <2>2. Members' = Members \ {t} /\ t \in Members /\ Expecting' = Expecting
    BY <1>1, <1>2, <2>1 DEF Members, Expecting, BarrierTypeOK
  <2>3. Cardinality(Members') = Cardinality(Members) - 1
    <3>1. IsFiniteSet(Members)
      BY ThreadsCounted DEF Members
    <3> QED
      BY <2>2, <3>1, FS_RemoveElement
  <2> QED
    BY <1>1, <1>2, <1>6, <1>7, <2>1, <2>2, <2>3 DEF Accounts
<1> QED
  BY <1>9, <1>10, <1>11, <1>12, <1>13 DEF BarrierInv

(* _Completion reads _Total while nobody can arrive or drop out. *)
LEMMA CompletionKeeps ==
    ASSUME BarrierInv, NEW t \in Threads, Completion(t)
    PROVE  BarrierInv'
<1>1. /\ pc[t] = "completion" /\ pc' = [pc EXCEPT ![t] = "store"]
      /\ Rem_count' = [Rem_count EXCEPT ![t] = Total]
      /\ UNCHANGED <<mem, Total, kind, Arrival, arrivals, phase, arrivedIn, dropped>>
  BY DEF Completion, Goto
<1>2. BarrierTypeOK /\ Parity /\ Room /\ Completing /\ Tokens /\ Accounts
  BY DEF BarrierInv
<1>3. /\ Dropping' = Dropping /\ Expecting' = Expecting /\ Members' = Members
      /\ Left' = Left
  BY <1>1, <1>2 DEF Dropping, Expecting, Members, Left, BarrierTypeOK
<1>4. BarrierTypeOK'
  BY <1>1, <1>2 DEF BarrierTypeOK
<1>5. Parity' /\ Room' /\ Accounts'
  BY <1>1, <1>2, <1>3 DEF Parity, Room, Accounts
<1>6. Completing' /\ Tokens'
  BY <1>1, <1>2, <1>3 DEF Completing, Tokens, BarrierTypeOK
<1> QED
  BY <1>4, <1>5, <1>6 DEF BarrierInv

(* The store that opens the next phase. *)
LEMMA StoreKeeps ==
    ASSUME BarrierInv, NEW t \in Threads, Completion_store(t)
    PROVE  BarrierInv'
<1> DEFINE b == Bit(Arrival[t] + 1)
<1>1. /\ pc[t] = "store" /\ pc' = [pc EXCEPT ![t] = "notify_all"]
      /\ mem' = [mem EXCEPT ![CurrentAddress] = Rem_count[t] + b]
      /\ phase' = phase + 1
      /\ UNCHANGED <<Total, Rem_count, kind, Arrival, arrivals, arrivedIn, dropped>>
  BY DEF Completion_store, Goto
<1>2. BarrierTypeOK /\ Parity /\ Room /\ Completing /\ Tokens /\ Accounts
  BY DEF BarrierInv
<1>3. /\ Left \in Nat /\ Total \in Nat /\ Value(Total) \in Nat /\ Expected \in Nat /\ phase \in Nat
      /\ Cardinality(Dropping) \in Nat /\ IsFiniteSet(Dropping)
  BY <1>2, CountsTyped, ThreadsCounted DEF Dropping
<1>4. /\ Left = 0 /\ arrivedIn[t] = phase /\ Rem_count[t] = Total
      /\ \A u \in Threads \ {t} : pc[u] \notin {"completion", "store"}
  BY <1>1, <1>2 DEF Completing
<1>5. Dropping = {}
  <2>1. Cardinality(Dropping) = 0
    BY <1>2, <1>3, <1>4 DEF Room
  <2> QED
    BY <1>3, <2>1, FS_EmptySet
<1>6. b = (phase + 1) % 2 /\ b \in {0, 1}
  <2>1. Arrival[t] = phase % 2
    BY <1>2, <1>3, <1>4 DEF Tokens
  <2> QED
    BY <1>3, <2>1, Alternates
<1> HIDE DEF b
<1>7. mem'[CurrentAddress] = Total + b /\ Left' = Value(Total) /\ Bit(mem'[CurrentAddress]) = b
  <2>1. mem'[CurrentAddress] = Total + b
    BY <1>1, <1>2, <1>4, CurrentAssumption DEF BarrierTypeOK
  <2> QED
    BY <1>2, <1>3, <1>6, <2>1, Marked DEF Left, Parity
<1>8. Dropping' = {} /\ Members' = Members
  BY <1>1, <1>2, <1>5 DEF Dropping, Members, BarrierTypeOK
<1>9. BarrierTypeOK'
  <2>1. Total + b \in Counts
    BY <1>2, <1>3, <1>6 DEF BarrierTypeOK, Counts, Parity
  <2> QED
    BY <1>1, <1>2, <1>3, <1>4, <2>1, CurrentAssumption DEF BarrierTypeOK
<1>10. Parity' /\ Room'
  <2>1. Cardinality(Dropping') = 0
    BY <1>8, FS_EmptySet
  <2> QED
    BY <1>1, <1>2, <1>3, <1>6, <1>7, <2>1 DEF Parity, Room
<1>11. Completing'
  BY <1>1, <1>2, <1>4 DEF Completing, BarrierTypeOK
<1>12. Tokens'
  <2>1. \A u \in Threads : arrivedIn[u] \in Nat \cup {-1}
    BY <1>2 DEF BarrierTypeOK
  <2> QED
    BY <1>1, <1>2, <1>3, <1>4, <2>1 DEF Tokens, BarrierTypeOK
<1>13. Accounts'
  <2> SUFFICES ASSUME ~ForOthers PROVE Accounts'
    BY DEF Accounts
  <2>1. \A u \in Threads : arrivedIn[u] # phase + 1
    <3>1. \A u \in Threads : arrivedIn[u] \in Nat \cup {-1} /\ arrivedIn[u] <= phase
      BY <1>2 DEF Tokens, BarrierTypeOK
    <3> QED
      BY <1>3, <3>1
  <2>2. Expecting' = Members
    BY <1>1, <1>5, <2>1 DEF Expecting, Members, Dropping
  <2> QED
    BY <1>1, <1>2, <1>7, <1>8, <2>2 DEF Accounts
<1> QED
  BY <1>9, <1>10, <1>11, <1>12, <1>13 DEF BarrierInv

-----------------------------------------------------------------------------
(* The invariant is inductive. *)
LEMMA BarrierNext == BarrierInv /\ [NextBarrier]_allVars => BarrierInv'
<1> SUFFICES ASSUME BarrierInv, [NextBarrier]_allVars PROVE BarrierInv'
  OBVIOUS
<1>1. BarrierTypeOK /\ Tokens
  BY DEF BarrierInv
<1>2. ASSUME NEW t \in Threads, NEW n \in 1..Expected,
             Arrive(t, n) \/ (n = 1 /\ Arrive_and_wait(t))
      PROVE  BarrierInv'
  <2>1. /\ MayArrive(t, n) /\ pc[t] \in {"idle", "holds"}
        /\ Fetch_sub(t, n, "arrive") \/ Fetch_sub(t, n, "arrive_and_wait")
    BY <1>2 DEF Arrive, Arrive_and_wait, StartArrival
  <2>2. arrivals' \in 0..MaxArrivals
    BY <1>1, <1>2, BarrierAssumption DEF Arrive, Arrive_and_wait, StartArrival, BarrierTypeOK
  <2> QED
    BY <2>1, <2>2, FetchKeeps
<1>3. ASSUME NEW t \in Threads PROVE 1 \in 1..Expected
  <2>1. IsFiniteSet({t}) /\ Cardinality({t}) = 1
    BY FS_Singleton
  <2> QED
    BY <2>1, ThreadsCounted
<1>4. ASSUME NEW t \in Threads, Arrive_and_drop_arrive(t) PROVE BarrierInv'
  <2>1. arrivals' \in 0..MaxArrivals
    BY <1>1, <1>4 DEF Arrive_and_drop_arrive, BarrierTypeOK
  <2> QED
    BY <1>3, <1>4, <2>1, FetchKeeps DEF Arrive_and_drop_arrive
<1>5. ASSUME NEW t \in Threads, RunBarrier(t) PROVE BarrierInv'
  BY <1>1, <1>4, <1>5, CompletionKeeps, StoreKeeps, NotifyQuiet, WaitQuiet, QuietKeeps DEF RunBarrier
<1>6. CASE UNCHANGED allVars
  BY <1>1, <1>6, QuietKeeps DEF allVars, waitVars, Quiet, BarrierTypeOK
<1> QED
  BY <1>1, <1>2, <1>3, <1>5, <1>6, DropKeeps, WaitQuiet, WaitStepQuiet, QuietKeeps
     DEF NextBarrier, BarrierRests

(* One thread at a time runs the completion step, with the count at zero   *)
(* and nobody in the middle of dropping out: also if threads arrive for    *)
(* others.                                                                 *)
THEOREM OneCompletes == BarrierSpec => []OneCompletion
<1>1. BarrierInv => OneCompletion
  <2> SUFFICES ASSUME BarrierInv PROVE OneCompletion
    OBVIOUS
  <2>1. BarrierTypeOK /\ Room /\ Completing
    BY DEF BarrierInv
  <2>2. ASSUME NEW t \in Threads, pc[t] \in {"completion", "store"}
        PROVE  Left = 0 /\ Dropping = {}
    <3>1. Left = 0
      BY <2>1, <2>2 DEF Completing
    <3>2. IsFiniteSet(Dropping) /\ Cardinality(Dropping) \in Nat
      BY ThreadsCounted DEF Dropping
    <3>3. Cardinality(Dropping) = 0
      BY <2>1, <3>1, <3>2 DEF Room
    <3> QED
      BY <3>1, <3>2, <3>3, FS_EmptySet
  <2> QED
    BY <2>1, <2>2 DEF OneCompletion, Completing, Left, Dropping
<1> QED
  BY <1>1, BarrierInit, BarrierNext, PTL DEF BarrierSpec

(* If every thread arrives for itself, each phase expects exactly the      *)
(* threads that have neither dropped out nor arrived.                      *)
THEOREM RestExpected == BarrierSpec => []ExpectsTheRest
<1>1. BarrierInv => ExpectsTheRest
  BY DEF BarrierInv, Accounts, Left, Expecting, ExpectsTheRest
<1> QED
  BY <1>1, BarrierInit, BarrierNext, PTL DEF BarrierSpec

(* A wait ends only after the store that completes its phase: the bit it   *)
(* compares is the parity of the phase it arrived in.                      *)
THEOREM ReturnsAfterPhase == BarrierSpec => NoEarlyReturn
<1> DEFINE Late == \A t \in Threads :
                    pc[t] \in InWait /\ pc'[t] = "idle" => phase > arrivedIn[t]
<1>1. BarrierInv /\ [NextBarrier]_allVars => [Late]_allVars
  <2> SUFFICES ASSUME BarrierInv, NextBarrier, NEW t \in Threads,
                      pc[t] \in InWait, pc'[t] = "idle"
               PROVE  phase > arrivedIn[t]
    OBVIOUS
  <2>1. BarrierTypeOK /\ Parity /\ Tokens
    BY DEF BarrierInv
  <2>2. pc[t] \in WaitLabels \cup {"wait_load", "load"}
    BY DEF InWait, AtomicWaitLabels
  <2>3. Wait_load(t)
    <3>1. ASSUME NEW u \in Threads, NEW label, pc' = [pc EXCEPT ![u] = label],
                 pc[u] \in {"idle", "holds", "drop", "completion", "store"} \/ label # "idle"
          PROVE  FALSE
      BY <2>1, <2>2, <3>1 DEF BarrierTypeOK
    <3>2. ASSUME NEW u \in Threads, NEW n, NEW k, Fetch_sub(u, n, k),
                 pc[u] \in {"idle", "holds", "drop"}
          PROVE  FALSE
      BY <3>1, <3>2 DEF Fetch_sub, Atomic_wait, Goto
    <3>3. ASSUME NEW u \in Threads, NEW n, Arrive(u, n) \/ Arrive_and_wait(u) \/ Arrive_and_drop(u)
          PROVE  FALSE
      BY <3>1, <3>2, <3>3 DEF Arrive, Arrive_and_wait, Arrive_and_drop, StartArrival, Goto
    <3>4. ASSUME NEW u \in Threads,
                 \/ Wait(u) \/ Arrive_and_drop_arrive(u)
                 \/ Completion(u) \/ Completion_store(u) \/ Wait_atomic(u)
          PROVE  FALSE
      BY <3>1, <3>2, <3>4 DEF Wait, Arrive_and_drop_arrive, Completion, Completion_store,
         Wait_atomic, Atomic_wait_direct, Wait_direct, Goto
    <3>5. ASSUME NEW u \in Threads, Completion_notify(u) PROVE FALSE
      BY <2>1, <2>2, <3>5, NotifyAllMoves
    <3>6. ASSUME NEW u \in Threads, WaitStep(u) PROVE FALSE
      <4>1. pc' = pc \/ \E label \in WaitLabels : pc' = [pc EXCEPT ![u] = label]
        BY <3>6 DEF WaitStep, Wait_enter, Wait_compare, Wait_sleep, Wait_spurious, Wait_timeout,
           Deadline_passes, Wait_relock, Wait_on_address, Goto
      <4> QED
        BY <2>2, <3>1, <4>1
    <3>7. ASSUME NEW u \in Threads, Wait_load(u) PROVE u = t
      BY <2>1, <2>2, <3>7 DEF Wait_load, Atomic_wait, Goto, BarrierTypeOK
    <3>8. ~BarrierRests
      BY <2>2 DEF BarrierRests, allVars, waitVars
    <3> QED
      BY <3>3, <3>4, <3>5, <3>6, <3>7, <3>8 DEF NextBarrier, RunBarrier
  <2>4. Bit(mem[CurrentAddress]) # Arrival[t]
    BY <2>1, <2>2, <2>3 DEF Wait_load, Atomic_wait, Goto, BarrierTypeOK
  <2>5. /\ arrivedIn[t] \in Nat \cup {-1} /\ phase \in Nat /\ arrivedIn[t] <= phase
        /\ arrivedIn[t] # phase
    BY <2>1, <2>2, <2>4 DEF Parity, Tokens, BarrierTypeOK
  <2> QED
    BY <2>5
<1> QED
  BY <1>1, BarrierInit, BarrierNext, PTL DEF BarrierSpec, NoEarlyReturn

=============================================================================
