--------------------------- MODULE MutexesProofs ---------------------------
(***************************************************************************)
(* Proofs about the mutexes of Mutexes, for any finite set of threads, any *)
(* number of locks and any bounds: mutex.cpp (prefix M), timed_mutex and   *)
(* recursive_timed_mutex (T), shared_timed_mutex (S) and std::lock (L).    *)
(***************************************************************************)
EXTENDS Mutexes, TLAPS

(* Each leaf is tried with SMT, then with Zenon, then with more time. *)
USE SMTT(10), ZenonT(10), SMTT(30)

-----------------------------------------------------------------------------
(* mutex.cpp and cond.cpp                                                  *)

(* A thread that is not past the owner's door holds nothing. *)
Outside == {"enter", "leave", "sleep", "asleep", "relock", "reset"}

(* The critical section belongs to the thread that holds the mutex or is   *)
(* between its door and the bookkeeping, and to no other.                  *)
MutexInv ==
    /\ M!TypeOK
    /\ M!OwnerAgrees
    /\ \A t \in Pair : cs = t <=> mHeld[t] > 0 \/ mPc[t] \in M!Inside
    /\ \A t \in Pair : mPc[t] \in Outside => mHeld[t] = 0

(* A new mutex is free. *)
LEMMA MutexInit ==
    ASSUME M!None \notin Pair, M!Init, type \subseteq {"try", "timed", "recursive"}
    PROVE  MutexInv
<1>1. api \in {"win7", "vista"}
  BY DEF M!Init, M!Implementation
<1>2. M!TypeOK
  BY <1>1 DEF M!Init, M!TypeOK
<1> QED
  BY <1>2 DEF M!Init, MutexInv, M!OwnerAgrees, M!Inside, Outside

(* Whoever is inside and holds nothing sees a count of zero. *)
LEMMA FreeCount ==
    ASSUME MutexInv, NEW t \in Pair, cs = t, mHeld[t] = 0
    PROVE  count = 0
BY SMTT(30) DEF MutexInv, M!OwnerAgrees, M!TypeOK

(* The calls keep the bookkeeping. *)
LEMMA MutexCalls ==
    ASSUME M!None \notin Pair, MutexInv, NEW t \in Pair, M!Calls(t)
    PROVE  MutexInv'
<1> USE DEF MutexInv, M!OwnerAgrees, M!TypeOK, M!Inside, Outside, M!Begin, M!Goto, M!shared
<1>1. ASSUME NEW o \in {"lock", "trylock", "timedlock", "expired"}, M!Mtx_lock(t, o) PROVE MutexInv'
  BY <1>1 DEF M!Mtx_lock
<1>2. CASE M!Mtx_unlock(t)
  BY <1>2 DEF M!Mtx_unlock
<1>3. ASSUME NEW o \in {"wait", "timedwait"}, M!Cnd_wait(t, o) PROVE MutexInv'
  BY <1>3 DEF M!Cnd_wait
<1>4. CASE M!Cnd_signal(t)
  BY <1>4 DEF M!Cnd_signal
<1>5. CASE M!Cnd_broadcast(t)
  BY <1>5, SMTT(30) DEF M!Cnd_broadcast
<1> QED
  BY <1>1, <1>2, <1>3, <1>4, <1>5 DEF M!Calls

(* So do the steps inside mtx_do_lock, _Mtx_unlock and the waits. *)
LEMMA MutexRun ==
    ASSUME M!None \notin Pair, MutexInv, NEW t \in Pair, M!Run(t)
    PROVE  MutexInv'
<1> USE DEF MutexInv, M!OwnerAgrees, M!TypeOK, M!Inside, Outside, M!Goto, M!Return, M!shared
<1>1. CASE M!Lock_owner(t)
  BY <1>1 DEF M!Lock_owner
<1>2. CASE M!Lock_enter(t)
  BY <1>2 DEF M!Lock_enter, M!Enters, M!Enters_win7, M!Enters_vista, M!Failure
<1>3. CASE M!Lock_count(t)
  <2>1. mHeld[t] = 0 => count = 0
    BY <1>3, FreeCount DEF M!Lock_count
  <2> QED
    BY <1>3, <2>1 DEF M!Lock_count, M!Failure
<1>4. CASE M!Unlock_leave(t)
  BY <1>4 DEF M!Unlock_leave
<1>5. CASE M!Wait_sleep(t)
  BY <1>5 DEF M!Wait_sleep
<1>6. CASE M!Wait_wake(t)
  BY <1>6 DEF M!Wait_wake
<1>7. CASE M!Wait_relock(t)
  BY <1>7 DEF M!Wait_relock
<1>8. CASE M!Wait_reset(t)
  <2>1. count = 0
    BY <1>8, FreeCount DEF M!Wait_reset
  <2> QED
    BY <1>8, <2>1 DEF M!Wait_reset
<1> QED
  BY <1>1, <1>2, <1>3, <1>4, <1>5, <1>6, <1>7, <1>8 DEF M!Run

(* Every step keeps it. *)
LEMMA MutexNext ==
    ASSUME M!None \notin Pair
    PROVE  MutexInv /\ [M!Next]_M!vars => MutexInv'
<1> SUFFICES ASSUME MutexInv, [M!Next]_M!vars PROVE MutexInv'
  OBVIOUS
<1>1. ASSUME NEW t \in Pair, M!Deadline_passes(t) PROVE MutexInv'
  BY <1>1 DEF M!Deadline_passes, MutexInv, M!OwnerAgrees, M!TypeOK, M!Inside, Outside, M!shared
<1>2. CASE UNCHANGED M!vars
  BY <1>2 DEF M!vars, MutexInv, M!OwnerAgrees, M!TypeOK, M!Inside, Outside
<1> QED
  BY <1>1, <1>2, MutexCalls, MutexRun DEF M!Next

-----------------------------------------------------------------------------
(* timed_mutex and recursive_timed_mutex                                   *)

(* Who sleeps or is about to notify holds nothing, nor does who enters one *)
(* that is not recursive; _My_owner names a thread only while it holds.    *)
TimedInv ==
    /\ T!TypeOK
    /\ T!Exclusive
    /\ \A t \in waiting : tPc[t] = "asleep"
    /\ \A t \in Clients :
        /\ tPc[t] \in {"asleep", "notify"} => tHeld[t] = 0
        /\ ~recursive => tHeld[t] <= 1 /\ (tPc[t] = "enter" => tHeld[t] = 0)
        /\ My_owner = t => recursive /\ tHeld[t] > 0

(* A new mutex is free. *)
LEMMA TimedInit == T!Init => TimedInv /\ T!NobodyStranded
  BY MutexesAssumption DEF T!Init, TimedInv, T!TypeOK, T!Exclusive, T!NobodyStranded, T!None

(* The steps that change neither the count nor the holders. *)
LEMMA TimedMoves ==
    ASSUME TimedInv, T!TypeOK', UNCHANGED <<recursive, My_locked, My_owner, tHeld>>,
           NEW t \in Clients, NEW label \in {"idle", "enter", "asleep", "notify"},
           tPc' = [tPc EXCEPT ![t] = label],
           label = "asleep" => tHeld[t] = 0,
           label = "enter" /\ ~recursive => tHeld[t] = 0,
           label # "notify",
           \A u \in waiting' : tPc'[u] = "asleep"
    PROVE  TimedInv'
  BY DEF TimedInv, T!TypeOK, T!Exclusive

(* The critical section of the lock calls. *)
LEMMA TimedEnter ==
    ASSUME TimedInv, NEW t \in Clients, T!Enter(t)
    PROVE  TimedInv'
<1> USE DEF T!Goto
<1>1. /\ tPc[t] = "enter" /\ UNCHANGED <<recursive, tOp, tLate, tOps>>
      /\ T!TypeOK /\ T!Exclusive
  BY DEF T!Enter, TimedInv
<1>2. CASE recursive /\ My_owner = t /\ T!Relock(t)
  <2>1. tHeld[t] > 0 /\ My_locked = tHeld[t]
    BY <1>1, <1>2 DEF TimedInv, T!Exclusive
  <2>2. CASE My_locked < MaxLocked
    <3>1. /\ My_locked' = My_locked + 1 /\ tHeld' = [tHeld EXCEPT ![t] = @ + 1]
          /\ tPc' = [tPc EXCEPT ![t] = "idle"] /\ UNCHANGED <<My_owner, waiting>>
      BY <1>2, <2>2 DEF T!Relock
    <3>2. T!TypeOK'
      BY <1>1, <2>1, <2>2, <3>1, MutexesAssumption DEF T!TypeOK
    <3>3. T!Exclusive'
      BY <1>1, <1>2, <2>1, <3>1, MutexesAssumption DEF T!TypeOK, T!Exclusive
    <3> QED
      BY <1>1, <1>2, <2>1, <3>1, <3>2, <3>3, MutexesAssumption DEF TimedInv, T!TypeOK
  <2>3. CASE ~(My_locked < MaxLocked)
    <3>1. tPc' = [tPc EXCEPT ![t] = "idle"] /\ UNCHANGED <<My_locked, tHeld, My_owner, waiting>>
      BY <1>2, <2>3 DEF T!Relock
    <3>2. T!TypeOK'
      BY <1>1, <3>1 DEF T!TypeOK
    <3>3. \A u \in waiting' : tPc'[u] = "asleep"
      BY <1>1, <3>1 DEF TimedInv, T!TypeOK
    <3> QED
      BY <1>1, <3>1, <3>2, <3>3, TimedMoves
  <2> QED
    BY <2>2, <2>3
<1>3. CASE T!Take(t)
  <2>1. /\ My_locked = 0 /\ tHeld' = [tHeld EXCEPT ![t] = 1]
        /\ My_locked' = IF recursive THEN 1 ELSE MaxLocked
        /\ My_owner' = IF recursive THEN t ELSE T!None
        /\ tPc' = [tPc EXCEPT ![t] = "idle"] /\ UNCHANGED waiting
    BY <1>3 DEF T!Take
  <2>2. \A u \in Clients : tHeld[u] = 0
    BY <1>1, <2>1, MutexesAssumption DEF T!Exclusive, T!TypeOK
  <2>3. T!TypeOK'
    BY <1>1, <2>1, MutexesAssumption DEF T!TypeOK
  <2>4. T!Exclusive'
    BY <1>1, <2>1, <2>2, MutexesAssumption DEF T!TypeOK, T!Exclusive
  <2>5. \A u \in waiting' : tPc'[u] = "asleep"
    BY <1>1, <2>1 DEF TimedInv, T!TypeOK
  <2> QED
    BY <1>1, <2>1, <2>2, <2>3, <2>4, <2>5, MutexesAssumption DEF TimedInv, T!TypeOK
<1>4. CASE T!GiveUp(t)
  <2>1. tPc' = [tPc EXCEPT ![t] = "idle"] /\ UNCHANGED <<My_locked, tHeld, My_owner, waiting>>
    BY <1>4 DEF T!GiveUp
  <2>2. T!TypeOK'
    BY <1>1, <2>1 DEF T!TypeOK
  <2>3. \A u \in waiting' : tPc'[u] = "asleep"
    BY <1>1, <2>1 DEF TimedInv, T!TypeOK
  <2> QED
    BY <1>1, <2>1, <2>2, <2>3, TimedMoves
<1>5. CASE T!Sleep(t) /\ ~(recursive /\ My_owner = t)
  <2>1. /\ tPc' = [tPc EXCEPT ![t] = "asleep"] /\ waiting' = waiting \union {t}
        /\ UNCHANGED <<My_locked, tHeld, My_owner>>
    BY <1>5 DEF T!Sleep
  <2>2. T!TypeOK'
    BY <1>1, <2>1 DEF T!TypeOK
  <2>3. \A u \in waiting' : tPc'[u] = "asleep"
    BY <1>1, <2>1 DEF TimedInv, T!TypeOK
  <2>4. tHeld[t] = 0
    BY <1>1, <1>5, SMTT(30) DEF TimedInv, T!TypeOK, T!Exclusive
  <2> QED
    BY <1>1, <2>1, <2>2, <2>3, <2>4, TimedMoves
<1> QED
  BY <1>2, <1>3, <1>4, <1>5 DEF T!Enter

(* unlock gives back one lock, and the mutex with the last. *)
LEMMA TimedUnlock ==
    ASSUME TimedInv, NEW t \in Clients, T!Unlock(t)
    PROVE  TimedInv'
<1>1. /\ tPc[t] = "idle" /\ tHeld[t] > 0 /\ tHeld' = [tHeld EXCEPT ![t] = @ - 1]
      /\ My_locked' = IF recursive THEN My_locked - 1 ELSE 0
      /\ My_owner' = IF My_locked' = 0 THEN T!None ELSE My_owner
      /\ tPc' = [tPc EXCEPT ![t] = IF My_locked' = 0 THEN "notify" ELSE "idle"]
      /\ UNCHANGED <<recursive, waiting, tOp, tLate, tOps>>
  BY DEF T!Unlock, T!Goto
<1>2. T!TypeOK /\ T!Exclusive
  BY DEF TimedInv
<1>3. /\ \A u \in Clients \ {t} : tHeld[u] = 0
      /\ recursive => My_locked = tHeld[t] /\ My_owner = t
      /\ ~recursive => tHeld[t] = 1
      /\ tHeld[t] \in 1..MaxLocked
  BY <1>1, <1>2, MutexesAssumption DEF TimedInv, T!Exclusive, T!TypeOK
<1>4. /\ \A u \in Clients \ {t} : tHeld'[u] = 0
      /\ tHeld'[t] = tHeld[t] - 1 /\ My_locked' = tHeld'[t]
  BY <1>1, <1>2, <1>3, MutexesAssumption, SMTT(30) DEF T!TypeOK
<1>5. T!TypeOK'
  BY <1>1, <1>2, <1>3, <1>4, MutexesAssumption, SMTT(30) DEF T!TypeOK
<1>6. T!Exclusive'
  BY <1>1, <1>2, <1>3, <1>4, <1>5, MutexesAssumption, SMTT(30) DEF T!Exclusive, T!TypeOK
<1>7. \A u \in waiting' : tPc'[u] = "asleep"
  BY <1>1, <1>2 DEF TimedInv, T!TypeOK
<1> QED
  BY <1>1, <1>2, <1>3, <1>4, <1>5, <1>6, <1>7, MutexesAssumption, SMTT(30) DEF TimedInv, T!TypeOK

(* The invariant is inductive. *)
LEMMA TimedNext == TimedInv /\ [T!Next]_T!vars => TimedInv'
<1> SUFFICES ASSUME TimedInv, [T!Next]_T!vars PROVE TimedInv'
  OBVIOUS
<1> USE DEF T!Goto
<1>1. CASE UNCHANGED T!vars
  BY <1>1 DEF T!vars, TimedInv, T!TypeOK, T!Exclusive
<1>2. ASSUME NEW t \in Clients, NEW o \in {"lock", "try_lock", "try_lock_until"}, T!Call(t, o)
      PROVE  TimedInv'
  <2>1. T!TypeOK' /\ \A u \in waiting' : tPc'[u] = "asleep"
    BY <1>2, MutexesAssumption DEF T!Call, TimedInv, T!TypeOK
  <2>2. ~recursive => tHeld[t] = 0
    BY <1>2 DEF T!Call, TimedInv, T!TypeOK
  <2> QED
    BY <1>2, <2>1, <2>2, TimedMoves DEF T!Call
<1>3. ASSUME NEW t \in Clients, T!Wake(t) PROVE TimedInv'
  <2>1. T!TypeOK' /\ \A u \in waiting' : tPc'[u] = "asleep"
    BY <1>3 DEF T!Wake, TimedInv, T!TypeOK
  <2>2. tHeld[t] = 0
    BY <1>3 DEF T!Wake, TimedInv
  <2> QED
    BY <1>3, <2>1, <2>2, TimedMoves DEF T!Wake
<1>4. ASSUME NEW t \in Clients, T!Notify(t) PROVE TimedInv'
  <2>1. waiting' \subseteq waiting
    BY <1>4 DEF T!Notify
  <2>2. T!TypeOK' /\ \A u \in waiting' : tPc'[u] = "asleep"
    BY <1>4, <2>1 DEF T!Notify, TimedInv, T!TypeOK
  <2> QED
    BY <1>4, <2>2, TimedMoves DEF T!Notify
<1>5. ASSUME NEW t \in Clients, T!Deadline_passes(t) PROVE TimedInv'
  BY <1>5 DEF T!Deadline_passes, TimedInv, T!TypeOK, T!Exclusive
<1> QED
  BY <1>1, <1>2, <1>3, <1>4, <1>5, TimedEnter, TimedUnlock DEF T!Next

(* The wake of an unlock is used or passed on. *)
LEMMA TimedStranded ==
    ASSUME TimedInv, TimedInv', T!NobodyStranded, [T!Next]_T!vars
    PROVE  T!NobodyStranded'
<1> SUFFICES ASSUME My_locked' = 0, waiting' # {} PROVE \E t \in Clients : T!Coming(t)'
  BY DEF T!NobodyStranded
<1> USE DEF T!Goto
<1>1. CASE UNCHANGED T!vars
  BY <1>1, SMTT(30) DEF T!vars, T!NobodyStranded, T!Coming
<1>2. ASSUME NEW t \in Clients,
             \/ \E o \in {"lock", "try_lock", "try_lock_until"} : T!Call(t, o)
             \/ T!Wake(t) \/ T!Unlock(t)
      PROVE  T!Coming(t)'
  BY <1>2 DEF T!Call, T!Wake, T!Unlock, T!Coming, TimedInv, T!TypeOK
<1>3. ASSUME NEW t \in Clients, T!Enter(t) PROVE FALSE
  <2>1. CASE recursive /\ My_owner = t /\ T!Relock(t)
    BY <2>1, MutexesAssumption, SMTT(30) DEF T!Relock, TimedInv, T!TypeOK, T!Exclusive
  <2>2. CASE T!Take(t) \/ T!GiveUp(t) \/ T!Sleep(t)
    BY <2>2, MutexesAssumption DEF T!Take, T!GiveUp, T!Sleep
  <2> QED
    BY <1>3, <2>1, <2>2, SMTT(30) DEF T!Enter
<1>4. ASSUME NEW t \in Clients, T!Notify(t) PROVE \E u \in Clients : T!Coming(u)'
  <2>1. PICK w \in waiting : waiting' = waiting \ {w}
    BY <1>4, SMTT(30) DEF T!Notify
  <2>2. w \in Clients /\ tPc[w] = "asleep" /\ w # t
    BY <1>4, <2>1, SMTT(30) DEF T!Notify, TimedInv, T!TypeOK
  <2>3. T!Coming(w)'
    BY <1>4, <2>1, <2>2, SMTT(30) DEF T!Notify, T!Coming, TimedInv, T!TypeOK
  <2> QED
    BY <2>2, <2>3
<1>5. ASSUME NEW t \in Clients, T!Deadline_passes(t) PROVE \E u \in Clients : T!Coming(u)'
  BY <1>5 DEF T!Deadline_passes, T!NobodyStranded, T!Coming
<1> QED
  BY <1>1, <1>2, <1>3, <1>4, <1>5 DEF T!Next

-----------------------------------------------------------------------------
(* shared_timed_mutex: the proof is about module SharedTimedMutex itself,  *)
(* of which the S of Mutexes is an instance.                               *)
SP == INSTANCE SharedLockProofs WITH
        Threads <- Clients, MaxOps <- SharedOps, pc <- sPc, op <- sOp, late <- sLate, ops <- sOps,
        Lockers <- Pair, N <- LockCount, Orders <- LockOrders, MaxBegun <- LockOps,
        stage <- lPc, next <- lNext, todo <- lTodo, begun <- lOps

(* The constants are what that proof asks. *)
LEMMA SharedBounded == SP!Bounded
  BY MutexesAssumption, SMTT(30) DEF SP!Bounded, SP!IsFiniteSet, IsFiniteSet

(* The two instances have the same steps. *)
LEMMA SameShared ==
    ASSUME NEW t \in Clients
    PROVE  /\ \A o \in S!Exclusively \union S!Shared : S!Call(t, o) => SP!Call(t, o)
           /\ S!Step(t) => SP!Step(t)
           /\ S!Wake(t) => SP!Wake(t)
           /\ S!Wake_drain(t) => SP!Wake_drain(t)
           /\ S!Deadline_passes(t) => SP!Deadline_passes(t)
<1> USE DEF S!Goto, SP!Goto, S!Shared, SP!Shared
<1>1. \A o \in S!Exclusively \union S!Shared : S!Call(t, o) => SP!Call(t, o)
  BY SMTT(30) DEF S!Call, SP!Call
<1>2. S!Refuse(t) => SP!Refuse(t)
  BY SMTT(30) DEF S!Refuse, SP!Refuse, S!Tries, SP!Tries
<1>3. S!Drain(t) => SP!Drain(t)
  BY SMTT(30) DEF S!Drain, SP!Drain, S!Granted, SP!Granted
<1>4. S!Enter(t) => SP!Enter(t)
  BY <1>2, <1>3, SMTT(30) DEF S!Enter, SP!Enter
<1>5. S!Enter_shared(t) => SP!Enter_shared(t)
  BY <1>2, SMTT(30) DEF S!Enter_shared, SP!Enter_shared, S!Granted, SP!Granted
<1>6. S!Drain_again(t) => SP!Drain_again(t)
  BY <1>3, SMTT(30) DEF S!Drain_again, SP!Drain_again
<1>7. S!Notify(t) => SP!Notify(t)
  BY DEF S!Notify, SP!Notify
<1>8. S!Unlock(t) => SP!Unlock(t)
  BY DEF S!Unlock, SP!Unlock
<1>9. S!Unlock_shared(t) => SP!Unlock_shared(t)
  BY DEF S!Unlock_shared, SP!Unlock_shared
<1>10. S!Step(t) => SP!Step(t)
  BY <1>4, <1>5, <1>6, <1>7, <1>8, <1>9, SMTT(30) DEF S!Step, SP!Step
<1>11. /\ S!Wake(t) => SP!Wake(t)
       /\ S!Wake_drain(t) => SP!Wake_drain(t)
       /\ S!Deadline_passes(t) => SP!Deadline_passes(t)
  BY DEF S!Wake, SP!Wake, S!Wake_drain, SP!Wake_drain, S!Deadline_passes, SP!Deadline_passes,
         S!Timed, SP!Timed
<1> QED
  BY <1>1, <1>10, <1>11, SMTT(30)

(* So the invariant of SharedLockProofs is one of S. *)
LEMMA SharedInit == S!Init => SP!SharedInv
<1>1. S!Init => SP!Init
  BY DEF S!Init, SP!Init
<1> QED
  BY <1>1, SharedBounded, SP!InitShared, SMTT(30)

(* It is inductive there too. *)
LEMMA SharedNext == SP!SharedInv /\ [S!Next]_S!vars => SP!SharedInv'
<1>1. S!Exclusively = SP!Exclusively /\ S!Shared = SP!Shared
  BY DEF S!Exclusively, SP!Exclusively, S!Shared, SP!Shared
<1>2. S!Next => SP!Next
  BY <1>1, SameShared, SMTT(30) DEF S!Next, SP!Next
<1>3. [S!Next]_S!vars => [SP!Next]_SP!vars
  BY <1>2, SMTT(30) DEF S!vars, SP!vars
<1> QED
  BY <1>3, SharedBounded, SP!NextShared, SMTT(30)

(* And it says the same of the readers, the writer and the queues. *)
LEMMA SharedSays ==
    SP!SharedInv => S!TypeOK /\ S!ReadersOrWriter /\ S!NobodyStranded
<1>1. SP!TypeOK => S!TypeOK
  BY SMTT(30) DEF S!TypeOK, SP!TypeOK, S!Exclusively, SP!Exclusively, S!Shared, SP!Shared
<1>2. SP!ReadersOrWriter => S!ReadersOrWriter
  BY DEF S!ReadersOrWriter, SP!ReadersOrWriter, S!Holding, SP!Holding,
         S!Cardinality, SP!Cardinality
<1>3. SP!NobodyStranded => S!NobodyStranded
  BY SMTT(30) DEF S!NobodyStranded, SP!NobodyStranded
<1> QED
  BY <1>1, <1>2, <1>3, SP!IInvReaders, SMTT(30) DEF SP!SharedInv, SP!Types

-----------------------------------------------------------------------------
(* std::lock: the proof is about module MultiLock itself, of which the L   *)
(* of Mutexes is an instance.                                              *)

(* Every order of LockOrders names each lock once. *)
LEMMA ArgumentsNamed == SP!Arguments
  BY MutexesAssumption DEF SP!Arguments, LockOrders, LockIndex, SP!Index, SP!None, L!None

(* The two instances have the same steps. *)
LEMMA SameSteps ==
    ASSUME NEW t \in Pair
    PROVE  /\ \A o \in {"hard", "try"} : L!Call_lock(t, o) => SP!Call_lock(t, o)
           /\ L!LockingStep(t) => SP!LockingStep(t)
<1> USE DEF L!Proceed, SP!Proceed, L!Owner, SP!Owner, L!Own, SP!Own, L!None, SP!None
<1>1. \A o \in {"hard", "try"} : L!Call_lock(t, o) => SP!Call_lock(t, o)
  BY SMTT(30) DEF L!Call_lock, SP!Call_lock
<1>2. L!Hard_lock(t) => SP!Hard_lock(t)
  BY SMTT(30) DEF L!Hard_lock, SP!Hard_lock
<1>3. L!Try_lock(t) => SP!Try_lock(t)
  BY DEF L!Try_lock, SP!Try_lock, L!Unwind, SP!Unwind, L!Backout, SP!Backout, L!Indices, SP!Indices
<1>4. L!Release(t) => SP!Release(t)
  BY SMTT(30) DEF L!Release, SP!Release, L!Indices, SP!Indices
<1>5. L!Unlock_locks(t) => SP!Unlock_locks(t)
  BY SMTT(30) DEF L!Unlock_locks, SP!Unlock_locks
<1> QED
  BY <1>1, <1>2, <1>3, <1>4, <1>5 DEF L!LockingStep, SP!LockingStep

(* So the invariant of SharedLockProofs is one of L. *)
LEMMA LockInit == L!InitLocks => SP!LockingInv
<1>1. L!InitLocks => SP!InitLocks
  BY SMTT(30) DEF L!InitLocks, SP!InitLocks, L!Index, SP!Index, L!None, SP!None
<1> QED
  BY <1>1, ArgumentsNamed, SP!InitLocking

(* It is inductive there too. *)
LEMMA LockNext == SP!LockingInv /\ [L!NextLocking]_L!multiVars => SP!LockingInv'
<1>1. [L!NextLocking]_L!multiVars => [SP!NextLocking]_SP!multiVars
  BY SameSteps, SMTT(30) DEF L!NextLocking, SP!NextLocking, L!multiVars, SP!multiVars
<1> QED
  BY <1>1, ArgumentsNamed, SP!NextLockingInv

(* And it says the same of the locks. *)
LEMMA LockAll == SP!LockingInv => L!AllOrNothing
<1>1. SP!AllOrNothing => L!AllOrNothing
  BY SMTT(30) DEF L!AllOrNothing, SP!AllOrNothing, L!Owned, SP!Owned, L!Owner, SP!Owner, L!Index, SP!Index
<1> QED
  BY <1>1, ArgumentsNamed, SP!IInvAll, SMTT(30)

-----------------------------------------------------------------------------
(* The mutexes side by side: one moves, the others stay as they are.       *)
LEMMA OneMutexMoves ==
    [MutexesNext]_mutexesVars =>
        /\ [M!Next]_M!vars
        /\ [T!Next]_T!vars
        /\ [S!Next]_S!vars
        /\ [L!NextLocking]_L!multiVars
  BY DEF MutexesNext, MutexStep, TimedStep, SharedStep, LockStep, mutexesVars,
         mutexVars, timedVars, sharedVars, lockVars, M!vars, T!vars, S!vars, L!multiVars

(* What is true of all four in every state. *)
MutexesInv ==
    /\ MutexInv
    /\ TimedInv /\ T!NobodyStranded
    /\ SP!SharedInv
    /\ SP!LockingInv

(* New mutexes. *)
LEMMA MutexesInitInv == MutexesInit => MutexesInv
<1> SUFFICES ASSUME MutexesInit PROVE MutexesInv
  OBVIOUS
<1>1. M!Init /\ T!Init /\ S!Init /\ L!InitLocks
  BY SMTT(30) DEF MutexesInit
<1>2. MutexInv
  BY <1>1, MutexInit, MutexesAssumption, SMTT(30) DEF M!Init
<1> QED
  BY <1>1, <1>2, TimedInit, SharedInit, LockInit, SMTT(30) DEF MutexesInv

(* Every step keeps the invariant. *)
LEMMA MutexesNextInv == MutexesInv /\ [MutexesNext]_mutexesVars => MutexesInv'
<1> SUFFICES ASSUME MutexesInv, [MutexesNext]_mutexesVars PROVE MutexesInv'
  OBVIOUS
<1>1. [M!Next]_M!vars /\ [T!Next]_T!vars /\ [S!Next]_S!vars /\ [L!NextLocking]_L!multiVars
  BY OneMutexMoves, SMTT(30)
<1>2. MutexInv'
  BY <1>1, MutexNext, MutexesAssumption, SMTT(30) DEF MutexesInv
<1>3. TimedInv' /\ T!NobodyStranded'
  BY <1>1, TimedNext, TimedStranded, SMTT(30) DEF MutexesInv
<1>4. SP!SharedInv'
  BY <1>1, SharedNext, SMTT(30) DEF MutexesInv
<1>5. SP!LockingInv'
  BY <1>1, LockNext, SMTT(30) DEF MutexesInv
<1> QED
  BY <1>2, <1>3, <1>4, <1>5, SMTT(30) DEF MutexesInv

(* One thread at a time holds a mutex, through time-outs, condition waits, *)
(* wakes without a cause and notifications decided from stale values:      *)
(* thread_id and count agree with the critical section, so the unlocked    *)
(* comparison in mtx_do_lock is never mistaken; _My_locked says how often  *)
(* the owner of a timed mutex holds it; a writer of a shared_timed_mutex   *)
(* is alone, _Readers is the number of readers and stays below             *)
(* _Max_readers, and _Writing stands for exactly one thread.               *)
THEOREM MutexesExclude == MutexesSpec => []MutexesExclusive
<1>1. MutexesInv => MutexesExclusive
  BY SharedSays, SMTT(30) DEF MutexesInv, MutexInv, TimedInv, MutexesExclusive, MutexTypesOK
<1> QED
  BY <1>1, MutexesInitInv, MutexesNextInv, PTL DEF MutexesSpec

(* No waiter is forgotten when a mutex becomes free: the one wake of       *)
(* timed_mutex reaches a thread that takes the lock or passes it on, and   *)
(* shared_timed_mutex notifies the queue whose condition holds.            *)
THEOREM WaitersAreHandedOn == MutexesSpec => []WaitersHandedOn
<1>1. MutexesInv => WaitersHandedOn
  BY SharedSays, SMTT(30) DEF MutexesInv, WaitersHandedOn
<1> QED
  BY <1>1, MutexesInitInv, MutexesNextInv, PTL DEF MutexesSpec

(* Whoever blocks in std::lock owns none of its locks, so that calls never *)
(* wait for each other in a circle; a call that returns owns them all; one *)
(* that fails or throws, none: for any number of locks.                    *)
THEOREM LocksTaken == MutexesSpec => []AllOrNothing
<1>1. MutexesInv => AllOrNothing
  BY LockAll, SMTT(30) DEF MutexesInv, AllOrNothing
<1> QED
  BY <1>1, MutexesInitInv, MutexesNextInv, PTL DEF MutexesSpec

=============================================================================
