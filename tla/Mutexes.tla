------------------------------- MODULE Mutexes --------------------------------
(***************************************************************************)
(* The mutexes of the library side by side, each on state of its own: the  *)
(* mutex and condition variable of mutex.cpp and cond.cpp (M), timed_mutex *)
(* with recursive_timed_mutex (T), shared_timed_mutex (S), and std::lock   *)
(* and std::try_lock on several locks (L).                                 *)
(***************************************************************************)
EXTENDS Integers, Sequences, FiniteSets

CONSTANTS
    Pair,           \* the threads that share the mutex, or call std::lock
    Clients,        \* the threads that share the timed or the shared mutex
    MutexTypes,     \* the flag sets the mutex may be initialised with
    MaxLocked, Max_readers,
    LockCount,      \* locks passed to std::lock
    MutexOps, TimedOps, SharedOps, LockOps  \* bounds: the calls on each, altogether

VARIABLES
    api, type, cs, thread_id, count, sleepers, mPc, mOp, mLate, mHeld, result, mOps,
    recursive, My_locked, My_owner, waiting, tPc, tOp, tLate, tHeld, tOps,
    Readers, Writing, Write_queue, Read_queue, sPc, sOp, sLate, holds, sOps,
    owner, arg, lPc, hard, lNext, lTodo, then, lOps

mutexVars == <<api, type, cs, thread_id, count, sleepers, mPc, mOp, mLate, mHeld, result, mOps>>
timedVars == <<recursive, My_locked, My_owner, waiting, tPc, tOp, tLate, tHeld, tOps>>
sharedVars == <<Readers, Writing, Write_queue, Read_queue, sPc, sOp, sLate, holds, sOps>>
lockVars == <<owner, arg, lPc, hard, lNext, lTodo, then, lOps>>

(* The orders in which a caller may name the locks: each of them once. *)
LockIndex == 0 .. LockCount - 1
LockOrders ==
    {f \in [LockIndex -> LockIndex] :
        /\ \A i, j \in LockIndex : f[i] = f[j] => i = j
        /\ \A l \in LockIndex : \E i \in LockIndex : f[i] = l}

M == INSTANCE Mutex WITH
        Threads <- Pair, Types <- MutexTypes, MaxOps <- MutexOps,
        pc <- mPc, op <- mOp, late <- mLate, held <- mHeld, ops <- mOps
T == INSTANCE TimedMutex WITH
        Threads <- Clients, MaxOps <- TimedOps,
        pc <- tPc, op <- tOp, late <- tLate, held <- tHeld, ops <- tOps
S == INSTANCE SharedTimedMutex WITH
        Threads <- Clients, MaxOps <- SharedOps, pc <- sPc, op <- sOp, late <- sLate, ops <- sOps
L == INSTANCE MultiLock WITH
        Lockers <- Pair, N <- LockCount, Orders <- LockOrders, MaxBegun <- LockOps,
        stage <- lPc, next <- lNext, todo <- lTodo, begun <- lOps

ASSUME MutexesAssumption ==
    /\ IsFiniteSet(Clients)
    /\ M!None \notin Pair /\ T!None \notin Clients /\ L!None \notin Pair
    /\ \A flags \in MutexTypes : flags \subseteq {"try", "timed", "recursive"}
    /\ MaxLocked \in Nat \ {0} /\ Max_readers \in Nat \ {0} /\ LockCount \in Nat \ {0}
    /\ TimedOps \in Nat /\ SharedOps \in Nat

mutexesVars == <<mutexVars, timedVars, sharedVars, lockVars>>

MutexesInit == M!Init /\ T!Init /\ S!Init /\ L!InitLocks

(* A step of one of them leaves the others alone. *)
MutexStep == M!Next /\ UNCHANGED <<timedVars, sharedVars, lockVars>>
TimedStep == T!Next /\ UNCHANGED <<mutexVars, sharedVars, lockVars>>
SharedStep == S!Next /\ UNCHANGED <<mutexVars, timedVars, lockVars>>
LockStep == L!NextLocking /\ UNCHANGED <<mutexVars, timedVars, sharedVars>>

MutexesNext == MutexStep \/ TimedStep \/ SharedStep \/ LockStep

MutexesSpec == MutexesInit /\ [][MutexesNext]_mutexesVars

-----------------------------------------------------------------------------
MutexTypesOK == M!TypeOK /\ T!TypeOK /\ S!TypeOK

(* One thread at a time holds a mutex: the owner and the recursion count   *)
(* of mutex.cpp agree with the critical section; a timed mutex is held as  *)
(* often as it says; a writer of a shared one is alone, and its counts are *)
(* the threads that hold it.                                               *)
MutexesExclusive == MutexTypesOK /\ M!OwnerAgrees /\ T!Exclusive /\ S!ReadersOrWriter

(* Nobody sleeps on for a timed or a shared mutex that is free: a          *)
(* notification is under way, or a thread that will take the lock or wake  *)
(* the next.                                                               *)
WaitersHandedOn == T!NobodyStranded /\ S!NobodyStranded

(* std::lock and try_lock lock all of their arguments or none, in whatever *)
(* orders they are named, and whoever blocks holds none.                   *)
AllOrNothing == L!AllOrNothing

=============================================================================
