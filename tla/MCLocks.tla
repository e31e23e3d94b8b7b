------------------------------- MODULE MCLocks ---------------------------------
(***************************************************************************)
(* The library's locks, one in each behaviour: _Locked_pointer, the mutex  *)
(* and condition variable of mutex.cpp and cond.cpp, timed_mutex with      *)
(* recursive_timed_mutex, shared_timed_mutex, and std::lock on several     *)
(* locks.  part says which one runs; the others stay as they are.          *)
(***************************************************************************)
EXTENDS LockedPointer, Mutexes

VARIABLE part

locks == <<part, vars, mutexesVars>>

(* One of the callers of std::lock names the locks in their order: which   *)
(* of them is which makes no difference.                                   *)
First == CHOOSE t \in Pair : TRUE

MCInit ==
    /\ part \in {"pointer", "mutex", "timed", "shared", "lock"}
    /\ Init /\ MutexesInit
    /\ part # "mutex" => api = "win7" /\ type = {}
    /\ part # "timed" => ~recursive
    /\ \A t \in Pair : part # "lock" \/ t = First => arg[t] = [i \in LockIndex |-> i]

MCNext ==
    /\ UNCHANGED part
    /\ \/ part = "pointer" /\ Next /\ UNCHANGED mutexesVars
       \/ part = "mutex" /\ MutexStep /\ UNCHANGED vars
       \/ part = "timed" /\ TimedStep /\ UNCHANGED vars
       \/ part = "shared" /\ SharedStep /\ UNCHANGED vars
       \/ part = "lock" /\ LockStep /\ UNCHANGED vars

(* The fairness of the part that runs. *)
Goes(t) ==
    /\ UNCHANGED part
    /\ \/ /\ part = "pointer" /\ t \in Threads
          /\ Run(t) \/ (WaitProgress(t) /\ UNCHANGED pointerVars)
          /\ UNCHANGED mutexesVars
       \/ /\ part = "mutex" /\ t \in Pair /\ M!Run(t)
          /\ UNCHANGED <<vars, timedVars, sharedVars, lockVars>>
       \/ /\ part = "timed" /\ t \in Clients /\ T!Progress(t)
          /\ UNCHANGED <<vars, mutexVars, sharedVars, lockVars>>
       \/ /\ part = "shared" /\ t \in Clients /\ S!Progress(t)
          /\ UNCHANGED <<vars, mutexVars, timedVars, lockVars>>
Unlocks(t) ==
    /\ part = "timed" /\ t \in Clients /\ T!Unlock(t)
    /\ UNCHANGED <<part, vars, mutexVars, sharedVars, lockVars>>
Time_passes(t) ==
    /\ UNCHANGED <<part, vars>>
    /\ \/ /\ part = "mutex" /\ t \in Pair /\ M!Deadline_passes(t)
          /\ UNCHANGED <<timedVars, sharedVars, lockVars>>
       \/ /\ part = "timed" /\ t \in Clients /\ T!Deadline_passes(t)
          /\ UNCHANGED <<mutexVars, sharedVars, lockVars>>
       \/ /\ part = "shared" /\ t \in Clients /\ S!Deadline_passes(t)
          /\ UNCHANGED <<mutexVars, timedVars, lockVars>>

MCSpec ==
    /\ MCInit /\ [][MCNext]_locks
    /\ \A t \in Threads \union Pair \union Clients :
        WF_locks(Goes(t)) /\ WF_locks(Unlocks(t)) /\ WF_locks(Time_passes(t))

-----------------------------------------------------------------------------
(* Every call of the atomic pointer and of the mutexes returns: a lock as  *)
(* long as the holders unlock, a timed lock when its deadline has passed,  *)
(* whoever holds the mutex.  std::lock is not among them: threads that     *)
(* back off from each other may do so for ever.                            *)
CallsReturn ==
    \A t \in Threads \union Pair \union Clients :
        []<>(/\ t \in Threads => Returned(t)
             /\ t \in Pair => M!Returned(t)
             /\ t \in Clients => T!Returned(t) /\ S!Returned(t))

=============================================================================
