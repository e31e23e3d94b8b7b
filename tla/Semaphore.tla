----------------------------- MODULE Semaphore -----------------------------
(***************************************************************************)
(* counting_semaphore of stl/inc/semaphore over the wait functions of      *)
(* module AtomicWait.  _Counter is the atomic object at address Counter;   *)
(* _Waiting, which nobody waits on, is a variable of its own.  The         *)
(* threads make up to MaxOps calls of release, acquire, try_acquire and    *)
(* try_acquire_for or try_acquire_until.                                   *)
(***************************************************************************)
EXTENDS AtomicWait

CONSTANTS
    Counter,            \* &_Counter
    Desired,            \* the initial count
    Least_max_value,    \* max()
    MaxOps              \* calls altogether

ASSUME CounterAssumption == Addresses = {Counter}
ASSUME CountsAssumption ==
    /\ Least_max_value \in Nat \ {0}
    /\ Desired \in 0..Least_max_value
    /\ MaxOps \in Nat

VARIABLES
    Waiting,    \* _Waiting
    Current,    \* the local _Current of each thread
    Update,     \* what is left of _Update in each thread's release
    ops         \* calls begun

semVars == <<Waiting, Current, Update, ops>>
vars == <<waitVars, semVars>>

ClientLabels ==
    {"idle", "load_waiting", "notify_all", "notify_one", "load", "cas",
     "try_cas", "check", "add_waiting", "load_counter"}

(* Where a thread is that is inside acquire, try_acquire_for or _until. *)
Acquiring ==
    {"load", "cas", "check", "add_waiting", "load_counter"} \cup WaitLabels

Count == mem[Counter]

Init ==
    /\ WaitInit("idle", [a \in Addresses |-> Desired])
    /\ Waiting = 0
    /\ Current = [t \in Threads |-> 0]
    /\ Update = [t \in Threads |-> 0]
    /\ ops = 0

Start(t, label) ==
    /\ pc[t] = "idle"
    /\ ops < MaxOps
    /\ ops' = ops + 1
    /\ Goto(t, label)

-----------------------------------------------------------------------------
(* release(n) for n > 0 (release(0) returns at once), within its           *)
(* precondition n <= max() - counter: the fetch_add.                       *)
Release(t, n) ==
    /\ Count + n <= Least_max_value
    /\ Start(t, "load_waiting")
    /\ mem' = [mem EXCEPT ![Counter] = @ + n]
    /\ Update' = [Update EXCEPT ![t] = n]
    /\ UNCHANGED <<tableVars, argVars, spurious, Waiting, Current>>

(* Mutant of Release_load_waiting: "<=" became "<" the other way round. *)
Release_wakes_fewer(t) ==
    /\ pc[t] = "load_waiting"
    /\ Goto(t, CASE Waiting = 0         -> "idle"
                 [] Waiting > Update[t] -> "idle"
                 [] OTHER               -> "notify_all")
    /\ UNCHANGED <<mem, tableVars, argVars, spurious, semVars>>

(* _Waiting_upper_bound decides between no wake, one for all, and n. *)
Release_load_waiting(t) ==
    /\ pc[t] = "load_waiting"
    /\ Goto(t, CASE Waiting = 0          -> "idle"
                 [] Waiting \in 1..Update[t] -> "notify_all"
                 [] OTHER                -> "notify_one")
    /\ UNCHANGED <<mem, tableVars, argVars, spurious, semVars>>

Release_notify_all(t) ==
    /\ pc[t] = "notify_all"
    /\ Notify_all_direct(t, Counter, "idle")
    /\ UNCHANGED semVars

(* One turn of the loop of notify_one calls. *)
Release_notify_one(t) ==
    /\ pc[t] = "notify_one"
    /\ Notify_one_direct(t, Counter,
                         IF Update[t] = 1 THEN "idle" ELSE "notify_one")
    /\ Update' = [Update EXCEPT ![t] = @ - 1]
    /\ UNCHANGED <<Waiting, Current, ops>>

-----------------------------------------------------------------------------
(* What a thread that saw the count c does next. *)
NextFor(t, c) ==
    IF c > 0 THEN "cas" ELSE IF Timed(t) THEN "check" ELSE "add_waiting"

(* acquire(): no deadline.  try_acquire_for and try_acquire_until: a       *)
(* deadline, which may pass before the first look at the clock.            *)
Acquire(t, deadline) ==
    /\ Start(t, "load")
    /\ Deadline' = [Deadline EXCEPT ![t] = deadline]
    /\ UNCHANGED <<mem, tableVars, Storage, Comparand, spurious,
                   Waiting, Current, Update>>

Acquire_load(t) ==
    /\ pc[t] = "load"
    /\ Current' = [Current EXCEPT ![t] = Count]
    /\ Goto(t, NextFor(t, Count))
    /\ UNCHANGED <<mem, tableVars, argVars, spurious, Waiting, Update, ops>>

(* Mutant of Acquire_cas: a load and a store instead of the exchange. *)
Acquire_store(t) ==
    /\ pc[t] = "cas"
    /\ mem' = [mem EXCEPT ![Counter] = @ - 1]
    /\ Goto(t, "idle")
    /\ Deadline' = [Deadline EXCEPT ![t] = "none"]
    /\ UNCHANGED <<tableVars, Storage, Comparand, spurious, semVars>>

(* Mutant of Acquire_cas: a failure does not refresh _Current. *)
Acquire_cas_stale(t) ==
    /\ pc[t] = "cas"
    /\ \/ /\ Count = Current[t]
          /\ mem' = [mem EXCEPT ![Counter] = Current[t] - 1]
          /\ Goto(t, "idle")
          /\ Deadline' = [Deadline EXCEPT ![t] = "none"]
       \/ /\ Count # Current[t]
          /\ UNCHANGED <<mem, pc, Deadline>>
    /\ UNCHANGED <<tableVars, Storage, Comparand, spurious, semVars>>

(* compare_exchange_weak(_Current, _Current - 1), a strong exchange on     *)
(* every target; a failure refreshes _Current.                             *)
Acquire_cas(t) ==
    /\ pc[t] = "cas"
    /\ \/ /\ Count = Current[t]
          /\ mem' = [mem EXCEPT ![Counter] = Current[t] - 1]
          /\ Goto(t, "idle")
          /\ Deadline' = [Deadline EXCEPT ![t] = "none"]
          /\ UNCHANGED Current
       \/ /\ Count # Current[t]
          /\ Current' = [Current EXCEPT ![t] = Count]
          /\ Goto(t, NextFor(t, Count))
          /\ UNCHANGED <<mem, Deadline>>
    /\ UNCHANGED <<tableVars, Storage, Comparand, spurious,
                   Waiting, Update, ops>>

(* The remaining time of a timed acquire: none left, return false. *)
Acquire_check(t) ==
    /\ pc[t] = "check"
    /\ \/ /\ Deadline[t] = "passed"
          /\ Goto(t, "idle")
          /\ Deadline' = [Deadline EXCEPT ![t] = "none"]
       \/ /\ Deadline[t] = "ahead"
          /\ Goto(t, "add_waiting")
          /\ UNCHANGED Deadline
    /\ UNCHANGED <<mem, tableVars, Storage, Comparand, spurious, semVars>>

(* _Wait: announce, look at the counter once more, sleep, withdraw. *)
Wait_add_waiting(t) ==
    /\ pc[t] = "add_waiting"
    /\ Waiting' = Waiting + 1
    /\ Goto(t, "load_counter")
    /\ UNCHANGED <<mem, tableVars, argVars, spurious, Current, Update, ops>>

Wait_load_counter(t) ==
    /\ pc[t] = "load_counter"
    /\ \/ /\ Count = 0
          /\ Wait_direct(t, Counter, 0)
          /\ UNCHANGED Deadline
       \/ /\ Count # 0
          /\ Goto(t, "ret")
          /\ UNCHANGED argVars
    /\ UNCHANGED <<mem, tableVars, spurious, semVars>>

(* Mutant of Wait_sub_waiting: a time-out returns without withdrawing. *)
Wait_stays_announced(t) ==
    /\ pc[t] = "ret"
    /\ Waiting' = IF Timed(t) THEN Waiting ELSE Waiting - 1
    /\ Goto(t, "load")
    /\ UNCHANGED <<mem, tableVars, argVars, spurious, Current, Update, ops>>

Wait_sub_waiting(t) ==
    /\ pc[t] = "ret"
    /\ Waiting' = Waiting - 1
    /\ Goto(t, "load")
    /\ UNCHANGED <<mem, tableVars, argVars, spurious, Current, Update, ops>>

(* try_acquire(): the load, then one exchange. *)
Try_acquire(t) ==
    /\ Start(t, IF Count = 0 THEN "idle" ELSE "try_cas")
    /\ Current' = [Current EXCEPT ![t] = Count]
    /\ UNCHANGED <<mem, tableVars, argVars, spurious, Waiting, Update>>

Try_acquire_cas(t) ==
    /\ pc[t] = "try_cas"
    /\ Goto(t, "idle")
    /\ \/ /\ Count = Current[t]
          /\ mem' = [mem EXCEPT ![Counter] = Current[t] - 1]
       \/ /\ Count # Current[t]
          /\ UNCHANGED mem
    /\ UNCHANGED <<tableVars, argVars, spurious, semVars>>

-----------------------------------------------------------------------------
(* Steps of a thread that is inside a call. *)
Run(t) ==
    \/ Release_load_waiting(t) \/ Release_notify_all(t) \/ Release_notify_one(t)
    \/ Acquire_load(t) \/ Acquire_cas(t) \/ Acquire_check(t)
    \/ Wait_add_waiting(t) \/ Wait_load_counter(t) \/ Wait_sub_waiting(t)
    \/ Try_acquire_cas(t)

Done(t) ==
    \/ pc[t] = "idle" /\ ops = MaxOps
    \/ pc[t] = "asleep"

Terminating == (\A t \in Threads : Done(t)) /\ UNCHANGED vars

Next ==
    \/ \E t \in Threads :
        \/ \E n \in 1..Least_max_value : Release(t, n)
        \/ \E d \in {"none", "ahead"} : Acquire(t, d)
        \/ Try_acquire(t)
        \/ Run(t)
        \/ WaitStep(t) /\ UNCHANGED semVars
    \/ Terminating

Spec == Init /\ [][Next]_vars

(* Threads inside a call are scheduled and the clock moves on. *)
Fairness ==
    \A t \in Threads :
        /\ WF_vars(Run(t) \/ (WaitProgress(t) /\ UNCHANGED semVars))
        /\ WF_vars(Deadline_passes(t) /\ UNCHANGED semVars)

FairSpec == Spec /\ Fairness

-----------------------------------------------------------------------------
(* The counter stays within 0 and max(), as the _STL_VERIFY of acquire and *)
(* try_acquire demand of every value they load.                            *)
TypeOK ==
    /\ mem \in [Addresses -> 0..Least_max_value]
    /\ pc \in [Threads -> ClientLabels \cup WaitLabels]
    /\ Waiting \in 0..Cardinality(Threads)
    /\ Current \in [Threads -> 0..Least_max_value]
    /\ Update \in [Threads -> 0..Least_max_value]
    /\ ops \in 0..MaxOps

(* _Waiting is exactly the number of threads between the announcement and  *)
(* the withdrawal in _Wait, and so no less than the number of sleepers:    *)
(* release may skip the notify when it reads 0.                            *)
WaitingCounted ==
    Waiting = Cardinality({t \in Threads :
                            pc[t] \in {"load_counter"} \cup WaitLabels})

(* "We need to notify (wake) at least _Update waiting threads. [...]       *)
(* Errors towards waking fewer must be avoided, as they are correctness    *)
(* issues." (semaphore:81-83)  No thread sleeps in acquire next to a       *)
(* positive count unless some other thread is awake inside a call.         *)
EnoughWoken ==
    (\E t \in Threads : pc[t] = "asleep" /\ ~Timed(t)) /\ Count > 0
        => \E u \in Threads : pc[u] \notin {"idle", "asleep"}

(* No thread stays in acquire for ever while the count stays positive, and *)
(* a timed acquire returns once its deadline has passed, whatever wakes    *)
(* and time-outs it meets.                                                 *)
EveryCallReturns ==
    \A t \in Threads :
        /\ []<>~(pc[t] \in Acquiring /\ Count > 0)
        /\ []<>(Deadline[t] # "passed")

=============================================================================
