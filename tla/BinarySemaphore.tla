-------------------------- MODULE BinarySemaphore --------------------------
(***************************************************************************)
(* counting_semaphore<1> of stl/inc/semaphore over the wait functions of   *)
(* module AtomicWait: release is a store of 1 and one notify_one, acquire  *)
(* an exchange with 0.  Module SyncObjects runs it next to another object  *)
(* in the same entry of the wait table.                                    *)
(***************************************************************************)
EXTENDS AtomicWait

CONSTANTS
    Counter,        \* &_Counter
    MaxOps          \* calls altogether

VARIABLES
    ops             \* calls begun

vars == <<waitVars, ops>>

Labels == {"notify_one", "exchange", "check"}

Count == mem[Counter]

(* The wait that thread t is in is one on the semaphore. *)
Here(t) == pc[t] \in AtomicWaitLabels /\ Storage[t] = Counter

(* Thread t is inside acquire, try_acquire_for or try_acquire_until. *)
Acquires(t) == pc[t] \in {"exchange", "check"} \/ Here(t)

Start(t, label) ==
    /\ pc[t] = "idle"
    /\ ops < MaxOps
    /\ ops' = ops + 1
    /\ Goto(t, label)

(* Mutant of Release: the notify is missing. *)
Release_quiet(t) ==
    /\ Count = 0
    /\ Start(t, "idle")
    /\ mem' = [mem EXCEPT ![Counter] = 1]
    /\ UNCHANGED <<tableVars, argVars, spurious>>

(* release(), within its precondition 1 <= max() - counter: the store. *)
Release(t) ==
    /\ Count = 0
    /\ Start(t, "notify_one")
    /\ mem' = [mem EXCEPT ![Counter] = 1]
    /\ UNCHANGED <<tableVars, argVars, spurious>>

Release_notify_one(t) ==
    /\ pc[t] = "notify_one"
    /\ Notify_one_direct(t, Counter, "idle")
    /\ UNCHANGED ops

(* acquire(): no deadline.  try_acquire_for and try_acquire_until: a       *)
(* deadline, which may pass before the first look at the clock.            *)
Acquire(t, deadline) ==
    /\ Start(t, "exchange")
    /\ Deadline' = [Deadline EXCEPT ![t] = deadline]
    /\ UNCHANGED <<mem, tableVars, Storage, Comparand, spurious>>

(* The exchange takes the 1 and returns, or finds 0: acquire goes to       *)
(* _Counter.wait(0), a timed acquire to the clock.                         *)
Acquire_exchange(t) ==
    /\ pc[t] = "exchange"
    /\ mem' = [mem EXCEPT ![Counter] = 0]
    /\ \/ /\ Count = 1
          /\ Goto(t, "idle")
          /\ Deadline' = [Deadline EXCEPT ![t] = "none"]
          /\ UNCHANGED <<Storage, Comparand>>
       \/ /\ Count = 0
          /\ ~Timed(t)
          /\ Atomic_wait(t, Counter, 0)
          /\ UNCHANGED Deadline
       \/ /\ Count = 0
          /\ Timed(t)
          /\ Goto(t, "check")
          /\ UNCHANGED argVars
    /\ UNCHANGED <<tableVars, spurious, ops>>

(* The loop inside _Counter.wait(0), which acquire's loop goes around. *)
Acquire_wait(t) ==
    /\ Here(t)
    /\ ~Timed(t)
    /\ Atomic_wait_direct(t, "exchange")
    /\ UNCHANGED ops

(* Mutant of Acquire_check: after a wait the clock is looked at before the *)
(* counter, so the wake that a time-out meets is thrown away.              *)
Acquire_check_first(t) ==
    /\ Acquires(t) /\ Timed(t)
    /\ \/ /\ pc[t] \in {"check", "ret"}
          /\ Deadline[t] = "passed"
          /\ Goto(t, "idle")
          /\ Deadline' = [Deadline EXCEPT ![t] = "none"]
          /\ UNCHANGED <<Storage, Comparand>>
       \/ /\ pc[t] = "check"
          /\ Deadline[t] = "ahead"
          /\ Wait_direct(t, Counter, 0)
          /\ UNCHANGED Deadline
       \/ /\ pc[t] = "ret" /\ Here(t)
          /\ Deadline[t] = "ahead"
          /\ Goto(t, "exchange")
          /\ UNCHANGED argVars
    /\ UNCHANGED <<mem, tableVars, spurious, ops>>

(* A timed acquire that found 0: return false when no time remains,        *)
(* otherwise wait for that time and exchange again.                        *)
Acquire_check(t) ==
    /\ Timed(t)
    /\ \/ /\ pc[t] = "check"
          /\ Deadline[t] = "passed"
          /\ Goto(t, "idle")
          /\ Deadline' = [Deadline EXCEPT ![t] = "none"]
          /\ UNCHANGED <<Storage, Comparand>>
       \/ /\ pc[t] = "check"
          /\ Deadline[t] = "ahead"
          /\ Wait_direct(t, Counter, 0)
          /\ UNCHANGED Deadline
       \/ /\ pc[t] = "ret" /\ Here(t)
          /\ Goto(t, "exchange")
          /\ UNCHANGED argVars
    /\ UNCHANGED <<mem, tableVars, spurious, ops>>

(* try_acquire(): the exchange, whatever it finds. *)
Try_acquire(t) ==
    /\ Start(t, "idle")
    /\ mem' = [mem EXCEPT ![Counter] = 0]
    /\ UNCHANGED <<tableVars, argVars, spurious>>

-----------------------------------------------------------------------------
Call(t) ==
    \/ Release(t)
    \/ \E d \in {"none", "ahead"} : Acquire(t, d)
    \/ Try_acquire(t)

Run(t) ==
    \/ Release_notify_one(t) \/ Acquire_exchange(t)
    \/ Acquire_wait(t) \/ Acquire_check(t)

-----------------------------------------------------------------------------
(* The counter is 0 or 1, as acquire verifies of every value it finds. *)
CountIsBinary == Count \in {0, 1}

(* One notify_one per release is enough at both API levels: no thread      *)
(* sleeps in acquire next to a count of 1 unless another thread is awake   *)
(* inside a call on the semaphore, although the fallback may wake a        *)
(* context twice and a timed acquire may be the one that is woken.         *)
EnoughWoken ==
    (\E t \in Threads : pc[t] = "asleep" /\ Here(t) /\ ~Timed(t)) /\ Count = 1
        => \E u \in Threads :
                pc[u] # "asleep" /\ (Acquires(u) \/ pc[u] = "notify_one")

(* No thread stays in acquire for ever while the count stays 1. *)
AcquirersServed ==
    \A t \in Threads : []<>~(Acquires(t) /\ Count = 1)

(* A timed acquire returns once its deadline has passed: none is in it for *)
(* ever after.                                                             *)
TimedReturns ==
    \A t \in Threads : []<>(Deadline[t] # "passed")

=============================================================================
