------------------------------- MODULE Latch -------------------------------
(***************************************************************************)
(* std::latch (stl/inc/latch) over the wait functions of module AtomicWait.*)
(* Only the step to zero notifies, although every count_down changes the   *)
(* value that the waiters sleep on.  Module SyncObjects runs the latch     *)
(* next to another object in the same entry of the wait table.             *)
(***************************************************************************)
EXTENDS AtomicWait

CONSTANTS
    Counter,        \* &_Counter
    Expected,       \* the initial count
    MaxOps          \* calls altogether

VARIABLES
    ops             \* calls begun

vars == <<waitVars, ops>>

Labels == {"notify_all", "load"}

Count == mem[Counter]

(* The atomic::wait that thread t is in is one on the latch. *)
Here(t) == pc[t] \in AtomicWaitLabels /\ Storage[t] = Counter

(* Thread t is inside wait or the wait of arrive_and_wait. *)
Waits(t) == pc[t] = "load" \/ Here(t)

(* try_wait() *)
Try_wait == Count = 0

Start(t) ==
    /\ pc[t] = "idle"
    /\ ops < MaxOps
    /\ ops' = ops + 1

(* count_down(n), within its precondition n <= counter. *)
Count_down(t, n) ==
    /\ n <= Count
    /\ Start(t)
    /\ mem' = [mem EXCEPT ![Counter] = @ - n]
    /\ Goto(t, IF Count = n THEN "notify_all" ELSE "idle")
    /\ UNCHANGED <<tableVars, argVars, spurious>>

Notify_all(t) ==
    /\ pc[t] = "notify_all"
    /\ Notify_all_direct(t, Counter, "idle")
    /\ UNCHANGED ops

(* wait() *)
Wait(t) ==
    /\ Start(t)
    /\ Goto(t, "load")
    /\ UNCHANGED <<mem, tableVars, argVars, spurious>>

(* Its loop: return at zero, otherwise _Counter.wait(_Current). *)
Wait_load(t) ==
    /\ pc[t] = "load"
    /\ \/ /\ Try_wait
          /\ Goto(t, "idle")
          /\ UNCHANGED <<Storage, Comparand>>
       \/ /\ ~Try_wait
          /\ Atomic_wait(t, Counter, Count)
    /\ UNCHANGED <<mem, tableVars, Deadline, spurious, ops>>

Wait_atomic(t) ==
    /\ Here(t)
    /\ Atomic_wait_direct(t, "load")
    /\ UNCHANGED ops

(* arrive_and_wait(n): the step to zero notifies and does not wait; any    *)
(* other waits on the value it left, then calls wait().                    *)
Arrive_and_wait(t, n) ==
    /\ n <= Count
    /\ Start(t)
    /\ mem' = [mem EXCEPT ![Counter] = @ - n]
    /\ \/ /\ Count = n
          /\ Goto(t, "notify_all")
          /\ UNCHANGED <<Storage, Comparand>>
       \/ /\ Count # n
          /\ Atomic_wait(t, Counter, Count - n)
    /\ UNCHANGED <<tableVars, Deadline, spurious>>

-----------------------------------------------------------------------------
Call(t) ==
    \/ \E n \in 0..Expected : Count_down(t, n) \/ Arrive_and_wait(t, n)
    \/ Wait(t)

Run(t) == Notify_all(t) \/ Wait_load(t) \/ Wait_atomic(t)

-----------------------------------------------------------------------------
(* The counter never leaves its range, and nobody waits for a value that   *)
(* it cannot have.                                                         *)
CountInRange ==
    /\ Count \in 0..Expected
    /\ \A t \in Threads : Here(t) => Comparand[t] \in 1..Expected

(* No thread sleeps on an open latch, unless the thread that opened it has *)
(* its notify_all still to do.  The wakes that the other count_downs do    *)
(* not send are not needed.                                                *)
NoSleeperAtZero ==
    (\E t \in Threads : pc[t] = "asleep" /\ Here(t)) /\ Count = 0
        => \E u \in Threads : pc[u] = "notify_all"

(* An open latch lets every waiter go: nobody waits for ever at zero. *)
OpenReleases ==
    \A t \in Threads : []<>~(Waits(t) /\ Count = 0)

=============================================================================
