------------------------ MODULE ConditionVariableAny --------------------------
(***************************************************************************)
(* condition_variable_any: waits with any lock, the outer one, over an     *)
(* internal mutex (inner, *_Myptr) and a condition variable.  The          *)
(* interruptible waits register a stop_callback that notifies everybody.   *)
(* Waiters wait for the predicate ready under the outer lock; one notifier *)
(* makes it true and notifies, one stopper requests a stop, each with the  *)
(* outer lock or without it.                                               *)
(***************************************************************************)
EXTENDS Integers

CONSTANTS
    Waiters,
    Ops,            \* the waits they may call
    MaxSpurious     \* bound: wakes without a cause

Waits == {"wait", "wait_until", "wait_stop", "wait_until_stop"}
Stoppable == {"wait_stop", "wait_until_stop"}
Timed == {"wait_until", "wait_until_stop"}

None == "none"
Notifier == "notifier"
Stopper == "stopper"
Actors == Waiters \union {Notifier, Stopper}

VARIABLES
    outer, inner,   \* owners of the two locks
    sleeping,       \* waiters asleep in the internal condition variable
    ready,          \* what _Pred tests
    stop,           \* _Stoken.stop_requested()
    cb,             \* of each waiter's stop_callback
    pc, op, late,
    spurious

vars == <<outer, inner, sleeping, ready, stop, cb, pc, op, late, spurious>>

Init ==
    /\ outer = None /\ inner = None
    /\ sleeping = {}
    /\ ready = FALSE
    /\ stop = FALSE
    /\ cb = [w \in Waiters |-> "none"]
    /\ pc = [t \in Actors |-> "start"]
    /\ op \in [Waiters -> Ops]
    /\ late = [w \in Waiters |-> FALSE]
    /\ spurious = 0

Goto(t, label) == pc' = [pc EXCEPT ![t] = label]

Lock_outer(t) == outer = None /\ outer' = t
Unlock_outer(t) == outer' = None
Lock_inner(t) == inner = None /\ inner' = t
Unlock_inner(t) == inner' = None

Deadline_passes(w) ==
    /\ op[w] \in Timed /\ pc[w] # "done" /\ ~late[w]
    /\ late' = [late EXCEPT ![w] = TRUE]
    /\ UNCHANGED <<outer, inner, sleeping, ready, stop, cb, pc, op, spurious>>

-----------------------------------------------------------------------------
(* The caller locks, and an interruptible wait constructs its callback,    *)
(* which notifies at once when the stop has been requested before.         *)
Call(w) ==
    /\ pc[w] = "start"
    /\ Lock_outer(w)
    /\ Goto(w, IF op[w] \in Stoppable THEN "register" ELSE "pred")
    /\ UNCHANGED <<inner, sleeping, ready, stop, cb, op, late, spurious>>

Register(w) ==
    /\ pc[w] = "register"
    /\ \/ /\ ~stop
          /\ cb' = [cb EXCEPT ![w] = "registered"]
          /\ UNCHANGED sleeping
       \/ /\ stop /\ inner = None
          /\ cb' = [cb EXCEPT ![w] = "called"]
          /\ sleeping' = {}
    /\ Goto(w, "pred")
    /\ UNCHANGED <<outer, inner, ready, stop, op, late, spurious>>

(* _Pred; a timed wait whose time is over unlocks and locks again.         *)
Pred(w) ==
    /\ pc[w] = "pred"
    /\ \/ /\ ready
          /\ Goto(w, "return")
          /\ UNCHANGED outer
       \/ /\ ~ready /\ op[w] = "wait_until" /\ late[w]
          /\ Unlock_outer(w)
          /\ Goto(w, "relock")
       \/ /\ ~ready /\ ~(op[w] = "wait_until" /\ late[w])
          /\ Goto(w, "guard")
          /\ UNCHANGED outer
    /\ UNCHANGED <<inner, sleeping, ready, stop, cb, op, late, spurious>>

(* unique_lock<mutex> _Guard *)
Guard(w) ==
    /\ pc[w] = "guard"
    /\ Lock_inner(w)
    /\ Goto(w, "requested")
    /\ UNCHANGED <<outer, sleeping, ready, stop, cb, op, late, spurious>>

(* Under _Guard: a requested stop ends the wait, otherwise _Unlock_outer.  *)
Stop_requested(w) ==
    /\ pc[w] = "requested"
    /\ \/ /\ op[w] \in Stoppable /\ stop
          /\ Unlock_inner(w)
          /\ Goto(w, "return")
          /\ UNCHANGED outer
       \/ /\ ~(op[w] \in Stoppable /\ stop)
          /\ Unlock_outer(w)
          /\ Goto(w, "clock")
          /\ UNCHANGED inner
    /\ UNCHANGED <<sleeping, ready, stop, cb, op, late, spurious>>

(* _Cnd_wait, _Cnd_timedwait: leave the internal mutex and sleep, in one   *)
(* step of the system.                                                     *)
Sleep(w) ==
    /\ pc[w] = "clock"
    /\ ~(op[w] = "wait_until_stop" /\ late[w])
    /\ Unlock_inner(w)
    /\ sleeping' = sleeping \union {w}
    /\ Goto(w, "asleep")
    /\ UNCHANGED <<outer, ready, stop, cb, op, late, spurious>>

(* The interruptible timed wait looks at the clock with the outer lock     *)
(* open; when it is late the break destroys _Unlock_outer before _Guard:   *)
(* the outer lock is locked while the internal mutex is held.              *)
Timeout(w) ==
    /\ pc[w] = "clock" /\ op[w] = "wait_until_stop" /\ late[w]
    /\ Lock_outer(w)
    /\ Unlock_inner(w)
    /\ Goto(w, "return")
    /\ UNCHANGED <<sleeping, ready, stop, cb, op, late, spurious>>

(* The sleep ends: notified, by the timer, or without a cause. *)
Wake(w) ==
    /\ pc[w] = "asleep"
    /\ w \notin sleeping \/ late[w]
    /\ sleeping' = sleeping \ {w}
    /\ Goto(w, "reguard")
    /\ UNCHANGED <<outer, inner, ready, stop, cb, op, late, spurious>>

Wake_spuriously(w) ==
    /\ pc[w] = "asleep" /\ w \in sleeping /\ spurious < MaxSpurious
    /\ spurious' = spurious + 1
    /\ sleeping' = sleeping \ {w}
    /\ Goto(w, "reguard")
    /\ UNCHANGED <<outer, inner, ready, stop, cb, op, late>>

(* The wait returns with the internal mutex, which _Guard.unlock gives up. *)
Reguard(w) ==
    /\ pc[w] = "reguard" /\ inner = None
    /\ Goto(w, "relock")
    /\ UNCHANGED <<outer, inner, sleeping, ready, stop, cb, op, late, spurious>>

(* ~_Unlock_guard; then the loop, or the return of a wait that timed out.  *)
Relock(w) ==
    /\ pc[w] = "relock"
    /\ Lock_outer(w)
    /\ Goto(w, IF op[w] = "wait_until" /\ late[w] THEN "return" ELSE "pred")
    /\ UNCHANGED <<inner, sleeping, ready, stop, cb, op, late, spurious>>

(* ~stop_callback: waits for a callback that runs in the other thread.     *)
(* The result is _Pred() once more; then the caller unlocks.               *)
Return(w) ==
    /\ pc[w] = "return"
    /\ cb[w] # "running"
    /\ cb' = [cb EXCEPT ![w] = "none"]
    /\ Unlock_outer(w)
    /\ Goto(w, "done")
    /\ UNCHANGED <<inner, sleeping, ready, stop, op, late, spurious>>

-----------------------------------------------------------------------------
(* The notifier makes _Pred true under the outer lock, and notifies with   *)
(* it or after it; the stopper may hold it while it requests the stop.     *)
Make_ready ==
    /\ pc[Notifier] = "start"
    /\ outer = None
    /\ ready' = TRUE
    /\ \/ outer' = Notifier
       \/ UNCHANGED outer
    /\ Goto(Notifier, "notify")
    /\ UNCHANGED <<inner, sleeping, stop, cb, op, late, spurious>>

(* notify_one, and then notify_all: under _Guard, which nobody sees. *)
Notify_one ==
    /\ pc[Notifier] = "notify" /\ inner = None
    /\ \/ sleeping = {} /\ UNCHANGED sleeping
       \/ \E w \in sleeping : sleeping' = sleeping \ {w}
    /\ Goto(Notifier, "notify_all")
    /\ UNCHANGED <<outer, inner, ready, stop, cb, op, late, spurious>>

Notify_all ==
    /\ pc[Notifier] = "notify_all" /\ inner = None
    /\ sleeping' = {}
    /\ outer' = IF outer = Notifier THEN None ELSE outer
    /\ Goto(Notifier, "done")
    /\ UNCHANGED <<inner, ready, stop, cb, op, late, spurious>>

Request_stop ==
    /\ pc[Stopper] = "start"
    /\ \/ outer = None /\ outer' = Stopper
       \/ UNCHANGED outer
    /\ stop' = TRUE
    /\ Goto(Stopper, "callbacks")
    /\ UNCHANGED <<inner, sleeping, ready, cb, op, late, spurious>>

(* The stop state takes the next callback and calls it: notify_all. *)
Take_callback(w) ==
    /\ pc[Stopper] = "callbacks"
    /\ cb[w] = "registered"
    /\ cb' = [cb EXCEPT ![w] = "running"]
    /\ Goto(Stopper, "notify_all")
    /\ UNCHANGED <<outer, inner, sleeping, ready, stop, op, late, spurious>>

Run_callback(w) ==
    /\ pc[Stopper] = "notify_all"
    /\ cb[w] = "running" /\ inner = None
    /\ sleeping' = {}
    /\ cb' = [cb EXCEPT ![w] = "called"]
    /\ Goto(Stopper, "callbacks")
    /\ UNCHANGED <<outer, inner, ready, stop, op, late, spurious>>

Stop_done ==
    /\ pc[Stopper] = "callbacks"
    /\ \A w \in Waiters : cb[w] # "registered"
    /\ outer' = IF outer = Stopper THEN None ELSE outer
    /\ Goto(Stopper, "done")
    /\ UNCHANGED <<inner, sleeping, ready, stop, cb, op, late, spurious>>

-----------------------------------------------------------------------------
Wait(w) ==
    \/ Call(w) \/ Register(w) \/ Pred(w) \/ Guard(w) \/ Stop_requested(w)
    \/ Sleep(w) \/ Timeout(w) \/ Wake(w) \/ Reguard(w) \/ Relock(w) \/ Return(w)

Notify == Notify_one \/ Notify_all
Callbacks == Stop_done \/ \E w \in Waiters : Take_callback(w) \/ Run_callback(w)

Next ==
    \/ \E w \in Waiters : Wait(w) \/ Wake_spuriously(w) \/ Deadline_passes(w)
    \/ Make_ready \/ Notify
    \/ Request_stop \/ Callbacks

Spec == Init /\ [][Next]_vars

(* Threads that can go on do, and deadlines pass; nobody has to make the   *)
(* predicate true or to request a stop.                                    *)
Fairness ==
    /\ \A w \in Waiters : WF_vars(Wait(w)) /\ WF_vars(Deadline_passes(w))
    /\ WF_vars(Notify)
    /\ WF_vars(Callbacks)

FairSpec == Spec /\ Fairness

-----------------------------------------------------------------------------
TypeOK ==
    /\ outer \in Actors \union {None}
    /\ inner \in Waiters \union {None}
    /\ sleeping \subseteq Waiters
    /\ ready \in BOOLEAN /\ stop \in BOOLEAN
    /\ cb \in [Waiters -> {"none", "registered", "running", "called"}]
    /\ op \in [Waiters -> Waits]
    /\ late \in [Waiters -> BOOLEAN]
    /\ spurious \in 0 .. MaxSpurious

(* What ends the wait of w. *)
Ended(w) == ready \/ (stop /\ op[w] \in Stoppable) \/ late[w]

(* w is at the break of the interruptible timed wait. *)
Breaking(w) == pc[w] = "clock" /\ op[w] = "wait_until_stop" /\ late[w]

(* The wait of w is over when there is a reason.  The one exception is a   *)
(* wait stuck at the break of wait_until, which holds the internal mutex.  *)
Returned(w) == Ended(w) => pc[w] = "done" \/ \E v \in Waiters : Breaking(v)

(* An interruptible timed wait returns after its deadline. *)
TimedWaitsReturn ==
    \A w \in Waiters : [](op[w] = "wait_until_stop" /\ late[w] => <>(pc[w] = "done"))

=============================================================================
