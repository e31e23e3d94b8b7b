----------------------------- MODULE TimedMutex -------------------------------
(***************************************************************************)
(* timed_mutex and recursive_timed_mutex: a counter _My_locked under the   *)
(* internal mutex _My_mutex, and the condition variable _My_cond.  All the *)
(* state is read and written under _My_mutex (its own module is Mutex), so *)
(* a critical section is one step here; a wait of _My_cond ends one and    *)
(* begins another, and unlock notifies after its critical section.         *)
(***************************************************************************)
EXTENDS Integers, FiniteSets

CONSTANTS
    Threads,
    MaxLocked,      \* UINT_MAX
    MaxOps          \* bound: calls made altogether

None == "none"

VARIABLES
    recursive,      \* whether this is a recursive_timed_mutex
    My_locked,
    My_owner,
    waiting,        \* threads asleep in _My_cond
    pc,
    op,
    late,           \* the _Abs_time of the call has passed
    held,           \* the client's view: locks taken and not yet returned
    ops

vars == <<recursive, My_locked, My_owner, waiting, pc, op, late, held, ops>>

Init ==
    /\ recursive \in BOOLEAN
    /\ My_locked = 0
    /\ My_owner = None
    /\ waiting = {}
    /\ pc = [t \in Threads |-> "idle"]
    /\ op = [t \in Threads |-> "lock"]
    /\ late = [t \in Threads |-> FALSE]
    /\ held = [t \in Threads |-> 0]
    /\ ops = 0

Goto(t, label) == pc' = [pc EXCEPT ![t] = label]

Deadline_passes(t) ==
    /\ pc[t] # "idle" /\ op[t] = "try_lock_until" /\ ~late[t]
    /\ late' = [late EXCEPT ![t] = TRUE]
    /\ UNCHANGED <<recursive, My_locked, My_owner, waiting, pc, op, held, ops>>

(* lock, try_lock, try_lock_until.  Only a recursive one is locked again   *)
(* by its owner.                                                           *)
Call(t, o) ==
    /\ pc[t] = "idle" /\ ops < MaxOps
    /\ held[t] > 0 => recursive
    /\ ops' = ops + 1
    /\ op' = [op EXCEPT ![t] = o]
    /\ late' = [late EXCEPT ![t] = FALSE]
    /\ Goto(t, "enter")
    /\ UNCHANGED <<recursive, My_locked, My_owner, waiting, held>>

(* The owner locks again, unless the count is full: then lock throws, and  *)
(* the others return false.                                                *)
Relock(t) ==
    /\ IF My_locked < MaxLocked
       THEN /\ My_locked' = My_locked + 1
            /\ held' = [held EXCEPT ![t] = @ + 1]
       ELSE UNCHANGED <<My_locked, held>>
    /\ Goto(t, "idle")
    /\ UNCHANGED <<My_owner, waiting>>

Take(t) ==
    /\ My_locked = 0
    /\ My_locked' = IF recursive THEN 1 ELSE MaxLocked
    /\ My_owner' = IF recursive THEN t ELSE None
    /\ held' = [held EXCEPT ![t] = 1]
    /\ Goto(t, "idle")
    /\ UNCHANGED waiting

(* Mutant of GiveUp: the clock is looked at before _My_locked, so a thread *)
(* that is late keeps the wake it was given.                               *)
GiveUp_late(t) ==
    /\ \/ op[t] = "try_lock" /\ My_locked # 0
       \/ op[t] = "try_lock_until" /\ late[t]
    /\ Goto(t, "idle")
    /\ UNCHANGED <<My_locked, My_owner, waiting, held>>

GiveUp(t) ==
    /\ My_locked # 0
    /\ op[t] = "try_lock" \/ (op[t] = "try_lock_until" /\ late[t])
    /\ Goto(t, "idle")
    /\ UNCHANGED <<My_locked, My_owner, waiting, held>>

Sleep(t) ==
    /\ My_locked # 0
    /\ op[t] = "lock" \/ (op[t] = "try_lock_until" /\ ~late[t])
    /\ waiting' = waiting \union {t}
    /\ Goto(t, "asleep")
    /\ UNCHANGED <<My_locked, My_owner, held>>

(* A critical section of a lock call, at its beginning or after a wait:    *)
(* the test of the owner, and one turn of the loop on _My_locked and the   *)
(* clock.                                                                  *)
Enter(t) ==
    /\ pc[t] = "enter"
    /\ \/ recursive /\ My_owner = t /\ Relock(t)
       \/ /\ ~(recursive /\ My_owner = t)
          /\ Take(t) \/ GiveUp(t) \/ Sleep(t)
    /\ UNCHANGED <<recursive, op, late, ops>>

(* The wait ends: by a notification, spuriously, or by the timer, and then *)
(* the loop decides by the clock.                                          *)
Wake(t) ==
    /\ pc[t] = "asleep"
    /\ waiting' = waiting \ {t}
    /\ Goto(t, "enter")
    /\ UNCHANGED <<recursive, My_locked, My_owner, op, late, held, ops>>

(* unlock: the critical section. *)
Unlock(t) ==
    /\ pc[t] = "idle" /\ held[t] > 0
    /\ held' = [held EXCEPT ![t] = @ - 1]
    /\ My_locked' = IF recursive THEN My_locked - 1 ELSE 0
    /\ My_owner' = IF My_locked' = 0 THEN None ELSE My_owner
    /\ Goto(t, IF My_locked' = 0 THEN "notify" ELSE "idle")
    /\ UNCHANGED <<recursive, waiting, op, late, ops>>

(* unlock: _My_cond.notify_one *)
Notify(t) ==
    /\ pc[t] = "notify"
    /\ \/ waiting = {} /\ UNCHANGED waiting
       \/ \E w \in waiting : waiting' = waiting \ {w}
    /\ Goto(t, "idle")
    /\ UNCHANGED <<recursive, My_locked, My_owner, op, late, held, ops>>

-----------------------------------------------------------------------------
(* Inside a call: a wait ends when it is notified, or when it is late.     *)
Progress(t) ==
    \/ Enter(t) \/ Notify(t)
    \/ (t \notin waiting \/ late[t]) /\ Wake(t)

Next ==
    \E t \in Threads :
        \/ \E o \in {"lock", "try_lock", "try_lock_until"} : Call(t, o)
        \/ Enter(t) \/ Wake(t) \/ Unlock(t) \/ Notify(t) \/ Deadline_passes(t)

Spec == Init /\ [][Next]_vars

-----------------------------------------------------------------------------
TypeOK ==
    /\ recursive \in BOOLEAN
    /\ My_locked \in 0 .. MaxLocked
    /\ My_owner \in Threads \union {None}
    /\ waiting \subseteq Threads
    /\ pc \in [Threads -> {"idle", "enter", "asleep", "notify"}]
    /\ op \in [Threads -> {"lock", "try_lock", "try_lock_until"}]
    /\ late \in [Threads -> BOOLEAN]
    /\ held \in [Threads -> 0 .. MaxLocked]
    /\ ops \in 0 .. MaxOps

(* One thread at a time holds the mutex, and _My_locked and _My_owner say  *)
(* who and how often; the count of a recursive one never wraps.            *)
Exclusive ==
    /\ \A t, u \in Threads : held[t] > 0 /\ held[u] > 0 => t = u
    /\ \A t \in Threads :
        held[t] > 0 => /\ My_locked = IF recursive THEN held[t] ELSE MaxLocked
                       /\ recursive => My_owner = t
    /\ My_locked > 0 => \E t \in Threads : held[t] > 0

(* A thread on its way to look at _My_locked, or about to wake one. *)
Coming(t) ==
    \/ pc[t] \in {"enter", "notify"}
    \/ pc[t] = "asleep" /\ t \notin waiting

(* The one notify_one of unlock is never lost on a thread that does not    *)
(* lock: while the mutex is free and threads sleep on it, somebody is on   *)
(* the way.                                                                *)
NobodyStranded ==
    My_locked = 0 /\ waiting # {} => \E t \in Threads : Coming(t)

Returned(t) == pc[t] = "idle"

=============================================================================
