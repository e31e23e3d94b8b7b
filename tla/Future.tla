-------------------------------- MODULE Future ---------------------------------
(***************************************************************************)
(* The shared state of <future> (_Associated_state and the states derived  *)
(* from it) between one provider and several futures: a promise or a       *)
(* packaged_task, set at once or at thread exit through the table of       *)
(* xnotify.cpp (module ThreadExit), or async, deferred or as a task.       *)
(* Critical sections of _Mtx are one step; a result set at thread exit     *)
(* keeps _Mtx locked until the thread exits.                               *)
(***************************************************************************)
EXTENDS Integers, FiniteSets

CONSTANTS
    Getters,        \* threads with a (shared) future each
    Kinds,          \* the providers considered
    MaxCalls        \* bound: calls of each getter

None == "none"
Setter == "setter"  \* the thread of the provider, or of the task
Actors == Getters \union {Setter}

VARIABLES
    kind,           \* "promise", "packaged_task", "deferred" or "task"
    Mtx,            \* owner of _Mtx between steps
    Result,         \* what is stored: None is ~_Has_stored_result
    Ready, Running,
    slot,           \* the thread the state is registered with at its exit
    waiting,        \* threads asleep in _Cond
    Refs, alive,
    provider,       \* "held", "gone", or the thread that is destroying it
    terminated,     \* an exception has left a noexcept destructor
    pc, op, late, got, calls

state == <<Mtx, Result, Ready, Running, slot, waiting, Refs, alive>>
vars == <<kind, state, provider, terminated, pc, op, late, got, calls>>

Async == {"deferred", "task"}

Init ==
    /\ kind \in Kinds
    /\ Mtx = None
    /\ Result = None
    /\ Ready = FALSE
    /\ Running = (kind = "task")
    /\ slot = None
    /\ waiting = {}
    /\ Refs = Cardinality(Getters) + (IF kind \in Async THEN 0 ELSE 1)
    /\ alive = TRUE
    /\ provider = IF kind \in Async THEN "gone" ELSE "held"
    /\ terminated = FALSE
    /\ pc = [t \in Actors |-> "start"]
    /\ op = [g \in Getters |-> "get"]
    /\ late = [g \in Getters |-> FALSE]
    /\ got = [g \in Getters |-> None]
    /\ calls = [g \in Getters |-> 0]

Goto(t, label) == pc' = [pc EXCEPT ![t] = label]

(* _Release and ~_Associated_state, which unregisters from the table what  *)
(* is stored and not ready.  ~_Task_async_state waits for the task.        *)
Release ==
    /\ Refs' = Refs - 1
    /\ alive' = (Refs > 1)
    /\ slot' = IF Refs = 1 /\ Result # None /\ ~Ready THEN None ELSE slot
    /\ Refs = 1 /\ kind = "task" => pc[Setter] = "exited"

-----------------------------------------------------------------------------
(* Mutant of Store: a second result replaces the first. *)
Store_again(r) ==
    /\ Result' = r
    /\ Ready' = TRUE
    /\ waiting' = {}

(* _Set_value_raw, _Set_exception_raw and _Do_notify, without thread exit; *)
(* a result that is there already makes them throw.                        *)
Store(r) ==
    IF Result # None
    THEN UNCHANGED <<Result, Ready, waiting>>
    ELSE /\ Result' = r
         /\ Ready' = TRUE
         /\ waiting' = {}

(* set_value, set_exception, operator(), the function of a task. *)
Set(r) ==
    /\ pc[Setter] \in {"start", "set"} /\ Mtx = None
    /\ provider = "held" \/ kind = "task"
    /\ Store(r)
    /\ Goto(Setter, IF kind = "task" THEN "exited" ELSE "set")
    /\ UNCHANGED <<kind, Mtx, Running, slot, Refs, alive, provider, terminated,
                   op, late, got, calls>>

(* set_value_at_thread_exit, make_ready_at_thread_exit: _Register leaves   *)
(* _Mtx locked; without memory for the table nothing is registered.        *)
Set_at_thread_exit(r) ==
    /\ pc[Setter] = "start" /\ provider = "held" /\ Mtx = None /\ Result = None
    /\ Result' = r
    /\ Mtx' = Setter
    /\ slot' \in {Setter, None}
    /\ Goto(Setter, "set")
    /\ UNCHANGED <<kind, Ready, Running, waiting, Refs, alive, provider,
                   terminated, op, late, got, calls>>

(* The end of the thread: _Cnd_do_broadcast_at_thread_exit. *)
Exit ==
    /\ pc[Setter] \in {"start", "set"} /\ kind \notin Async
    /\ IF slot = Setter
       THEN Ready' = TRUE /\ Goto(Setter, "unlock")
       ELSE Goto(Setter, "exited") /\ UNCHANGED Ready
    /\ UNCHANGED <<kind, Mtx, Result, Running, slot, waiting, Refs, alive,
                   provider, terminated, op, late, got, calls>>

Exit_unlock ==
    /\ pc[Setter] = "unlock"
    /\ Mtx' = None
    /\ Goto(Setter, "broadcast")
    /\ UNCHANGED <<kind, Result, Ready, Running, slot, waiting, Refs, alive,
                   provider, terminated, op, late, got, calls>>

Exit_broadcast ==
    /\ pc[Setter] = "broadcast"
    /\ waiting' = {}
    /\ slot' = None
    /\ Goto(Setter, "exited")
    /\ UNCHANGED <<kind, Mtx, Result, Ready, Running, Refs, alive, provider,
                   terminated, op, late, got, calls>>

-----------------------------------------------------------------------------
(* The provider is destroyed, by any thread that has no call under way:    *)
(* ~promise looks at _Ready first, without the lock.                       *)
Drop(t) ==
    /\ provider = "held" /\ pc[t] \in {"start", "set", "exited"}
    /\ IF kind = "promise" /\ Ready
       THEN provider' = "gone" /\ Release
       ELSE provider' = t /\ UNCHANGED <<Refs, alive, slot>>
    /\ UNCHANGED <<kind, Mtx, Result, Ready, Running, waiting, terminated, pc,
                   op, late, got, calls>>

(* Its second half: _Set_exception or _Abandon.  Locking a mutex the       *)
(* thread holds throws, and so does a promise that has a result.           *)
Abandon(t) ==
    /\ provider = t /\ Mtx \in {None, t}
    /\ IF Mtx = t \/ (kind = "promise" /\ Result # None)
       THEN /\ terminated' = TRUE
            /\ UNCHANGED <<Result, Ready, waiting, Refs, alive, slot, provider>>
       ELSE /\ Store("broken")
            /\ provider' = "gone"
            /\ Release
            /\ UNCHANGED terminated
    /\ UNCHANGED <<kind, Mtx, Running, pc, op, late, got, calls>>

(* Move assignment to a packaged_task: the old state is only released. *)
Assign(t) ==
    /\ kind = "packaged_task"
    /\ provider = "held" /\ pc[t] \in {"start", "set", "exited"}
    /\ provider' = "gone"
    /\ Release
    /\ UNCHANGED <<kind, Mtx, Result, Ready, Running, waiting, terminated, pc,
                   op, late, got, calls>>

-----------------------------------------------------------------------------
Call(g, o) ==
    /\ pc[g] = "start" /\ calls[g] < MaxCalls /\ provider # g
    /\ op' = [op EXCEPT ![g] = o]
    /\ late' = [late EXCEPT ![g] = FALSE]
    /\ calls' = [calls EXCEPT ![g] = @ + 1]
    /\ Goto(g, IF kind = "task" /\ o # "wait_for" THEN "task" ELSE "lock")
    /\ UNCHANGED <<kind, state, provider, terminated, got>>

Deadline_passes(g) ==
    /\ op[g] = "wait_for" /\ pc[g] \in {"lock", "asleep"} /\ ~late[g]
    /\ late' = [late EXCEPT ![g] = TRUE]
    /\ UNCHANGED <<kind, state, provider, terminated, pc, op, got, calls>>

(* _Task.wait() of wait and get *)
Task_wait(g) ==
    /\ pc[g] = "task" /\ pc[Setter] = "exited"
    /\ Goto(g, IF op[g] = "get" THEN "lock" ELSE "start")
    /\ UNCHANGED <<kind, state, provider, terminated, op, late, got, calls>>

Deferred == kind = "deferred" /\ ~Running

(* get returns what is stored and gives the future up. *)
Answer(g) ==
    /\ got' = IF op[g] = "get" THEN [got EXCEPT ![g] = Result] ELSE got
    /\ Goto(g, IF op[g] = "get" THEN "release" ELSE "start")
    /\ UNCHANGED <<Running, waiting>>

Run_deferred(g) ==
    /\ Running' = TRUE
    /\ Goto(g, "run")
    /\ UNCHANGED <<waiting, got>>

Status(g) ==
    /\ Goto(g, "start")
    /\ UNCHANGED <<Running, waiting, got>>

Sleep(g) ==
    /\ waiting' = waiting \union {g}
    /\ Goto(g, "asleep")
    /\ UNCHANGED <<Running, got>>

(* A critical section of _Wait, _Get_value or _Wait_for, at its beginning  *)
(* or after a wait; wait_for reports a deferred function and runs none.    *)
Lock(g) ==
    /\ pc[g] = "lock" /\ Mtx = None
    /\ \/ Ready /\ Answer(g)
       \/ Deferred /\ op[g] # "wait_for" /\ Run_deferred(g)
       \/ ~Ready /\ op[g] = "wait_for" /\ (Deferred \/ late[g]) /\ Status(g)
       \/ ~Ready /\ ~Deferred /\ ~late[g] /\ Sleep(g)
    /\ UNCHANGED <<kind, Mtx, Result, Ready, slot, Refs, alive, provider,
                   terminated, op, late, calls>>

(* The deferred function, outside _Mtx; then the loop on _Ready. *)
Run(g, r) ==
    /\ pc[g] = "run" /\ Mtx = None
    /\ Store(r)
    /\ Goto(g, "lock")
    /\ UNCHANGED <<kind, Mtx, Running, slot, Refs, alive, provider, terminated,
                   op, late, got, calls>>

(* _Cond.wait ends: notified, late, or without a cause. *)
Wake(g) ==
    /\ pc[g] = "asleep"
    /\ waiting' = waiting \ {g}
    /\ Goto(g, "lock")
    /\ UNCHANGED <<kind, Mtx, Result, Ready, Running, slot, Refs, alive,
                   provider, terminated, op, late, got, calls>>

(* The future is destroyed, after get or at any other time. *)
Destroy(g) ==
    /\ pc[g] = "release" \/ (pc[g] = "start" /\ provider # g)
    /\ Release
    /\ Goto(g, "gone")
    /\ UNCHANGED <<kind, Mtx, Result, Ready, Running, waiting, provider,
                   terminated, op, late, got, calls>>

-----------------------------------------------------------------------------
Results == {"value", "error"}

Provide ==
    \/ \E r \in Results : Set(r) \/ Set_at_thread_exit(r)
    \/ Exit \/ Exit_unlock \/ Exit_broadcast

Dropping(t) == Drop(t) \/ Abandon(t)

Proceed(g) ==
    \/ Task_wait(g) \/ Lock(g) \/ (\E r \in Results : Run(g, r))
    \/ (g \notin waiting \/ late[g]) /\ Wake(g)
    \/ pc[g] = "release" /\ Destroy(g)

Getting(g) ==
    \/ \E o \in {"get", "wait", "wait_for"} : Call(g, o)
    \/ Deadline_passes(g) \/ Proceed(g) \/ Wake(g) \/ Destroy(g)

Next ==
    /\ ~terminated
    /\ \/ provider # Setter /\ Provide
       \/ \E t \in Actors : Dropping(t) \/ Assign(t)
       \/ \E g \in Getters : Getting(g)

Spec == Init /\ [][Next]_vars

-----------------------------------------------------------------------------
TypeOK ==
    /\ kind \in Kinds
    /\ Mtx \in {None, Setter} /\ slot \in {None, Setter}
    /\ Result \in Results \union {None, "broken"}
    /\ Ready \in BOOLEAN /\ Running \in BOOLEAN /\ alive \in BOOLEAN
    /\ waiting \subseteq Getters
    /\ Refs \in 0 .. Cardinality(Getters) + 1
    /\ provider \in Actors \union {"held", "gone"}

(* One result: whatever a get returned is what is stored, though sets,     *)
(* abandonments, deferred runs and thread exits compete, and it is ready;  *)
(* a result that waits for the thread's exit is behind the locked mutex;   *)
(* and the state is gone exactly when nobody refers to it.                 *)
OneResult ==
    /\ \A g \in Getters : got[g] # None => got[g] = Result /\ Ready
    /\ Ready => Result # None
    /\ Result # None /\ ~Ready /\ alive => Mtx = Setter
    /\ Refs = Cardinality({g \in Getters : pc[g] # "gone"})
              + (IF provider = "gone" THEN 0 ELSE 1)
    /\ alive <=> Refs > 0

(* Nothing will make the state ready: its provider was assigned to, or     *)
(* the table of thread exits had no room.                                  *)
Orphaned ==
    /\ ~Ready
    /\ \/ kind = "packaged_task" /\ provider = "gone" /\ Result = None
       \/ Mtx = Setter /\ slot = None

(* The call of g is over, unless the state is orphaned. *)
Returned(g) == pc[g] \in {"start", "gone"} \/ Orphaned \/ terminated

=============================================================================
