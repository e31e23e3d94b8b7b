----------------------------- MODULE TaskScheduler -----------------------------
(***************************************************************************)
(* taskscheduler.cpp: the tasks of std::async on the system's thread pool, *)
(* the count of outstanding tasks that holds up the exit of a program with *)
(* the library linked in, and the reference each task holds to the DLL of  *)
(* its callback otherwise.  A critical section of _Task_cv_mutex is one    *)
(* step; the notification comes after it.                                  *)
(***************************************************************************)
EXTENDS Integers, FiniteSets

CONSTANTS
    Tasks,
    Hosts           \* of the library: "Exe", "Dll" or "Unknown"

VARIABLES
    host,           \* _Get_STL_host_status
    resolves,       \* whether GetModuleHandleExW finds the callback's DLL
    Outstanding_tasks,
    main,           \* "running", "waiting" in _Task_cv, "exited"
    woken,          \* main has been notified
    pc,             \* of each task
    loaded,         \* references to the callback's DLL
    left            \* ghost: the tasks whose callback main did not wait for

vars == <<host, resolves, Outstanding_tasks, main, woken, pc, loaded, left>>

Init ==
    /\ host \in Hosts
    /\ resolves \in BOOLEAN
    /\ Outstanding_tasks = 0
    /\ main = "running"
    /\ woken = FALSE
    /\ pc = [t \in Tasks |-> "none"]
    /\ loaded = 0
    /\ left = {}

Goto(t, label) == pc' = [pc EXCEPT ![t] = label]
Counts == host # "Dll"
Refers == host # "Exe" /\ resolves
Running(t) == pc[t] = "callback"

(* _Schedule_chore, _Reschedule_chore: CreateThreadpoolWork may fail; a    *)
(* task that has run may be submitted again.                               *)
Schedule_chore(t) ==
    /\ main # "exited" /\ pc[t] \in {"none", "done"}
    /\ \/ /\ Goto(t, "submitted")
          /\ loaded' = IF Refers THEN loaded + 1 ELSE loaded
       \/ pc[t] = "none" /\ UNCHANGED <<pc, loaded>>
    /\ UNCHANGED <<host, resolves, Outstanding_tasks, main, woken, left>>

(* _Task_scheduler_callback: _Increment_outstanding *)
Increment_outstanding(t) ==
    /\ pc[t] = "submitted"
    /\ Outstanding_tasks' = IF Counts THEN Outstanding_tasks + 1 ELSE Outstanding_tasks
    /\ Goto(t, "callback")
    /\ UNCHANGED <<host, resolves, main, woken, loaded, left>>

(* _M_callback has returned: _Decrement_outstanding, its critical section. *)
Decrement_outstanding(t) ==
    /\ pc[t] = "callback"
    /\ Outstanding_tasks' = IF Counts THEN Outstanding_tasks - 1 ELSE Outstanding_tasks
    /\ Goto(t, IF Counts /\ Outstanding_tasks = 1 THEN "notify" ELSE "return")
    /\ UNCHANGED <<host, resolves, main, woken, loaded, left>>

(* Mutant of Notify: the last task wakes nobody. *)
Notify_nobody(t) ==
    /\ pc[t] = "notify"
    /\ Goto(t, "return")
    /\ UNCHANGED <<host, resolves, Outstanding_tasks, main, woken, loaded, left>>

Notify(t) ==
    /\ pc[t] = "notify"
    /\ woken' = (main = "waiting" \/ woken)
    /\ Goto(t, "return")
    /\ UNCHANGED <<host, resolves, Outstanding_tasks, main, loaded, left>>

(* FreeLibraryWhenCallbackReturns *)
Callback_returns(t) ==
    /\ pc[t] = "return"
    /\ loaded' = IF Refers THEN loaded - 1 ELSE loaded
    /\ Goto(t, "done")
    /\ UNCHANGED <<host, resolves, Outstanding_tasks, main, woken, left>>

(* ~_Task_scheduler_main_block: _Task_cv.wait, from the start or after a   *)
(* wake, which may have no cause; then the library's locks are destroyed.  *)
(* When the library is a DLL of its own there is no such block, and no     *)
(* count.                                                                  *)
Exit ==
    /\ main \in {"running", "waiting"}
    /\ main' = IF Outstanding_tasks = 0 THEN "exited" ELSE "waiting"
    /\ woken' = FALSE
    /\ left' = {t \in Tasks : main' = "exited" /\ Running(t)}
    /\ UNCHANGED <<host, resolves, Outstanding_tasks, pc, loaded>>

-----------------------------------------------------------------------------
Run(t) ==
    \/ Increment_outstanding(t) \/ Decrement_outstanding(t)
    \/ Notify(t) \/ Callback_returns(t)

Next == Exit \/ \E t \in Tasks : Schedule_chore(t) \/ Run(t)

Spec == Init /\ [][Next]_vars

-----------------------------------------------------------------------------
(* A program that counts its tasks does not leave ~_Task_scheduler_main_   *)
(* block while a callback runs, and is woken by the last of them.  Tasks   *)
(* that the pool has not begun are not counted, and may begin later.  The  *)
(* DLL of a callback stays loaded from the submission until the callback   *)
(* has returned.                                                           *)
ExitWaits ==
    /\ Counts => left = {}
    /\ Outstanding_tasks = IF Counts THEN Cardinality({t \in Tasks : Running(t)}) ELSE 0
    /\ main = "waiting" /\ Outstanding_tasks = 0 =>
        woken \/ \E t \in Tasks : pc[t] = "notify"
    /\ Refers => loaded = Cardinality({t \in Tasks : pc[t] \notin {"none", "done"}})

=============================================================================
