--------------------------- MODULE SharedTimedMutex ---------------------------
(***************************************************************************)
(* shared_timed_mutex: _Readers and _Writing under _Mymtx, with two        *)
(* condition variables: _Write_queue for everybody who waits for a writer  *)
(* (or for the number of readers) to go, _Read_queue for the one writer    *)
(* that has set _Writing and waits for the readers to leave.  As in        *)
(* TimedMutex a critical section is one step; the notifications come after *)
(* it, decided from values read inside it.                                 *)
(***************************************************************************)
EXTENDS Integers, FiniteSets

CONSTANTS
    Threads,
    Max_readers,
    MaxOps          \* bound: calls made altogether

VARIABLES
    Readers,
    Writing,
    Write_queue,    \* threads asleep in _Write_queue
    Read_queue,     \* threads asleep in _Read_queue
    pc,
    op,
    late,           \* the _Abs_time of the call has passed
    holds,          \* the client's view: "no", "shared" or "exclusive"
    ops

vars == <<Readers, Writing, Write_queue, Read_queue, pc, op, late, holds, ops>>

Exclusively == {"lock", "try_lock", "try_lock_until"}
Shared == {"lock_shared", "try_lock_shared", "try_lock_shared_until"}
Tries == {"try_lock", "try_lock_shared"}
Timed == {"try_lock_until", "try_lock_shared_until"}

Init ==
    /\ Readers = 0
    /\ Writing = FALSE
    /\ Write_queue = {}
    /\ Read_queue = {}
    /\ pc = [t \in Threads |-> "idle"]
    /\ op = [t \in Threads |-> "lock"]
    /\ late = [t \in Threads |-> FALSE]
    /\ holds = [t \in Threads |-> "no"]
    /\ ops = 0

Goto(t, label) == pc' = [pc EXCEPT ![t] = label]

Granted(t, how) ==
    /\ holds' = [holds EXCEPT ![t] = how]
    /\ Goto(t, "idle")

Deadline_passes(t) ==
    /\ pc[t] # "idle" /\ op[t] \in Timed /\ ~late[t]
    /\ late' = [late EXCEPT ![t] = TRUE]
    /\ UNCHANGED <<Readers, Writing, Write_queue, Read_queue, pc, op, holds, ops>>

Call(t, o) ==
    /\ pc[t] = "idle" /\ holds[t] = "no" /\ ops < MaxOps
    /\ ops' = ops + 1
    /\ op' = [op EXCEPT ![t] = o]
    /\ late' = [late EXCEPT ![t] = FALSE]
    /\ Goto(t, IF o \in Shared THEN "enter_shared" ELSE "enter")
    /\ UNCHANGED <<Readers, Writing, Write_queue, Read_queue, holds>>

(* The condition of a loop does not hold: a try and a late timed call      *)
(* return false, the others sleep in _Write_queue.                         *)
Refuse(t) ==
    /\ IF op[t] \in Tries \/ late[t]
       THEN Goto(t, "idle") /\ UNCHANGED Write_queue
       ELSE Goto(t, "asleep") /\ Write_queue' = Write_queue \union {t}
    /\ UNCHANGED <<Readers, Writing, Read_queue, holds>>

(* is late leaves the writing state and will notify _Write_queue.          *)
Drain(t) ==
    \/ /\ Readers = 0
       /\ Granted(t, "exclusive")
       /\ Writing' = TRUE
       /\ UNCHANGED Read_queue
    \/ /\ Readers > 0 /\ ~late[t]
       /\ Read_queue' = Read_queue \union {t}
       /\ Goto(t, "draining")
       /\ Writing' = TRUE
       /\ UNCHANGED holds
    \/ /\ Readers > 0 /\ late[t]
       /\ Writing' = FALSE
       /\ Goto(t, "notify_writers")
       /\ UNCHANGED <<Read_queue, holds>>

(* lock, try_lock, try_lock_until: a critical section up to a wait in      *)
(* _Write_queue or _Read_queue, or to the end.                             *)
Enter(t) ==
    /\ pc[t] = "enter"
    /\ \/ /\ Writing \/ (op[t] = "try_lock" /\ Readers > 0)
          /\ Refuse(t)
       \/ /\ ~Writing /\ (op[t] = "try_lock" => Readers = 0)
          /\ Drain(t)
          /\ UNCHANGED <<Readers, Write_queue>>
    /\ UNCHANGED <<op, late, ops>>

(* lock_shared, try_lock_shared, try_lock_shared_until *)
Enter_shared(t) ==
    /\ pc[t] = "enter_shared"
    /\ \/ /\ Writing \/ Readers = Max_readers
          /\ Refuse(t)
       \/ /\ ~Writing /\ Readers < Max_readers
          /\ Readers' = Readers + 1
          /\ Granted(t, "shared")
          /\ UNCHANGED <<Writing, Write_queue, Read_queue>>
    /\ UNCHANGED <<op, late, ops>>

(* The wait in _Write_queue ends. *)
Wake(t) ==
    /\ pc[t] = "asleep"
    /\ Write_queue' = Write_queue \ {t}
    /\ Goto(t, IF op[t] \in Shared THEN "enter_shared" ELSE "enter")
    /\ UNCHANGED <<Readers, Writing, Read_queue, op, late, holds, ops>>

(* The wait in _Read_queue ends, and its loop goes on. *)
Wake_drain(t) ==
    /\ pc[t] = "draining"
    /\ Read_queue' = Read_queue \ {t}
    /\ Goto(t, "drain")
    /\ UNCHANGED <<Readers, Writing, Write_queue, op, late, holds, ops>>

Drain_again(t) ==
    /\ pc[t] = "drain"
    /\ Drain(t)
    /\ UNCHANGED <<Readers, Write_queue, op, late, ops>>

(* unlock: the critical section. *)
Unlock(t) ==
    /\ pc[t] = "idle" /\ holds[t] = "exclusive"
    /\ Writing' = FALSE
    /\ holds' = [holds EXCEPT ![t] = "no"]
    /\ Goto(t, "notify_writers")
    /\ UNCHANGED <<Readers, Write_queue, Read_queue, op, late, ops>>

(* unlock_shared: the critical section and the decision whom to notify:    *)
(* _Local_readers and _Local_writing.                                      *)
Unlock_shared(t) ==
    /\ pc[t] = "idle" /\ holds[t] = "shared"
    /\ Readers' = Readers - 1
    /\ holds' = [holds EXCEPT ![t] = "no"]
    /\ Goto(t, IF Writing /\ Readers' = 0 THEN "notify_reader"
               ELSE IF ~Writing /\ Readers' = Max_readers - 1
                    THEN "notify_writers" ELSE "idle")
    /\ UNCHANGED <<Writing, Write_queue, Read_queue, op, late, ops>>

(* _Write_queue.notify_all, _Read_queue.notify_one *)
Notify(t) ==
    /\ pc[t] \in {"notify_writers", "notify_reader"}
    /\ IF pc[t] = "notify_writers"
       THEN Write_queue' = {} /\ UNCHANGED Read_queue
       ELSE /\ \/ Read_queue = {} /\ UNCHANGED Read_queue
               \/ \E w \in Read_queue : Read_queue' = Read_queue \ {w}
            /\ UNCHANGED Write_queue
    /\ Goto(t, "idle")
    /\ UNCHANGED <<Readers, Writing, op, late, holds, ops>>

-----------------------------------------------------------------------------
Step(t) ==
    \/ Enter(t) \/ Enter_shared(t) \/ Drain_again(t) \/ Notify(t)
    \/ Unlock(t) \/ Unlock_shared(t)

Next ==
    \E t \in Threads :
        \/ \E o \in Exclusively \union Shared : Call(t, o)
        \/ Step(t) \/ Wake(t) \/ Wake_drain(t) \/ Deadline_passes(t)

(* A wait ends when it is notified, or when it is late. *)
Progress(t) ==
    \/ Step(t)
    \/ (t \notin Write_queue \/ late[t]) /\ Wake(t)
    \/ (t \notin Read_queue \/ late[t]) /\ Wake_drain(t)

Spec == Init /\ [][Next]_vars

-----------------------------------------------------------------------------
TypeOK ==
    /\ Readers \in 0 .. Max_readers
    /\ Writing \in BOOLEAN
    /\ Write_queue \subseteq Threads
    /\ Read_queue \subseteq Threads
    /\ pc \in [Threads -> {"idle", "enter", "enter_shared", "asleep", "drain",
                           "draining", "notify_writers", "notify_reader"}]
    /\ op \in [Threads -> Exclusively \union Shared]
    /\ late \in [Threads -> BOOLEAN]
    /\ holds \in [Threads -> {"no", "shared", "exclusive"}]
    /\ ops \in 0 .. MaxOps

Holding(how) == {t \in Threads : holds[t] = how}

(* A writer is alone, _Readers counts the readers, and _Writing is set for *)
(* exactly one thread, which holds the mutex or waits for the readers.     *)
ReadersOrWriter ==
    /\ Holding("exclusive") # {} => Holding("shared") = {}
    /\ Readers = Cardinality(Holding("shared"))
    /\ Cardinality(Holding("exclusive")
                   \union {t \in Threads : pc[t] \in {"drain", "draining"}})
        = IF Writing THEN 1 ELSE 0

(* Nobody sleeps on for a condition that holds: a notification is under    *)
(* way, although it was decided from values that may be stale when it is   *)
(* given.                                                                  *)
NobodyStranded ==
    /\ Write_queue # {} /\ ~Writing /\ Readers < Max_readers =>
        \E t \in Threads : pc[t] = "notify_writers"
    /\ Read_queue # {} /\ Readers = 0 =>
        \E t \in Threads : pc[t] = "notify_reader"

Returned(t) == pc[t] = "idle"

=============================================================================
