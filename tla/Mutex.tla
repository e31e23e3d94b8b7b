------------------------------- MODULE Mutex ---------------------------------
(***************************************************************************)
(* The mutex and the condition variable of mutex.cpp and cond.cpp, over    *)
(* the critical section and the condition variable of primitives.hpp: a    *)
(* CONDITION_VARIABLE with an SRWLOCK, or on Vista with a CRITICAL_SECTION, *)
(* which lets its owner in again.                                          *)
(*                                                                         *)
(* mtx_do_lock reads thread_id without holding the critical section.  One  *)
(* mutex, of any of the given types, and one condition variable; a thread  *)
(* calls what its mutex type supports, unlocks only what it holds, and     *)
(* waits holding the mutex once.                                           *)
(***************************************************************************)
EXTENDS Integers

CONSTANTS
    Threads,
    Types,          \* the flag sets a mutex may be initialised with
    MaxOps          \* bound: calls made altogether

None == "none"      \* the thread id -1, and a free critical section

VARIABLES
    api,            \* the critical section: of "win7" or of "vista"
    type,           \* flags of the mutex: "try", "timed", "recursive"
    cs,             \* the thread inside the critical section
    thread_id,
    count,
    sleepers,       \* threads asleep in the condition variable
    pc,
    op,             \* the call a thread is in
    late,           \* the target time of the call has passed
    held,           \* the client's view: locks taken and not yet returned
    result,         \* what the last lock call returned
    ops

shared == <<api, type, cs, thread_id, count, sleepers>>
vars == <<api, type, cs, thread_id, count, sleepers, pc, op, late, held, result, ops>>

Plain == type \ {"recursive"} = {}

(* create_stl_critical_section, create_stl_condition_variable: what the    *)
(* mode asks for and the system has.                                       *)
Implementation(mode, win7) ==
    IF mode \in {"normal", "win7"} /\ win7 THEN "win7" ELSE "vista"

(* _Mtx_init_in_situ, _Cnd_init_in_situ *)
Init ==
    /\ \E mode \in {"normal", "win7", "vista"}, win7 \in BOOLEAN :
        api = Implementation(mode, win7)
    /\ type \in Types
    /\ cs = None
    /\ thread_id = None
    /\ count = 0
    /\ sleepers = {}
    /\ pc = [t \in Threads |-> "idle"]
    /\ op = [t \in Threads |-> "lock"]
    /\ late = [t \in Threads |-> FALSE]
    /\ held = [t \in Threads |-> 0]
    /\ result = [t \in Threads |-> "success"]
    /\ ops = 0

Goto(t, label) == pc' = [pc EXCEPT ![t] = label]

Return(t, r) ==
    /\ Goto(t, "idle")
    /\ result' = [result EXCEPT ![t] = r]

(* A call begins; its target time may be any, and time goes on. *)
Begin(t, o) ==
    /\ pc[t] = "idle" /\ ops < MaxOps
    /\ ops' = ops + 1
    /\ op' = [op EXCEPT ![t] = o]
    /\ late' = [late EXCEPT ![t] = FALSE]

Deadline_passes(t) ==
    /\ pc[t] # "idle" /\ op[t] \in {"timedlock", "timedwait"} /\ ~late[t]
    /\ late' = [late EXCEPT ![t] = TRUE]
    /\ UNCHANGED <<shared, pc, op, held, result, ops>>

(* The calls the type supports: the two assertions on type. *)
Supported(o) ==
    \/ o = "lock"
    \/ o = "trylock" /\ type \cap {"try", "timed"} # {}
    \/ o \in {"timedlock", "expired"} /\ "timed" \in type

(* A target time before the epoch makes a timed lock a single try. *)
Failure(t) == IF op[t] = "trylock" THEN "busy" ELSE "timedout"

-----------------------------------------------------------------------------
(* _Mtx_lock, _Mtx_trylock, _Mtx_timedlock: into mtx_do_lock. *)
Mtx_lock(t, o) ==
    /\ Supported(o)
    /\ Begin(t, o)
    /\ Goto(t, "owner")
    /\ UNCHANGED <<shared, held, result>>

(* The unlocked comparison of thread_id with the caller, after which the   *)
(* critical section is entered or skipped.  The loop of a timed lock looks *)
(* at the clock first.                                                     *)
Lock_owner(t) ==
    /\ pc[t] = "owner"
    /\ \/ /\ op[t] = "timedlock" /\ late[t]
          /\ Return(t, "timedout")
       \/ /\ ~(op[t] = "timedlock" /\ late[t])
          /\ Goto(t, IF thread_id = t THEN "count" ELSE "enter")
          /\ UNCHANGED result
    /\ UNCHANGED <<shared, op, late, held, ops>>

Enters_win7(t) == cs = None

Enters_vista(t) == cs = None \/ cs = t

Enters(t) == IF api = "win7" THEN Enters_win7(t) ELSE Enters_vista(t)

(* Mutant of Lock_enter: try_lock_for waits for the critical section. *)
Lock_enter_blocks(t) ==
    /\ pc[t] = "enter"
    /\ \/ /\ Enters(t)
          /\ cs' = t
          /\ Goto(t, "count")
          /\ UNCHANGED result
       \/ /\ ~Enters(t) /\ op[t] \in {"trylock", "expired"}
          /\ Return(t, Failure(t))
          /\ UNCHANGED cs
    /\ UNCHANGED <<api, type, thread_id, count, sleepers, op, late, held, ops>>

(* lock, try_lock or try_lock_for of the critical section; the last is a   *)
(* try_lock, which the loop repeats until the target time.                 *)
Lock_enter(t) ==
    /\ pc[t] = "enter"
    /\ \/ /\ Enters(t)
          /\ cs' = t
          /\ Goto(t, "count")
          /\ UNCHANGED result
       \/ /\ ~Enters(t) /\ op[t] \in {"trylock", "expired"}
          /\ Return(t, Failure(t))
          /\ UNCHANGED cs
       \/ /\ ~Enters(t) /\ op[t] = "timedlock"
          /\ Goto(t, "owner")
          /\ UNCHANGED <<cs, result>>
    /\ UNCHANGED <<api, type, thread_id, count, sleepers, op, late, held, ops>>

(* The count of the owner's locks: a plain mutex takes any number, another *)
(* one only when it is recursive.                                          *)
Lock_count(t) ==
    /\ pc[t] = "count"
    /\ IF Plain \/ count = 0 \/ "recursive" \in type
       THEN /\ count' = count + 1
            /\ thread_id' = t
            /\ held' = [held EXCEPT ![t] = @ + 1]
            /\ Return(t, "success")
       ELSE /\ Return(t, IF op[t] = "lock" THEN "busy" ELSE Failure(t))
            /\ UNCHANGED <<count, thread_id, held>>
    /\ UNCHANGED <<api, type, cs, sleepers, op, late, ops>>

(* _Mtx_unlock, without its last step. *)
Mtx_unlock(t) ==
    /\ held[t] > 0
    /\ Begin(t, "unlock")
    /\ count' = count - 1
    /\ held' = [held EXCEPT ![t] = @ - 1]
    /\ thread_id' = IF count = 1 THEN None ELSE thread_id
    /\ Goto(t, IF count = 1 THEN "leave" ELSE "idle")
    /\ UNCHANGED <<api, type, cs, sleepers, result>>

Unlock_leave(t) ==
    /\ pc[t] = "leave"
    /\ cs' = None
    /\ Goto(t, "idle")
    /\ UNCHANGED <<api, type, thread_id, count, sleepers, op, late, held, result, ops>>

-----------------------------------------------------------------------------
(* Mutant of Cnd_wait: the owner is not cleared. *)
Cnd_wait_owned(t, o) ==
    /\ held[t] = 1
    /\ Begin(t, o)
    /\ count' = count - 1
    /\ held' = [held EXCEPT ![t] = 0]
    /\ Goto(t, "sleep")
    /\ UNCHANGED <<api, type, cs, thread_id, sleepers, result>>

(* _Cnd_wait, _Cnd_timedwait: _Mtx_clear_owner. *)
Cnd_wait(t, o) ==
    /\ held[t] = 1
    /\ Begin(t, o)
    /\ thread_id' = None
    /\ count' = count - 1
    /\ held' = [held EXCEPT ![t] = 0]
    /\ Goto(t, "sleep")
    /\ UNCHANGED <<api, type, cs, sleepers, result>>

(* The system's wait: leaves the critical section and sleeps in one step.  *)
Wait_sleep(t) ==
    /\ pc[t] = "sleep"
    /\ cs' = None
    /\ sleepers' = sleepers \union {t}
    /\ Goto(t, "asleep")
    /\ UNCHANGED <<api, type, thread_id, count, op, late, held, result, ops>>

(* The sleep ends, by a wake, spuriously or by the timer of the system.    *)
Wait_wake(t) ==
    /\ pc[t] = "asleep"
    /\ sleepers' = sleepers \ {t}
    /\ \E r \in {"success", "timedout"} :
        /\ r = "timedout" => t \in sleepers /\ op[t] = "timedwait"
        /\ result' = [result EXCEPT ![t] = r]
    /\ Goto(t, "relock")
    /\ UNCHANGED <<api, type, cs, thread_id, count, op, late, held, ops>>

(* The wait returns inside the critical section. *)
Wait_relock(t) ==
    /\ pc[t] = "relock" /\ cs = None
    /\ cs' = t
    /\ Goto(t, "reset")
    /\ UNCHANGED <<api, type, thread_id, count, sleepers, op, late, held, result, ops>>

(* After the timer the clock is asked whether the target time has passed;  *)
(* _Mtx_reset_owner, and the return.                                       *)
Wait_reset(t) ==
    /\ pc[t] = "reset"
    /\ result' = [result EXCEPT ![t] = IF late[t] THEN @ ELSE "success"]
    /\ thread_id' = t
    /\ count' = count + 1
    /\ held' = [held EXCEPT ![t] = 1]
    /\ Goto(t, "idle")
    /\ UNCHANGED <<api, type, cs, sleepers, op, late, ops>>

(* _Cnd_signal, _Cnd_broadcast: WakeConditionVariable, WakeAll... *)
Cnd_signal(t) ==
    /\ Begin(t, "signal")
    /\ \/ sleepers = {} /\ UNCHANGED sleepers
       \/ \E s \in sleepers : sleepers' = sleepers \ {s}
    /\ UNCHANGED <<api, type, cs, thread_id, count, pc, held, result>>

Cnd_broadcast(t) ==
    /\ Begin(t, "broadcast")
    /\ sleepers' = {}
    /\ UNCHANGED <<api, type, cs, thread_id, count, pc, held, result>>

-----------------------------------------------------------------------------
Calls(t) ==
    \/ \E o \in {"lock", "trylock", "timedlock", "expired"} : Mtx_lock(t, o)
    \/ Mtx_unlock(t)
    \/ \E o \in {"wait", "timedwait"} : Cnd_wait(t, o)
    \/ Cnd_signal(t) \/ Cnd_broadcast(t)

Run(t) ==
    \/ Lock_owner(t) \/ Lock_enter(t) \/ Lock_count(t)
    \/ Unlock_leave(t)
    \/ Wait_sleep(t) \/ Wait_wake(t) \/ Wait_relock(t) \/ Wait_reset(t)

Next == \E t \in Threads : Calls(t) \/ Run(t) \/ Deadline_passes(t)

Spec == Init /\ [][Next]_vars

-----------------------------------------------------------------------------
Inside == {"count", "leave", "sleep", "reset"}

TypeOK ==
    /\ api \in {"win7", "vista"}
    /\ type \subseteq {"try", "timed", "recursive"}
    /\ cs \in Threads \union {None}
    /\ thread_id \in Threads \union {None}
    /\ count \in Nat
    /\ sleepers \subseteq Threads
    /\ pc \in [Threads -> {"idle", "owner", "enter", "count", "leave", "sleep",
                           "asleep", "relock", "reset"}]
    /\ op \in [Threads -> {"lock", "trylock", "timedlock", "expired", "unlock",
                           "wait", "timedwait", "signal", "broadcast"}]
    /\ late \in [Threads -> BOOLEAN]
    /\ held \in [Threads -> Nat]
    /\ result \in [Threads -> {"success", "busy", "timedout"}]
    /\ ops \in Nat

(* The owner bookkeeping of mutex.cpp agrees with the critical section,    *)
(* through every lock, unlock and wait: at most one thread holds the       *)
(* mutex, count is the number of times it does, a count of zero means that *)
(* nobody does, and thread_id names a thread only while that thread is     *)
(* inside, so the unlocked comparison in mtx_do_lock is never mistaken.    *)
OwnerAgrees ==
    /\ \A t \in Threads :
        /\ held[t] > 0 => cs = t /\ thread_id = t /\ count = held[t]
        /\ pc[t] \in Inside => cs = t
        /\ thread_id = t => held[t] > 0
    /\ count > 0 => \E t \in Threads : held[t] = count

(* t is not in a timed lock, whose loop in mtx_do_lock never blocks.       *)
Returned(t) == ~(pc[t] # "idle" /\ op[t] = "timedlock")

=============================================================================
