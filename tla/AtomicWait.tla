----------------------------- MODULE AtomicWait -----------------------------
(***************************************************************************)
(* The wait and notify functions of stl/src/atomic_wait.cpp, as the        *)
(* mechanism that std::atomic::wait, counting_semaphore, latch and barrier *)
(* are built on.  A client module EXTENDS this one, adds its own labels to *)
(* pc, and calls Wait_direct, Notify_one_direct and Notify_all_direct.     *)
(*                                                                         *)
(* One entry of the 256 entry wait table is modelled: every address in     *)
(* Addresses hashes to it, so its lock and its list are shared by waits    *)
(* on unrelated objects.  Entries never interact.                          *)
(*                                                                         *)
(* The API level is settled before the first wait (module WaitFunctions    *)
(* models how it is settled).  At "has_srwlock" a wait links a context     *)
(* into the entry under its SRWLOCK and sleeps on a CONDITION_VARIABLE of  *)
(* its own; at "has_wait_on_address" it is one call of WaitOnAddress.      *)
(***************************************************************************)
EXTENDS Integers, Sequences, FiniteSets

CONSTANTS
    Threads,        \* the threads of the program
    Addresses,      \* addresses of atomic objects, all hashing to the entry
    NoThread,       \* the owner of a free lock
    Api_level,      \* the settled __std_atomic_api_level
    MaxSpurious     \* how many spurious wakes a behaviour may contain

ASSUME NoThreadAssumption == NoThread \notin Threads
ASSUME ApiLevelAssumption ==
    Api_level \in {"has_srwlock", "has_wait_on_address"}
ASSUME AddressesAssumption == Addresses # {}
ASSUME SpuriousAssumption == MaxSpurious \in Nat

VARIABLES
    mem,            \* the values of the atomic objects
    pc,             \* where each thread is, in its client or in the wait
    Lock,           \* the owner of _Wait_table_entry::_Lock
    Wait_list,      \* the threads whose contexts are linked, oldest first
    Storage,        \* the address of each thread's current wait
    Comparand,      \* the value it waits to see replaced
    Deadline,       \* of the operation it is in: "none", "ahead" or "passed"
    spurious        \* spurious wakes so far

tableVars == <<Lock, Wait_list>>
argVars   == <<Storage, Comparand, Deadline>>
waitVars  == <<mem, pc, Lock, Wait_list, Storage, Comparand, Deadline, spurious>>

-----------------------------------------------------------------------------
(* Labels of a thread that is inside __std_atomic_wait_direct.             *)

(* Its context is linked into the entry. *)
LinkedLabels == {"compare", "sleep", "asleep", "awake", "expired"}

(* It owns the lock of the entry. *)
OwnerLabels == {"compare", "sleep"}

WaitLabels == LinkedLabels \cup {"enter", "ret"}

(* Labels of a thread that is inside atomic::wait. *)
AtomicWaitLabels == WaitLabels \cup {"wait_load"}

Srwlock == Api_level = "has_srwlock"

Timed(t) == Deadline[t] # "none"

Goto(t, label) == pc' = [pc EXCEPT ![t] = label]

(* The list once the neighbours of a context are linked to each other. *)
Without(list, i) == SubSeq(list, 1, i - 1) \o SubSeq(list, i + 1, Len(list))

(* Mutant of Unlink: the destructor leaves the context linked. *)
Unlink_leaks(t) == Wait_list' = Wait_list

(* ~_Guarded_wait_context *)
Unlink(t) ==
    \E i \in 1..Len(Wait_list) :
        /\ Wait_list[i] = t
        /\ Wait_list' = Without(Wait_list, i)

-----------------------------------------------------------------------------
(* __std_atomic_wait_direct(a, &v, size, timeout): the client's step that  *)
(* makes the call.  The client goes on from label "ret".  The time limit   *)
(* is finite when the operation has a deadline.                            *)
Wait_direct(t, a, v) ==
    /\ Goto(t, "enter")
    /\ Storage'   = [Storage EXCEPT ![t] = a]
    /\ Comparand' = [Comparand EXCEPT ![t] = v]

(* Take the lock of the entry, link a context at the tail. *)
Wait_enter(t) ==
    /\ Srwlock
    /\ pc[t] = "enter"
    /\ Lock = NoThread
    /\ Lock' = t
    /\ Wait_list' = Append(Wait_list, t)
    /\ Goto(t, "compare")
    /\ UNCHANGED <<mem, argVars, spurious>>

(* Mutant of Wait_compare: the comparison is made before the lock is taken *)
(* (here: the lock is not held between the comparison and the sleep).      *)
Wait_compare_unlocked(t) ==
    /\ pc[t] = "compare"
    /\ Lock' = NoThread
    /\ \/ /\ mem[Storage[t]] = Comparand[t]
          /\ Goto(t, "sleep")
          /\ UNCHANGED Wait_list
       \/ /\ mem[Storage[t]] # Comparand[t]
          /\ Unlink(t)
          /\ Goto(t, "ret")
    /\ UNCHANGED <<mem, argVars, spurious>>

(* _Are_equal, under the lock; a different value ends the wait. *)
Wait_compare(t) ==
    /\ pc[t] = "compare"
    /\ \/ /\ mem[Storage[t]] = Comparand[t]
          /\ Goto(t, "sleep")
          /\ UNCHANGED tableVars
       \/ /\ mem[Storage[t]] # Comparand[t]
          /\ Unlink(t)
          /\ Lock' = NoThread
          /\ Goto(t, "ret")
    /\ UNCHANGED <<mem, argVars, spurious>>

(* SleepConditionVariableSRW releases the lock and blocks in one step. *)
Wait_sleep(t) ==
    /\ pc[t] = "sleep"
    /\ Lock' = NoThread
    /\ Goto(t, "asleep")
    /\ UNCHANGED <<mem, Wait_list, argVars, spurious>>

(* A thread the sleep lets go without a wake.  SleepConditionVariableSRW   *)
(* has to take the lock again; WaitOnAddress simply returns.               *)
Wait_spurious(t) ==
    /\ pc[t] = "asleep"
    /\ spurious < MaxSpurious
    /\ spurious' = spurious + 1
    /\ Goto(t, IF Srwlock THEN "awake" ELSE "ret")
    /\ UNCHANGED <<mem, tableVars, argVars>>

(* The clock reaches the deadline of an operation. *)
Deadline_passes(t) ==
    /\ Deadline[t] = "ahead"
    /\ Deadline' = [Deadline EXCEPT ![t] = "passed"]
    /\ UNCHANGED <<mem, pc, tableVars, Storage, Comparand, spurious>>

(* The time limit of a timed wait is reached.  It is at most ten days, so  *)
(* the deadline may still be ahead.                                        *)
Wait_timeout(t) ==
    /\ pc[t] = "asleep"
    /\ Timed(t)
    /\ Goto(t, IF Srwlock THEN "expired" ELSE "ret")
    /\ UNCHANGED <<mem, tableVars, argVars, spurious>>

(* The sleep takes the lock again.  An untimed wait compares again; a      *)
(* timed one returns, whether it was woken or expired, for its caller to   *)
(* look at the clock: it unlinks its context and drops the lock.           *)
Wait_relock(t) ==
    /\ pc[t] \in {"awake", "expired"}
    /\ Lock = NoThread
    /\ \/ /\ ~Timed(t)
          /\ Lock' = t
          /\ Goto(t, "compare")
          /\ UNCHANGED Wait_list
       \/ /\ Timed(t)
          /\ Unlink(t)
          /\ Goto(t, "ret")
          /\ UNCHANGED Lock
    /\ UNCHANGED <<mem, argVars, spurious>>

(* WaitOnAddress compares and blocks in one step (Windows, external). *)
Wait_on_address(t) ==
    /\ ~Srwlock
    /\ pc[t] = "enter"
    /\ Goto(t, IF mem[Storage[t]] = Comparand[t] THEN "asleep" ELSE "ret")
    /\ UNCHANGED <<mem, tableVars, argVars, spurious>>

WaitStep(t) ==
    \/ Wait_enter(t)
    \/ Wait_compare(t)
    \/ Wait_sleep(t)
    \/ Wait_spurious(t)
    \/ Wait_timeout(t)
    \/ Deadline_passes(t)
    \/ Wait_relock(t)
    \/ Wait_on_address(t)

(* What the scheduler owes a thread: every step but the spurious wake. *)
WaitProgress(t) ==
    \/ Wait_enter(t)
    \/ Wait_compare(t)
    \/ Wait_sleep(t)
    \/ Wait_timeout(t)
    \/ Deadline_passes(t)
    \/ Wait_relock(t)
    \/ Wait_on_address(t)

-----------------------------------------------------------------------------
(* atomic::wait(v) on a lock-free object, which has no time limit: the     *)
(* call, to be followed by Atomic_wait_direct.                             *)
Atomic_wait(t, a, v) ==
    /\ Goto(t, "wait_load")
    /\ Storage'   = [Storage EXCEPT ![t] = a]
    /\ Comparand' = [Comparand EXCEPT ![t] = v]

(* One turn of the loop of _Atomic_wait_direct: load; if the value differs *)
(* return to label next, otherwise wait and come back.                     *)
Atomic_wait_direct(t, next) ==
    /\ pc[t] \in {"wait_load", "ret"}
    /\ \/ /\ mem[Storage[t]] = Comparand[t]
          /\ Wait_direct(t, Storage[t], Comparand[t])
       \/ /\ mem[Storage[t]] # Comparand[t]
          /\ Goto(t, next)
          /\ UNCHANGED <<Storage, Comparand>>
    /\ UNCHANGED <<mem, tableVars, Deadline, spurious>>

-----------------------------------------------------------------------------
(* The notify functions: steps of a client thread t that then goes to      *)
(* label next.  The critical section is one step: whoever else could see   *)
(* the entry needs its lock.                                               *)

(* The indices of the contexts linked for address a. *)
Matching(a) == {i \in 1..Len(Wait_list) : Storage[Wait_list[i]] = a}

(* The threads blocked by WaitOnAddress on a (external). *)
Blocked(a) == {u \in Threads : pc[u] = "asleep" /\ Storage[u] = a}

(* WakeAllConditionVariable on the contexts of the threads in S: a thread  *)
(* that is not asleep does not notice.                                     *)
WakeContexts(S) ==
    [u \in Threads |-> IF u \in S /\ pc[u] = "asleep" THEN "awake" ELSE pc[u]]

(* WakeByAddress: the calls of the threads in S return (external). *)
WakeByAddress(S) ==
    [u \in Threads |-> IF u \in S THEN "ret" ELSE pc[u]]

(* Mutant of Notify_one_indirect: the address of the context is ignored. *)
Notify_one_any_context(t, a, next) ==
    /\ Lock = NoThread
    /\ \/ /\ Wait_list = <<>>
          /\ Goto(t, next)
       \/ /\ Wait_list # <<>>
          /\ pc' = [WakeContexts({Head(Wait_list)}) EXCEPT ![t] = next]
    /\ UNCHANGED <<mem, tableVars, argVars, spurious>>

(* The first matching context in list order, and no other. *)
Notify_one_indirect(t, a, next) ==
    /\ Lock = NoThread
    /\ \/ /\ Matching(a) = {}
          /\ Goto(t, next)
       \/ \E i \in Matching(a) :
            /\ \A j \in Matching(a) : i <= j
            /\ pc' = [WakeContexts({Wait_list[i]}) EXCEPT ![t] = next]
    /\ UNCHANGED <<mem, tableVars, argVars, spurious>>

Notify_all_indirect(t, a, next) ==
    /\ Lock = NoThread
    /\ pc' = [WakeContexts({Wait_list[i] : i \in Matching(a)})
                 EXCEPT ![t] = next]
    /\ UNCHANGED <<mem, tableVars, argVars, spurious>>

Notify_one_direct(t, a, next) ==
    \/ Srwlock /\ Notify_one_indirect(t, a, next)
    \/ /\ ~Srwlock
       /\ \/ /\ Blocked(a) = {}
             /\ Goto(t, next)
          \/ \E u \in Blocked(a) :
                pc' = [WakeByAddress({u}) EXCEPT ![t] = next]
       /\ UNCHANGED <<mem, tableVars, argVars, spurious>>

(* Mutant of Notify_all_direct: only one waiter is woken. *)
Notify_all_single(t, a, next) == Notify_one_direct(t, a, next)

Notify_all_direct(t, a, next) ==
    \/ Srwlock /\ Notify_all_indirect(t, a, next)
    \/ /\ ~Srwlock
       /\ pc' = [WakeByAddress(Blocked(a)) EXCEPT ![t] = next]
       /\ UNCHANGED <<mem, tableVars, argVars, spurious>>

-----------------------------------------------------------------------------
(* The wait table as it is before any wait. *)
WaitInit(label, values) ==
    /\ mem = values
    /\ pc = [t \in Threads |-> label]
    /\ Lock = NoThread
    /\ Wait_list = <<>>
    /\ Storage   = [t \in Threads |-> CHOOSE a \in Addresses : TRUE]
    /\ Comparand = [t \in Threads |-> values[CHOOSE a \in Addresses : TRUE]]
    /\ Deadline  = [t \in Threads |-> "none"]
    /\ spurious  = 0

=============================================================================
