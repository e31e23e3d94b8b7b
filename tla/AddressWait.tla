---------------------------- MODULE AddressWait ----------------------------
(***************************************************************************)
(* What __std_atomic_wait_direct, __std_atomic_notify_one_direct and       *)
(* __std_atomic_notify_all_direct promise their callers (the contract that *)
(* stl/inc/xatomic_wait.h refers to, "the same as the WaitOnAddress        *)
(* function"), with no table, lock or list: a call blocks only if the      *)
(* object holds the value it was given, may return for no reason, and is   *)
(* unblocked by every notify_all on its object.                            *)
(*                                                                         *)
(* notify_one is promised only what both implementations give: if a call   *)
(* is blocked on the object, then some call on the object is unblocked     *)
(* afterwards, but that call may be one that was unblocked before and has  *)
(* not returned yet.  module Semaphore shows what that costs.              *)
(***************************************************************************)
EXTENDS Naturals

CONSTANTS Threads, Addresses, Values, InitValue

VARIABLES
    mem,        \* the values of the atomic objects
    calls,      \* the wait calls that have begun and not returned
    blocked,    \* those that are blocked
    ones,       \* history: notify_one calls on each object
    alls        \* history: notify_all calls on each object

aVars == <<mem, calls, blocked, ones, alls>>

Call == [thread : Threads, addr : Addresses, val : Values]

On(a) == {c \in calls : c.addr = a}

Init ==
    /\ mem = [a \in Addresses |-> InitValue]
    /\ calls = {}
    /\ blocked = {}
    /\ ones = [a \in Addresses |-> 0]
    /\ alls = [a \in Addresses |-> 0]

Write(a, v) ==
    /\ mem' = [mem EXCEPT ![a] = v]
    /\ UNCHANGED <<calls, blocked, ones, alls>>

Begin(c) ==
    /\ \A d \in calls : d.thread # c.thread
    /\ calls' = calls \cup {c}
    /\ UNCHANGED <<mem, blocked, ones, alls>>

Block(c) ==
    /\ c \in calls \ blocked
    /\ mem[c.addr] = c.val
    /\ blocked' = blocked \cup {c}
    /\ UNCHANGED <<mem, calls, ones, alls>>

Unblock(c) ==
    /\ c \in blocked
    /\ blocked' = blocked \ {c}
    /\ UNCHANGED <<mem, calls, ones, alls>>

Return(c) ==
    /\ c \in calls \ blocked
    /\ calls' = calls \ {c}
    /\ UNCHANGED <<mem, blocked, ones, alls>>

WakeOne(a) ==
    /\ ones' = [ones EXCEPT ![a] = @ + 1]
    /\ \/ /\ On(a) \cap blocked = {}
          /\ UNCHANGED blocked
       \/ \E c \in On(a) : blocked' = blocked \ {c}
    /\ UNCHANGED <<mem, calls, alls>>

WakeAll(a) ==
    /\ alls' = [alls EXCEPT ![a] = @ + 1]
    /\ blocked' = blocked \ On(a)
    /\ UNCHANGED <<mem, calls, ones>>

Next ==
    \/ \E a \in Addresses : WakeOne(a) \/ WakeAll(a)
    \/ \E a \in Addresses, v \in Values : Write(a, v)
    \/ \E c \in Call : Begin(c) \/ Block(c) \/ Unblock(c) \/ Return(c)

Spec == Init /\ [][Next]_aVars

=============================================================================
