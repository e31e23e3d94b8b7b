-------------------------- MODULE AtomicWaitClient --------------------------
(***************************************************************************)
(* Programs of std::atomic<T>::wait, store and notify_all or notify_one on *)
(* lock-free atomics (stl/inc/atomic), over the wait functions of module   *)
(* AtomicWait.  The threads perform up to MaxOps operations, any of:        *)
(*    - a.wait(v)                                                          *)
(*    - a.store(v); a.notify_all()                                         *)
(*    - a.notify_one() on its own                                          *)
(* so that stores, loads, notifies and sleeps interleave in every order.   *)
(***************************************************************************)
EXTENDS AtomicWait

CONSTANTS
    Values,         \* the values of an atomic object
    InitValue,      \* the value all of them start with
    MaxOps          \* operations altogether

ASSUME ValuesAssumption == InitValue \in Values
ASSUME OpsAssumption == MaxOps \in Nat

VARIABLES
    target,         \* the object a thread is about to notify
    ops,            \* operations begun
    ones,           \* history: notify_one calls on each object
    alls            \* history: notify_all calls on each object

clientVars == <<target, ops, ones, alls>>
vars == <<waitVars, clientVars>>

ClientLabels == {"idle", "wait_load", "notify_all"}

Init ==
    /\ WaitInit("idle", [a \in Addresses |-> InitValue])
    /\ target = [t \in Threads |-> CHOOSE a \in Addresses : TRUE]
    /\ ops = 0
    /\ ones = [a \in Addresses |-> 0]
    /\ alls = [a \in Addresses |-> 0]

StartOp(t) ==
    /\ pc[t] = "idle"
    /\ ops < MaxOps
    /\ ops' = ops + 1

(* a.wait(v) *)
Call_wait(t, a, v) ==
    /\ StartOp(t)
    /\ Atomic_wait(t, a, v)
    /\ UNCHANGED <<mem, tableVars, Deadline, spurious, target, ones, alls>>

Run_wait(t) ==
    /\ Atomic_wait_direct(t, "idle")
    /\ UNCHANGED clientVars

(* a.store(v), to be followed by a.notify_all(). *)
Store(t, a, v) ==
    /\ StartOp(t)
    /\ mem' = [mem EXCEPT ![a] = v]
    /\ target' = [target EXCEPT ![t] = a]
    /\ Goto(t, "notify_all")
    /\ UNCHANGED <<tableVars, argVars, spurious, ones, alls>>

Notify_all(t) ==
    /\ pc[t] = "notify_all"
    /\ Notify_all_direct(t, target[t], "idle")
    /\ alls' = [alls EXCEPT ![target[t]] = @ + 1]
    /\ UNCHANGED <<target, ops, ones>>

Notify_one(t, a) ==
    /\ StartOp(t)
    /\ Notify_one_direct(t, a, "idle")
    /\ ones' = [ones EXCEPT ![a] = @ + 1]
    /\ UNCHANGED <<target, alls>>

(* A thread that will not move again: its program is over, or it waits for *)
(* a value that nobody has replaced.                                       *)
Done(t) ==
    \/ pc[t] = "idle" /\ ops = MaxOps
    \/ pc[t] = "asleep" /\ mem[Storage[t]] = Comparand[t]

Terminating == (\A t \in Threads : Done(t)) /\ UNCHANGED vars

Next ==
    \/ \E t \in Threads :
        \/ \E a \in Addresses, v \in Values : Call_wait(t, a, v)
        \/ Run_wait(t)
        \/ WaitStep(t) /\ UNCHANGED clientVars
        \/ \E a \in Addresses, v \in Values : Store(t, a, v)
        \/ Notify_all(t)
        \/ \E a \in Addresses : Notify_one(t, a)
    \/ Terminating

Spec == Init /\ [][Next]_vars

(* A thread inside a library call is scheduled: nothing obliges a program  *)
(* to make another call, and nothing obliges a wake to be spurious.  Weak  *)
(* fairness is enough although SRWLOCK promises no order: operations are   *)
(* bounded, so the lock cannot be taken by others for ever.                *)
Fairness ==
    \A t \in Threads :
        WF_vars(\/ Run_wait(t)
                \/ WaitProgress(t) /\ UNCHANGED clientVars
                \/ Notify_all(t))

FairSpec == Spec /\ Fairness

-----------------------------------------------------------------------------
TypeOK ==
    /\ mem \in [Addresses -> Values]
    /\ pc \in [Threads -> ClientLabels \cup WaitLabels]
    /\ Lock \in Threads \cup {NoThread}
    /\ Wait_list \in Seq(Threads)
    /\ Storage \in [Threads -> Addresses]
    /\ Comparand \in [Threads -> Values]
    /\ Deadline \in [Threads -> {"none", "ahead", "passed"}]
    /\ spurious \in 0..MaxSpurious
    /\ target \in [Threads -> Addresses]
    /\ ops \in 0..MaxOps
    /\ ones \in [Addresses -> Nat]
    /\ alls \in [Addresses -> Nat]

(* The list holds a context of thread t. *)
Linked(t) == \E i \in 1..Len(Wait_list) : Wait_list[i] = t

(* No context is linked twice. *)
Distinct ==
    \A i, j \in 1..Len(Wait_list) : Wait_list[i] = Wait_list[j] => i = j

(* The contexts live on the stacks of the waiting threads, so the list     *)
(* must hold the context of a thread exactly while that thread is between  *)
(* the constructor and the destructor of its _Guarded_wait_context, and    *)
(* hold it once: a context left behind or linked twice is a dangling       *)
(* pointer for the next notify.                                            *)
ListIntegrity ==
    /\ \A t \in Threads : Linked(t) <=> Srwlock /\ pc[t] \in LinkedLabels
    /\ Distinct

(* The lock of the entry is owned exactly by the thread that compares or   *)
(* is about to sleep.                                                      *)
LockOwner == \A t \in Threads : Lock = t <=> pc[t] \in OwnerLabels

(* WaitOnAddress leaves the table alone. *)
LevelLabels ==
    ~Srwlock => \A t \in Threads :
        pc[t] \notin {"compare", "sleep", "awake", "expired"}

(* The table entry agrees with the threads that wait in it. *)
EntryIntegrity == ListIntegrity /\ LockOwner /\ LevelLabels

(* No lost wake ("under lock to prevent lost wakes", atomic_wait.cpp:297): *)
(* a thread sleeps, or has decided to, on a value that is already replaced *)
(* only while the thread that replaced it has its notify_all still to do.  *)
NoMissedWake ==
    \A t \in Threads :
        pc[t] \in {"sleep", "asleep"} /\ mem[Storage[t]] # Comparand[t]
            => \E u \in Threads :
                    pc[u] = "notify_all" /\ target[u] = Storage[t]

(* The wait table implements the contract of module AddressWait: a thread  *)
(* counts as blocked from the comparison that found the value unchanged to *)
(* the wake, the time-out or the spurious wake that ends its sleep.        *)
CallOf(t) == [thread |-> t, addr |-> Storage[t], val |-> Comparand[t]]

Calls == {CallOf(t) : t \in {u \in Threads : pc[u] \in WaitLabels}}

BlockedCalls ==
    {CallOf(t) : t \in {u \in Threads : pc[u] \in {"sleep", "asleep"}}}

Contract == INSTANCE AddressWait WITH calls <- Calls, blocked <- BlockedCalls

ContractSpec == Contract!Spec

(* A wait on a value that is replaced for good returns: no thread stays in *)
(* wait(v) for ever while the object never again holds v.                  *)
ChangedWaitReturns ==
    \A t \in Threads :
        []<>~( /\ pc[t] \in AtomicWaitLabels
               /\ mem[Storage[t]] # Comparand[t] )

=============================================================================
