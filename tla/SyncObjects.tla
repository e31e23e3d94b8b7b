---------------------------- MODULE SyncObjects ----------------------------
(***************************************************************************)
(* A latch and a binary semaphore whose counters hash to the same entry of *)
(* the wait table: their waiters share its lock and its list, so the one   *)
(* must find its own waiters among those of the other.                     *)
(***************************************************************************)
EXTENDS AtomicWait

CONSTANTS
    LatchCounter,       \* &_Counter of the latch
    SemaphoreCounter,   \* &_Counter of the semaphore
    Expected,           \* the initial count of the latch
    Desired,            \* the initial count of the semaphore
    MaxOps              \* calls altogether

ASSUME CountersAssumption ==
    /\ LatchCounter # SemaphoreCounter
    /\ Addresses = {LatchCounter, SemaphoreCounter}
ASSUME CountsAssumption ==
    /\ Expected \in Nat
    /\ Desired \in {0, 1}
    /\ MaxOps \in Nat

VARIABLE ops            \* calls begun

vars == <<waitVars, ops>>

L == INSTANCE Latch WITH Counter <- LatchCounter
S == INSTANCE BinarySemaphore WITH Counter <- SemaphoreCounter

Init ==
    /\ WaitInit("idle", [a \in Addresses |->
                           IF a = LatchCounter THEN Expected ELSE Desired])
    /\ ops = 0

(* Nobody has anything to do but wait. *)
Terminating ==
    /\ \A t \in Threads : pc[t] = "asleep" \/ (pc[t] = "idle" /\ ops = MaxOps)
    /\ UNCHANGED vars

Next ==
    \/ \E t \in Threads :
        \/ L!Call(t) \/ L!Run(t)
        \/ S!Call(t) \/ S!Run(t)
        \/ WaitStep(t) /\ UNCHANGED ops
    \/ Terminating

Spec == Init /\ [][Next]_vars

(* Threads inside a call are scheduled and the clock moves on. *)
Fairness ==
    \A t \in Threads :
        /\ WF_vars(L!Run(t) \/ S!Run(t) \/ (WaitProgress(t) /\ UNCHANGED ops))
        /\ WF_vars(Deadline_passes(t) /\ UNCHANGED ops)

FairSpec == Spec /\ Fairness

-----------------------------------------------------------------------------
TypeOK ==
    /\ pc \in [Threads -> {"idle"} \cup L!Labels \cup S!Labels \cup AtomicWaitLabels]
    /\ L!CountInRange
    /\ S!CountIsBinary
    /\ Deadline \in [Threads -> {"none", "ahead", "passed"}]
    /\ ops \in 0..MaxOps

(* Nobody is forgotten, although the two objects share a table entry and   *)
(* neither counts its waiters: no thread sleeps on a latch at zero, nor in *)
(* acquire next to a unit unless another thread is awake inside a call.    *)
NobodyStranded == TypeOK /\ L!NoSleeperAtZero /\ S!EnoughWoken

(* A latch at zero lets every waiter go, every acquirer is served as long  *)
(* as there is a unit, and timed acquires end.                             *)
EveryCallReturns == L!OpenReleases /\ S!AcquirersServed /\ S!TimedReturns

=============================================================================
