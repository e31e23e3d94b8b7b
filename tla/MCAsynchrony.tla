----------------------------- MODULE MCAsynchrony ------------------------------
(***************************************************************************)
(* What threads wait for each other with, one in each behaviour: the stop  *)
(* state of <stop_token>, condition_variable_any with interruptible waits, *)
(* and the shared state of <future>.  part says which one runs; the others *)
(* stay as they are.                                                       *)
(***************************************************************************)
EXTENDS StopToken

CONSTANTS Ops, MaxSpurious, Kinds, MaxCalls

VARIABLES
    part,
    outer, inner, sleeping, ready, stop, cb, vPc, vOp, vLate, spurious,
    kind, Mtx, Result, Ready, Running, slot, waiting, Refs, alive,
    provider, terminated, fPc, fOp, fLate, got, fCalls

waitVars == <<outer, inner, sleeping, ready, stop, cb, vPc, vOp, vLate, spurious>>
futureVars == <<kind, Mtx, Result, Ready, Running, slot, waiting, Refs, alive,
                provider, terminated, fPc, fOp, fLate, got, fCalls>>
all == <<part, vars, waitVars, futureVars>>

V == INSTANCE ConditionVariableAny WITH
        Waiters <- Threads, pc <- vPc, op <- vOp, late <- vLate
F == INSTANCE Future WITH
        Getters <- Threads, pc <- fPc, op <- fOp, late <- fLate, calls <- fCalls

MCInit ==
    /\ part \in {"stop", "wait", "future"}
    /\ Init /\ V!Init /\ F!Init
    /\ part # "wait" => \A t \in Threads : vOp[t] = "wait"
    /\ part # "future" => kind = "promise"

MCNext ==
    \/ part = "stop" /\ Next /\ UNCHANGED <<part, waitVars, futureVars>>
    \/ part = "wait" /\ V!Next /\ UNCHANGED <<part, vars, futureVars>>
    \/ part = "future" /\ F!Next /\ UNCHANGED <<part, vars, waitVars>>

(* The fairness of the part that runs. *)
Goes(t) ==
    \/ part = "stop" /\ Run(t) /\ UNCHANGED <<part, waitVars, futureVars>>
    \/ part = "wait" /\ V!Wait(t) /\ UNCHANGED <<part, vars, futureVars>>
    \/ part = "future" /\ F!Next /\ F!Proceed(t) /\ UNCHANGED <<part, vars, waitVars>>
Time_passes(t) ==
    \/ part = "wait" /\ V!Deadline_passes(t) /\ UNCHANGED <<part, vars, futureVars>>
    \/ part = "future" /\ F!Next /\ F!Deadline_passes(t) /\ UNCHANGED <<part, vars, waitVars>>
Notifies ==
    \/ part = "wait" /\ V!Notify /\ UNCHANGED <<part, vars, futureVars>>
    \/ part = "future" /\ F!Next /\ F!Provide /\ UNCHANGED <<part, vars, waitVars>>
Ends ==
    \/ part = "wait" /\ V!Callbacks /\ UNCHANGED <<part, vars, futureVars>>
    \/ part = "future" /\ F!Next /\ (\E t \in F!Actors : F!Dropping(t)) /\ UNCHANGED <<part, vars, waitVars>>

MCSpec ==
    /\ MCInit /\ [][MCNext]_all
    /\ \A t \in Threads : WF_all(Goes(t)) /\ WF_all(Time_passes(t))
    /\ WF_all(Notifies) /\ WF_all(Ends)

-----------------------------------------------------------------------------
Types == TypeOK /\ V!TypeOK /\ F!TypeOK

(* One result of a shared state, whoever sets, abandons or exits. *)
OneResult == Types /\ F!OneResult

(* Every call returns.  One into the stop state always does, a destructor  *)
(* that waits for a callback too; a wait once its predicate holds, its     *)
(* token is stopped or its deadline has passed, unless somebody is stuck   *)
(* at the break of an interruptible wait_until; a call on a future unless  *)
(* nothing can make the state ready any more.                              *)
EveryCallReturns ==
    \A t \in Threads :
        []<>(Returned(t) /\ V!Returned(t) /\ F!Returned(t))

=============================================================================
