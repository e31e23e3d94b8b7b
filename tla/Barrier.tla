------------------------------ MODULE Barrier ------------------------------
(***************************************************************************)
(* std::barrier (stl/inc/barrier) over the wait functions of module        *)
(* AtomicWait.  _Current holds the arrivals that the phase still expects   *)
(* shifted left by one, and the parity of the phase in its low bit; _Total *)
(* holds what the next phase will expect.                                  *)
(*                                                                         *)
(* With ForOthers = FALSE every thread arrives once in each phase, for     *)
(* itself, until it drops out.  With ForOthers = TRUE a thread may make    *)
(* any arrivals within the precondition of arrive: several at once, or     *)
(* some that other threads could have made.                                *)
(***************************************************************************)
EXTENDS AtomicWait

CONSTANTS
    CurrentAddress, \* &_Current
    ForOthers,
    MaxArrivals     \* arrivals altogether

ASSUME CurrentAssumption == Addresses = {CurrentAddress}
ASSUME BarrierAssumption ==
    /\ ForOthers \in BOOLEAN
    /\ MaxArrivals \in Nat
    /\ IsFiniteSet(Threads)

VARIABLES
    Total,          \* _Total
    Rem_count,      \* the local _Rem_count of _Completion
    kind,           \* the call each thread is in
    Arrival,        \* the phase bit in the token it holds, or in its wait
    arrivals,       \* arrivals begun
    phase,          \* history: phases completed
    arrivedIn,      \* history: the phase each thread last arrived in, or -1
    dropped         \* history: the threads that have dropped out

barrierVars ==
    <<Total, Rem_count, kind, Arrival, arrivals, phase, arrivedIn, dropped>>
allVars == <<waitVars, barrierVars>>

BarrierLabels == {"idle", "holds", "drop", "completion", "store",
                  "notify_all", "load", "wait_load"}

(* Where a thread is that is inside wait or arrive_and_wait. *)
InWait == AtomicWaitLabels \cup {"load"}

value_step == 2
Value(c) == c \div 2        \* (c & _Barrier_value_mask) >> _Barrier_value_shift

Bit(c) == c % 2             \* c & _Barrier_arrival_token_mask

Expected == Cardinality(Threads)

InitBarrier ==
    /\ WaitInit("idle", [a \in Addresses |-> Expected * value_step])
    /\ Total = Expected * value_step
    /\ Rem_count = [t \in Threads |-> 0]
    /\ kind = [t \in Threads |-> "arrive"]
    /\ Arrival = [t \in Threads |-> 0]
    /\ arrivals = 0
    /\ phase = 0
    /\ arrivedIn = [t \in Threads |-> -1]
    /\ dropped = {}

-----------------------------------------------------------------------------
(* The arrivals still open in this phase and not claimed by a thread in    *)
(* the middle of arrive_and_drop.                                          *)
Open ==
    Value(mem[CurrentAddress]) - Cardinality({u \in Threads : pc[u] = "drop"})

(* Whether thread t may make n arrivals now. *)
MayArrive(t, n) ==
    /\ n <= Open
    /\ t \notin dropped
    /\ ForOthers \/ (n = 1 /\ arrivedIn[t] # phase)

(* The fetch_sub of n arrivals, and what follows: the completion by the    *)
(* thread that brings the count to zero; for the others the return of a    *)
(* token by arrive, nothing for arrive_and_drop, and for arrive_and_wait   *)
(* the wait on the value it left.                                          *)
Fetch_sub(t, n, k) ==
    LET c == mem[CurrentAddress] - n * value_step IN
    /\ mem' = [mem EXCEPT ![CurrentAddress] = c]
    /\ kind' = [kind EXCEPT ![t] = k]
    /\ Arrival' = [Arrival EXCEPT ![t] = Bit(c)]
    /\ arrivedIn' = [arrivedIn EXCEPT ![t] = phase]
    /\ dropped' = IF k = "drop" THEN dropped \cup {t} ELSE dropped
    /\ \/ /\ Value(c) = 0
          /\ Goto(t, "completion")
          /\ UNCHANGED <<Storage, Comparand>>
       \/ /\ Value(c) # 0
          /\ k = "arrive_and_wait"
          /\ Atomic_wait(t, CurrentAddress, c)
       \/ /\ Value(c) # 0
          /\ k # "arrive_and_wait"
          /\ Goto(t, IF k = "arrive" THEN "holds" ELSE "idle")
          /\ UNCHANGED <<Storage, Comparand>>
    /\ UNCHANGED <<tableVars, Deadline, spurious, Total, Rem_count, phase>>

StartArrival(t) ==
    /\ pc[t] \in {"idle", "holds"}      \* an unused token is discarded
    /\ arrivals < MaxArrivals
    /\ arrivals' = arrivals + 1

Arrive(t, n) ==
    /\ MayArrive(t, n)
    /\ StartArrival(t)
    /\ Fetch_sub(t, n, "arrive")

Arrive_and_wait(t) ==
    /\ MayArrive(t, 1)
    /\ StartArrival(t)
    /\ Fetch_sub(t, 1, "arrive_and_wait")

(* Mutant of Arrive_and_drop: the expected count is not reduced. *)
Arrive_and_drop_once(t) ==
    /\ MayArrive(t, 1)
    /\ StartArrival(t)
    /\ Goto(t, "drop")
    /\ UNCHANGED <<mem, tableVars, argVars, spurious, Total,
                   Rem_count, kind, Arrival, phase, arrivedIn, dropped>>

(* arrive_and_drop: first the expected count of the next phases, then the  *)
(* arrival in this one.                                                    *)
Arrive_and_drop(t) ==
    /\ MayArrive(t, 1)
    /\ StartArrival(t)
    /\ Total' = Total - value_step
    /\ Goto(t, "drop")
    /\ UNCHANGED <<mem, tableVars, argVars, spurious,
                   Rem_count, kind, Arrival, phase, arrivedIn, dropped>>

Arrive_and_drop_arrive(t) ==
    /\ pc[t] = "drop"
    /\ Fetch_sub(t, 1, "drop")
    /\ UNCHANGED arrivals

-----------------------------------------------------------------------------
(* Mutant of Completion: the next phase opens before the function runs. *)
Completion_early(t) ==
    /\ pc[t] = "completion"
    /\ mem' = [mem EXCEPT ![CurrentAddress] = Total + Bit(Arrival[t] + 1)]
    /\ Rem_count' = [Rem_count EXCEPT ![t] = Total]
    /\ Goto(t, "store")
    /\ UNCHANGED <<tableVars, argVars, spurious, Total, kind, Arrival,
                   arrivals, phase, arrivedIn, dropped>>

(* _Completion: read _Total and run the completion function. *)
Completion(t) ==
    /\ pc[t] = "completion"
    /\ Rem_count' = [Rem_count EXCEPT ![t] = Total]
    /\ Goto(t, "store")
    /\ UNCHANGED <<mem, tableVars, argVars, spurious, Total, kind, Arrival,
                   arrivals, phase, arrivedIn, dropped>>

(* Mutant of Completion_store: the phase bit does not alternate. *)
Completion_store_same_bit(t) ==
    /\ pc[t] = "store"
    /\ mem' = [mem EXCEPT ![CurrentAddress] = Rem_count[t] + Arrival[t]]
    /\ phase' = phase + 1
    /\ Goto(t, "notify_all")
    /\ UNCHANGED <<tableVars, argVars, spurious, Total, Rem_count, kind,
                   Arrival, arrivals, arrivedIn, dropped>>

(* _New_phase_count, with the other bit. *)
Completion_store(t) ==
    /\ pc[t] = "store"
    /\ mem' = [mem EXCEPT ![CurrentAddress] = Rem_count[t] + Bit(Arrival[t] + 1)]
    /\ phase' = phase + 1
    /\ Goto(t, "notify_all")
    /\ UNCHANGED <<tableVars, argVars, spurious, Total, Rem_count, kind,
                   Arrival, arrivals, arrivedIn, dropped>>

Completion_notify(t) ==
    /\ pc[t] = "notify_all"
    /\ Notify_all_direct(t, CurrentAddress,
                         IF kind[t] = "arrive" THEN "holds" ELSE "idle")
    /\ UNCHANGED barrierVars

-----------------------------------------------------------------------------
(* wait(token), for a token of this phase or of the one before. *)
Wait(t) ==
    /\ pc[t] = "holds"
    /\ phase - arrivedIn[t] <= 1
    /\ Goto(t, "load")
    /\ UNCHANGED <<mem, tableVars, argVars, spurious, barrierVars>>

(* Mutant of Wait_load: any new value ends the wait. *)
Wait_load_any(t) ==
    /\ pc[t] = "load"
    /\ Goto(t, "idle")
    /\ UNCHANGED <<mem, tableVars, argVars, spurious, barrierVars>>

(* The loop of wait and of arrive_and_wait: load, return if the bit is     *)
(* another, otherwise wait for another value.                              *)
Wait_load(t) ==
    /\ pc[t] = "load"
    /\ \/ /\ Bit(mem[CurrentAddress]) # Arrival[t]
          /\ Goto(t, "idle")
          /\ UNCHANGED <<Storage, Comparand>>
       \/ /\ Bit(mem[CurrentAddress]) = Arrival[t]
          /\ Atomic_wait(t, CurrentAddress, mem[CurrentAddress])
    /\ UNCHANGED <<mem, tableVars, Deadline, spurious, barrierVars>>

Wait_atomic(t) ==
    /\ Atomic_wait_direct(t, "load")
    /\ UNCHANGED barrierVars

-----------------------------------------------------------------------------
RunBarrier(t) ==
    \/ Arrive_and_drop_arrive(t)
    \/ Completion(t) \/ Completion_store(t) \/ Completion_notify(t)
    \/ Wait_load(t) \/ Wait_atomic(t)

BarrierRests ==
    /\ \A t \in Threads : pc[t] \in {"idle", "holds", "asleep"}
    /\ UNCHANGED allVars

NextBarrier ==
    \/ \E t \in Threads :
        \/ \E n \in 1..Expected : Arrive(t, n)
        \/ Arrive_and_wait(t)
        \/ Arrive_and_drop(t)
        \/ Wait(t)
        \/ RunBarrier(t)
        \/ WaitStep(t) /\ UNCHANGED barrierVars
    \/ BarrierRests

BarrierSpec == InitBarrier /\ [][NextBarrier]_allVars

(* Threads inside a call are scheduled; the completion function returns. *)
BarrierFairness ==
    \A t \in Threads :
        WF_allVars(RunBarrier(t) \/ (WaitProgress(t) /\ UNCHANGED barrierVars))

FairBarrier == BarrierSpec /\ BarrierFairness

-----------------------------------------------------------------------------
Counts == 0 .. (Expected * value_step + 1)

BarrierTypeOK ==
    /\ mem \in [Addresses -> Counts]
    /\ pc \in [Threads -> BarrierLabels \cup WaitLabels]
    /\ Total \in Counts
    /\ Rem_count \in [Threads -> Counts]
    /\ kind \in [Threads -> {"arrive", "arrive_and_wait", "drop"}]
    /\ Arrival \in [Threads -> {0, 1}]
    /\ arrivals \in 0..MaxArrivals
    /\ phase \in Nat
    /\ arrivedIn \in [Threads -> Nat \cup {-1}]
    /\ dropped \in SUBSET Threads

(* The completion step has one thread at a time, and while it runs nobody  *)
(* can arrive: the count is zero from the last arrival to the store.       *)
OneCompletion ==
    /\ BarrierTypeOK
    /\ \A t \in Threads :
        pc[t] \in {"completion", "store"} =>
            /\ Value(mem[CurrentAddress]) = 0
            /\ \A u \in Threads \ {t} :
                    pc[u] \notin {"completion", "store", "drop"}

(* Each phase expects exactly the threads that have not dropped out and    *)
(* have not arrived yet, although arrive_and_drop changes _Total and       *)
(* _Current in two steps and _Completion reads _Total before the store.    *)
ExpectsTheRest ==
    ~ForOthers /\ (\A t \in Threads : pc[t] \notin {"completion", "store"})
        => Value(mem[CurrentAddress])
             = Cardinality({t \in Threads \ dropped : arrivedIn[t] # phase})

(* Nobody returns from wait or arrive_and_wait before the phase it arrived *)
(* in is complete, its completion function included.                       *)
NoEarlyReturn ==
    [][\A t \in Threads :
        pc[t] \in InWait /\ pc'[t] = "idle" => phase > arrivedIn[t]]_allVars

(* Nobody waits for ever for a phase that is complete.                     *)
(* "wait(arrival_token&&) accepts a token from the current phase or the    *)
(* immediately preceding phase; this means we can track which phase is the *)
(* current phase using 1 bit" (barrier:179-180).                           *)
WaitReturns ==
    \A t \in Threads :
        []<>~(pc[t] \in InWait /\ phase > arrivedIn[t])

=============================================================================
