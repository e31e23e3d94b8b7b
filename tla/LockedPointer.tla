--------------------------- MODULE LockedPointer ---------------------------
(***************************************************************************)
(* _Locked_pointer of stl/inc/atomic over the wait functions of module     *)
(* AtomicWait: a pointer whose two low bits are a lock with three states.  *)
(* Waiters are not counted: one that finds the lock taken turns "notify    *)
(* not needed" into "notify needed" before it waits, and the unlock that   *)
(* finds "notify needed" wakes all.                                        *)
(***************************************************************************)
EXTENDS AtomicWait

CONSTANTS
    Cell,           \* &_Storage
    Pointers,       \* the pointers stored in it
    InitPointer,    \* the one it is constructed with
    MaxOps          \* calls of _Lock_and_load altogether

ASSUME CellAssumption == Addresses = {Cell}
ASSUME PointersAssumption == InitPointer \in Pointers
ASSUME OpsAssumption == MaxOps \in Nat

VARIABLES
    Rep,            \* the local _Rep of each thread in _Lock_and_load
    ops             \* calls begun

pointerVars == <<Rep, ops>>
vars == <<waitVars, pointerVars>>

Not_locked == 0
Locked_notify_not_needed == 1
Locked_notify_needed == 2

(* The pointer and the two low bits of a uintptr_t. *)
Word(p, bits) == [ptr |-> p, lock |-> bits]
Words == [ptr : Pointers, lock : {Not_locked, Locked_notify_not_needed, Locked_notify_needed}]

Word0 == Word(InitPointer, Not_locked)

(* "load", "try": in _Lock_and_load.  "locked": it has returned.           *)
(* "unlock": in _Store_and_unlock, after the exchange.                     *)
ClientLabels == {"idle", "load", "try", "locked", "unlock", "wait_load"}

Init ==
    /\ WaitInit("idle", [a \in Addresses |-> Word0])
    /\ Rep = [t \in Threads |-> Word0]
    /\ ops = 0

Call_lock(t) ==
    /\ pc[t] = "idle"
    /\ ops < MaxOps
    /\ ops' = ops + 1
    /\ Goto(t, "load")
    /\ UNCHANGED <<mem, tableVars, argVars, spurious, Rep>>

Lock_load(t) ==
    /\ pc[t] = "load"
    /\ Rep' = [Rep EXCEPT ![t] = mem[Cell]]
    /\ Goto(t, "try")
    /\ UNCHANGED <<mem, tableVars, argVars, spurious, ops>>

(* compare_exchange_weak from Rep[t] to the same pointer with other bits,  *)
(* which succeeds.                                                         *)
Exchanged(t, bits) ==
    /\ mem[Cell] = Rep[t]
    /\ mem' = [mem EXCEPT ![Cell] = Word(Rep[t].ptr, bits)]

(* And one that fails and loads, on its way round the loop. *)
NotExchanged(t) ==
    /\ mem[Cell] # Rep[t]
    /\ Rep' = [Rep EXCEPT ![t] = mem[Cell]]
    /\ UNCHANGED <<mem, pc, Storage, Comparand>>

(* Mutant of Lock_free: a plain store instead of the compare-exchange. *)
Lock_free_store(t) ==
    /\ Rep[t].lock = Not_locked
    /\ mem' = [mem EXCEPT ![Cell] = Word(Rep[t].ptr, Locked_notify_not_needed)]
    /\ Goto(t, "locked")
    /\ UNCHANGED <<Rep, Storage, Comparand>>

(* case _Not_locked *)
Lock_free(t) ==
    /\ Rep[t].lock = Not_locked
    /\ \/ /\ Exchanged(t, Locked_notify_not_needed)
          /\ Goto(t, "locked")
          /\ UNCHANGED <<Rep, Storage, Comparand>>
       \/ NotExchanged(t)

(* case _Locked_notify_not_needed: ask for the notify, then wait. *)
Lock_taken(t) ==
    /\ Rep[t].lock = Locked_notify_not_needed
    /\ \/ /\ Exchanged(t, Locked_notify_needed)
          /\ Rep' = [Rep EXCEPT ![t] = Word(Rep[t].ptr, Locked_notify_needed)]
          /\ Atomic_wait(t, Cell, Word(Rep[t].ptr, Locked_notify_needed))
       \/ NotExchanged(t)

(* case _Locked_notify_needed *)
Lock_waited_for(t) ==
    /\ Rep[t].lock = Locked_notify_needed
    /\ Atomic_wait(t, Cell, Rep[t])
    /\ UNCHANGED <<mem, Rep>>

Lock_try(t) ==
    /\ pc[t] = "try"
    /\ Lock_free(t) \/ Lock_taken(t) \/ Lock_waited_for(t)
    /\ UNCHANGED <<tableVars, Deadline, spurious, ops>>

(* _Storage.wait, then back to the load. *)
Lock_wait(t) ==
    /\ Atomic_wait_direct(t, "load")
    /\ UNCHANGED pointerVars

(* Mutant of Unlock: the bits are those the lock was taken with. *)
Unlock_stale(t, p) ==
    /\ pc[t] = "locked"
    /\ mem' = [mem EXCEPT ![Cell] = Word(p, Not_locked)]
    /\ Goto(t, IF Rep[t].lock = Locked_notify_needed THEN "unlock" ELSE "idle")
    /\ UNCHANGED <<tableVars, argVars, spurious, pointerVars>>

(* _Store_and_unlock(p): the exchange. *)
Unlock(t, p) ==
    /\ pc[t] = "locked"
    /\ mem' = [mem EXCEPT ![Cell] = Word(p, Not_locked)]
    /\ Goto(t, IF mem[Cell].lock = Locked_notify_needed THEN "unlock" ELSE "idle")
    /\ UNCHANGED <<tableVars, argVars, spurious, pointerVars>>

Unlock_notify(t) ==
    /\ pc[t] = "unlock"
    /\ Notify_all_direct(t, Cell, "idle")
    /\ UNCHANGED pointerVars

-----------------------------------------------------------------------------
Run(t) ==
    \/ Lock_load(t) \/ Lock_try(t) \/ Lock_wait(t)
    \/ \E p \in Pointers : Unlock(t, p)
    \/ Unlock_notify(t)

Terminating ==
    /\ \A t \in Threads : pc[t] = "idle"
    /\ UNCHANGED vars

Next ==
    \/ \E t \in Threads :
        Call_lock(t) \/ Run(t) \/ (WaitStep(t) /\ UNCHANGED pointerVars)
    \/ Terminating

Spec == Init /\ [][Next]_vars

-----------------------------------------------------------------------------
(* In particular no word has both lock bits set, which would abort(). *)
TypeOK ==
    /\ mem \in [Addresses -> Words]
    /\ pc \in [Threads -> ClientLabels \cup WaitLabels]
    /\ Storage \in [Threads -> Addresses]
    /\ Comparand \in [Threads -> Words]
    /\ Rep \in [Threads -> Words]
    /\ ops \in 0..MaxOps

(* The lock bits are set exactly while a thread holds the lock, and one    *)
(* thread at most does.                                                    *)
Exclusive ==
    /\ mem[Cell].lock # Not_locked <=> \E t \in Threads : pc[t] = "locked"
    /\ \A t, u \in Threads : pc[t] = "locked" /\ pc[u] = "locked" => t = u

(* No waiter is stranded, although waiters are not counted and a later     *)
(* holder may have cleared the bit they set: next to a sleeping thread the *)
(* lock says "notify needed", or an unlock is about to notify.             *)
NobodyStranded ==
    (\E t \in Threads : pc[t] \in {"sleep", "asleep"})
        => \/ mem[Cell].lock = Locked_notify_needed
           \/ \E u \in Threads : pc[u] = "unlock"

Holder == {t \in Threads : pc[t] = "locked"}

Owner == IF Holder = {} THEN NoThread ELSE CHOOSE t \in Holder : TRUE

Contract == INSTANCE PointerLock WITH owner <- Owner, value <- mem[Cell].ptr

(* The bits implement the lock that their users see: _Lock_and_load        *)
(* returns the pointer stored last, to one thread at a time.               *)
ContractSpec == Contract!Spec

(* t is not inside _Lock_and_load. *)
Returned(t) == pc[t] \in {"idle", "locked"}

=============================================================================
