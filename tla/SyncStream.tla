------------------------------ MODULE SyncStream -------------------------------
(***************************************************************************)
(* <syncstream> and syncstream.cpp.  All basic_syncbuf objects around one  *)
(* stream buffer share a mutex, found in a map by the address of the       *)
(* buffer and counted; emit() holds it while it hands on what was written. *)
(* Allocations may fail, and the wrapped buffer may take only a part of    *)
(* the characters, fail to synchronize, or throw.  A thread writes, emits  *)
(* and destroys its object; with two it assigns and swaps them.            *)
(***************************************************************************)
EXTENDS Integers, FiniteSets, SequencesExt

CONSTANTS
    Threads, Buffers,
    Movers,         \* threads with two objects, which they swap and assign
    MaxMade,        \* bound: constructions
    MaxPending      \* bound: characters written and not emitted

VARIABLES
    Lookup_map,     \* of each buffer: its mutex and the count, no mutex when absent
    owner,          \* of each mutex: the thread that has locked it
    Wrapped, Mutex, \* of each syncbuf
    data,           \* the characters written and not emitted
    Sync_recorded,
    pc, this, then, put,    \* of each thread: emit() under way, for what, characters emitted
    made,
    leaked,         \* ghost: counts that nobody will give back
    fate            \* ghost: of each pending character, the buffer it was written for,
                    \* and whether it is "new", "given" to that, or its emission "threw"

vars == <<Lookup_map, owner, Wrapped, Mutex, data, Sync_recorded, pc, this, then, put, made,
          leaked, fate>>

None == "none"
Null == 0
Mutexes == 1 .. Cardinality(Buffers)
Objects(t) == {<<t, i>> : i \in 1 .. IF t \in Movers THEN 2 ELSE 1}
Syncbufs == UNION {Objects(t) : t \in Threads}
Other(s) == <<s[1], 3 - s[2]>>

Init ==
    /\ Lookup_map = [b \in Buffers |-> [Mutex |-> Null, Ref_count |-> 0]]
    /\ owner = [m \in Mutexes |-> None]
    /\ Wrapped = [s \in Syncbufs |-> None] /\ Mutex = [s \in Syncbufs |-> Null]
    /\ data = [s \in Syncbufs |-> <<>>]
    /\ Sync_recorded = [s \in Syncbufs |-> FALSE]
    /\ pc = [t \in Threads |-> "idle"] /\ this = [t \in Threads |-> <<t, 1>>]
    /\ then = [t \in Threads |-> "return"] /\ put = [t \in Threads |-> 0]
    /\ made = 0 /\ leaked = [b \in Buffers |-> 0] /\ fate = <<>>

objectVars == <<Wrapped, Mutex, data, Sync_recorded>>
callVars == <<pc, this, then, put>>
Idle(t) == pc[t] = "idle"
Characters == 1 .. MaxPending
Holders(c) == {s \in Syncbufs : c \in Range(data[s])}
Pending == {c \in Characters : Holders(c) # {}}

-----------------------------------------------------------------------------
(* __std_acquire_shared_mutex_for_instance: the entry, made when absent. *)
Acquired(b) ==
    [Lookup_map[b] EXCEPT
        !.Ref_count = @ + 1,
        !.Mutex = IF @ # Null THEN @
                  ELSE Min({m \in Mutexes : \A c \in Buffers : Lookup_map[c].Mutex # m})]

(* __std_release_shared_mutex_for_instance: the last one erases it. *)
Released(b) ==
    IF Lookup_map[b].Ref_count = 1 THEN [Mutex |-> Null, Ref_count |-> 0]
    ELSE [Lookup_map[b] EXCEPT !.Ref_count = @ - 1]

(* The constructor: without memory for the entry it throws, and without    *)
(* memory for the characters it throws with the mutex counted, for there   *)
(* is no object whose destructor would give the count back.                *)
Construct(t) ==
    /\ Idle(t) /\ made < MaxMade /\ made' = made + 1
    /\ \E s \in Objects(t), b \in Buffers :
          /\ Wrapped[s] = None
          /\ \/ /\ Lookup_map' = [Lookup_map EXCEPT ![b] = Acquired(b)]
                /\ Wrapped' = [Wrapped EXCEPT ![s] = b]
                /\ Mutex' = [Mutex EXCEPT ![s] = Acquired(b).Mutex]
                /\ Sync_recorded' = [Sync_recorded EXCEPT ![s] = FALSE] /\ UNCHANGED leaked
             \/ /\ Lookup_map' = [Lookup_map EXCEPT ![b] = Acquired(b)]
                /\ leaked' = [leaked EXCEPT ![b] = @ + 1]
                /\ UNCHANGED <<Wrapped, Mutex, Sync_recorded>>
             \/ UNCHANGED <<Lookup_map, Wrapped, Mutex, Sync_recorded, leaked>>
    /\ UNCHANGED <<owner, data, callVars>>

(* A character, when there is a buffer to wrap and memory to grow. *)
Overflow(t) ==
    /\ Idle(t) /\ Pending # Characters
    /\ \E s \in Objects(t) :
          /\ Wrapped[s] # None
          /\ data' = [data EXCEPT ![s] = Append(@, Min(Characters \ Pending))]
    /\ UNCHANGED <<Lookup_map, owner, Wrapped, Mutex, Sync_recorded, callVars, made, leaked>>

-----------------------------------------------------------------------------
(* emit() of s, called by sync, operator=, the destructor or the program:  *)
(* next is what comes after it.  Up to the lock it looks only at its own   *)
(* object, so that the call and the lock are one step.                     *)
Locks(t, s, next) ==
    /\ owner[Mutex[s]] = None
    /\ owner' = [owner EXCEPT ![Mutex[s]] = t] /\ pc' = [pc EXCEPT ![t] = "put"]
    /\ this' = [this EXCEPT ![t] = s] /\ then' = [then EXCEPT ![t] = next] /\ UNCHANGED put

(* It does nothing for an object that wraps nothing, or has nothing. *)
Emit(t, s, next) ==
    IF Wrapped[s] # None /\ (data[s] # <<>> \/ Sync_recorded[s]) THEN Locks(t, s, next)
    ELSE IF next = "return" THEN UNCHANGED <<owner, callVars>>
    ELSE /\ pc' = [pc EXCEPT ![t] = next] /\ this' = [this EXCEPT ![t] = s]
         /\ UNCHANGED <<owner, then, put>>

(* sync() only takes note, or emits when set_emit_on_sync has said so; it  *)
(* also takes note in an object that was moved from.                       *)
Sync(t) ==
    /\ Idle(t)
    /\ \E s \in Objects(t) :
          /\ Wrapped[s] # None \/ t \in Movers
          /\ Sync_recorded' = [Sync_recorded EXCEPT ![s] = TRUE]
          /\ \/ UNCHANGED <<owner, callVars>>
             \/ Wrapped[s] # None /\ Locks(t, s, "return")
    /\ UNCHANGED <<Lookup_map, Wrapped, Mutex, data, made, leaked>>

Emit_assign_destroy(t) ==
    /\ Idle(t)
    /\ \E s \in Objects(t), next \in {"return", "assign", "destroy"} :
          /\ IF next = "assign" THEN t \in Movers /\ {Wrapped[s], Wrapped[Other(s)]} # {None}
             ELSE Wrapped[s] # None
          /\ Emit(t, s, next)
    /\ UNCHANGED <<Lookup_map, objectVars, made, leaked>>

Returns(t) ==
    /\ pc' = [pc EXCEPT ![t] = "idle"] /\ this' = [this EXCEPT ![t] = <<t, 1>>]
    /\ then' = [then EXCEPT ![t] = "return"] /\ put' = [put EXCEPT ![t] = 0]

Goes_on(t) ==
    IF then[t] = "return" THEN Returns(t)
    ELSE /\ pc' = [pc EXCEPT ![t] = then[t]] /\ then' = [then EXCEPT ![t] = "return"]
         /\ put' = [put EXCEPT ![t] = 0] /\ UNCHANGED this

(* What was written is reset, and the caller goes on. *)
Reset(t) ==
    /\ data' = [data EXCEPT ![this[t]] = <<>>]
    /\ Sync_recorded' = [Sync_recorded EXCEPT ![this[t]] = FALSE]
    /\ Goes_on(t) /\ UNCHANGED <<Wrapped, Mutex>>

(* sputn and pubsync: the wrapped buffer takes one character after the     *)
(* other, and returns when it has all or takes no more, or throws.         *)
Emit_put(t) ==
    /\ pc[t] = "put" /\ put[t] < Len(data[this[t]])
    /\ put' = [put EXCEPT ![t] = @ + 1]
    /\ UNCHANGED <<Lookup_map, owner, objectVars, pc, this, then, made, leaked>>

Sputn(t) ==
    /\ pc[t] = "put" /\ \E end \in {"returned", "threw"} : pc' = [pc EXCEPT ![t] = end]
    /\ UNCHANGED <<Lookup_map, owner, objectVars, this, then, put, made, leaked>>

Unlocks(t) ==
    /\ owner' = [owner EXCEPT ![Mutex[this[t]]] = None]
    /\ UNCHANGED <<Lookup_map, made, leaked>>

(* What was not taken is reset as well; emit() returns false. *)
Emit_end(t) == pc[t] = "returned" /\ Reset(t) /\ Unlocks(t)

(* Mutant of Emit_throw: what was written is reset as after a return. *)
Emit_throw_resets(t) == pc[t] = "threw" /\ Reset(t) /\ Unlocks(t)

(* An exception leaves what was written as it was; only the destructor     *)
(* goes on.                                                                *)
Emit_throw(t) ==
    /\ pc[t] = "threw" /\ Unlocks(t) /\ UNCHANGED objectVars
    /\ IF then[t] = "destroy" THEN Goes_on(t) ELSE Returns(t)

-----------------------------------------------------------------------------
Tidy(s) ==
    IF Wrapped[s] = None THEN UNCHANGED Lookup_map
    ELSE Lookup_map' = [Lookup_map EXCEPT ![Wrapped[s]] = Released(Wrapped[s])]

Destroy(t) ==
    LET s == this[t]
    IN  /\ pc[t] = "destroy" /\ Tidy(s)
        /\ Wrapped' = [Wrapped EXCEPT ![s] = None] /\ Mutex' = [Mutex EXCEPT ![s] = Null]
        /\ data' = [data EXCEPT ![s] = <<>>]
        /\ Sync_recorded' = [Sync_recorded EXCEPT ![s] = FALSE]
        /\ Returns(t) /\ UNCHANGED <<owner, made, leaked>>

(* Everything but the allocator: the moved-from object is left with what   *)
(* the other had.  Between allocators that differ the characters are       *)
(* copied, and without memory for that the assigned object stays empty.    *)
Swapped(f, s) == [f EXCEPT ![s] = f[Other(s)], ![Other(s)] = f[s]]
Move_assign(t) ==
    LET s == this[t]
    IN  /\ pc[t] = "assign" /\ Tidy(s)
        /\ \E copied \in BOOLEAN :
              LET Moved(f) == IF copied THEN Swapped(f, s) ELSE f
              IN  /\ Wrapped' = Moved([Wrapped EXCEPT ![s] = None])
                  /\ Mutex' = Moved([Mutex EXCEPT ![s] = Null])
                  /\ data' = Moved([data EXCEPT ![s] = <<>>])
                  /\ Sync_recorded' = Moved(Sync_recorded)
        /\ Returns(t) /\ UNCHANGED <<owner, made, leaked>>

(* swap, and the move constructor, which swaps with an empty object. *)
Swap(t) ==
    /\ Idle(t) /\ t \in Movers
    /\ Wrapped' = Swapped(Wrapped, <<t, 1>>) /\ Mutex' = Swapped(Mutex, <<t, 1>>)
    /\ data' = Swapped(data, <<t, 1>>)
    /\ Sync_recorded' = Swapped(Sync_recorded, <<t, 1>>)
    /\ UNCHANGED <<Lookup_map, owner, callVars, made, leaked>>

Step ==
    \E t \in Threads :
        \/ Construct(t) \/ Overflow(t) \/ Sync(t) \/ Emit_assign_destroy(t)
        \/ Emit_put(t) \/ Sputn(t) \/ Emit_end(t) \/ Emit_throw(t)
        \/ Destroy(t) \/ Move_assign(t) \/ Swap(t)

(* The history of the characters, from what a step does to them. *)
Put_now(c) == \E t \in Threads : put'[t] = put[t] + 1 /\ data[this[t]][put'[t]] = c
Threw_now(c) == \E t \in Threads : pc[t] = "put" /\ pc'[t] = "threw" /\ c \in Range(data[this[t]])
Recorded ==
    fate' = [c \in Pending' |->
                IF c \notin DOMAIN fate
                THEN [dest |-> Wrapped'[CHOOSE s \in Holders(c)' : TRUE], state |-> "new"]
                ELSE [fate[c] EXCEPT !.state = IF Threw_now(c) THEN "threw"
                                               ELSE IF Put_now(c) /\ @ = "new" THEN "given" ELSE @]]

Next == Step /\ Recorded

Spec == Init /\ [][Next]_vars

-----------------------------------------------------------------------------
(* A syncbuf has the mutex that the map has for its buffer, which is       *)
(* counted once for each syncbuf around it and for each constructor that   *)
(* had no memory for the characters.                                       *)
MutexesCounted ==
    /\ \A s \in Syncbufs : Mutex[s] = (IF Wrapped[s] = None THEN Null ELSE Lookup_map[Wrapped[s]].Mutex)
    /\ \A b \in Buffers :
          LET e == Lookup_map[b]
          IN  /\ e.Ref_count = Cardinality({s \in Syncbufs : Wrapped[s] = b}) + leaked[b]
              /\ e.Mutex = Null <=> e.Ref_count = 0
              /\ \A c \in Buffers \ {b} : e.Mutex # Null => Lookup_map[c].Mutex # e.Mutex

(* One thread at a time hands characters to a buffer, so that what was     *)
(* emitted together stands together; and a character is held by one        *)
(* syncbuf, wherever it was moved, around the buffer it was written for.   *)
EmitsWhole ==
    /\ \A t, u \in Threads :
          {pc[t], pc[u]} \subseteq {"put", "returned", "threw"} /\ t # u =>
              Wrapped[this[t]] # Wrapped[this[u]]
    /\ \A c \in Pending : \E s \in Syncbufs : Holders(c) = {s} /\ Wrapped[s] = fate[c].dest

(* A character is given up only when its buffer has got it, has taken only *)
(* a part of the emission, or threw, the last time from the destructor;    *)
(* and its buffer gets it again only after an emission that threw.         *)
EmittedOnce ==
    [][\A c \in Pending :
          /\ c \notin Pending' =>
                \/ fate[c].state = "given"
                \/ \E t \in Threads :
                      /\ c \in Range(data[this[t]])
                      /\ pc[t] = "returned" \/ (pc[t] = "destroy" /\ fate[c].state = "threw")
          /\ Put_now(c) => fate[c].state # "given"]_vars

=============================================================================
