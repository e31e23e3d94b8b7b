----------------------------- MODULE StopToken -----------------------------
(***************************************************************************)
(* stop_source, stop_token and stop_callback of stl/inc/stop_token around  *)
(* one _Stop_state: request_stop runs the registered callbacks while other *)
(* threads register, destroy, copy and drop, and while a callback itself   *)
(* calls back into the library, to any depth.                              *)
(*                                                                         *)
(* A critical section of _Callbacks is one step: its lock excludes every   *)
(* other access to the list, and _Stop_sources and _Current_callback,      *)
(* which are read without it, are read or written once in each.            *)
(***************************************************************************)
EXTENDS Integers, Sequences, FiniteSets

CONSTANTS
    Threads,        \* each owns at most one stop_source and one stop_token
    Objects,        \* storage for stop_callback objects
    Null,           \* nullptr, and no thread
    SourceOwners,   \* the threads that own a stop_source at the start
    MaxOps          \* calls altogether

ASSUME NullAssumption == Null \notin Objects \cup Threads
ASSUME OwnersAssumption == SourceOwners # {} /\ SourceOwners \subseteq Threads
ASSUME FiniteAssumption == IsFiniteSet(Threads) /\ IsFiniteSet(Objects)
ASSUME OpsAssumption == MaxOps \in Nat

VARIABLES
    Stop_tokens,        \* references: tokens, callbacks, one for all sources
    Stop_sources,       \* twice the sources, plus 1 when stop is requested
    deleted,            \* the state has been deleted
    Callbacks,          \* the head of the list of callbacks
    next,               \* _Next of each callback
    prev,               \* _Prev of each callback
    Current_callback,   \* the callback request_stop is running
    Stopping_thread,    \* the thread that requested stop
    object,             \* "none", "constructing", "live" or "destroying"
    Parent,             \* the callback owns a reference to the state
    source,             \* the thread owns a stop_source
    token,              \* the thread owns a stop_token
    stack,              \* the library calls each thread is in, innermost first
    ops,                \* calls begun
    order,              \* history: the registered callbacks, newest first
    calls               \* history: how often each object was called

countVars  == <<Stop_tokens, Stop_sources, deleted>>
listVars   == <<Callbacks, next, prev, order>>
stopVars   == <<Current_callback, Stopping_thread>>
objectVars == <<object, Parent, calls>>
ownerVars  == <<source, token>>
vars == <<countVars, listVars, stopVars, objectVars, ownerVars, stack, ops>>

-----------------------------------------------------------------------------
(* Where a thread is.  "claimed", "loop", "call": in _Request_stop.        *)
(* "attach", "attach_move": in _Do_attach.  "detach", "wait", "drop": in   *)
(* _Detach.  "last_source": in ~stop_source.  "called", "inline": in the   *)
(* function of a callback, called by _Request_stop or by its constructor.  *)
StateLabels == {"claimed", "loop", "call", "attach", "attach_move",
                "detach", "wait", "drop", "last_source"}
FunctionLabels == {"called", "inline"}

Frame(at, c) == [at |-> at, cb |-> c]

At(t, label) == stack[t] # <<>> /\ Head(stack[t]).at = label

(* The callback that the innermost call of thread t is about. *)
Cb(t) == Head(stack[t]).cb

Frames(t) == {stack[t][i] : i \in 1..Len(stack[t])}

Push(t, at, c) == stack' = [stack EXCEPT ![t] = <<Frame(at, c)>> \o @]
Become(t, at)  == stack' = [stack EXCEPT ![t] = <<Frame(at, Cb(t))>> \o Tail(@)]
Pop(t)         == stack' = [stack EXCEPT ![t] = Tail(@)]

(* The program is running on thread t, a callback's function included. *)
InProgram(t) == stack[t] # <<>> => Head(stack[t]).at \in FunctionLabels

Begin(t) == InProgram(t) /\ ops < MaxOps /\ ops' = ops + 1

(* _Stop_requested *)
Stop_requested == Stop_sources % 2 = 1

(* p->field = v, unless p is null. *)
Assign(field, p, v) == [c \in Objects |-> IF c = p THEN v ELSE field[c]]

(* fetch_sub(1) on _Stop_tokens, and the delete that may follow. *)
DropReference ==
    /\ Stop_tokens' = Stop_tokens - 1
    /\ deleted' = (deleted \/ Stop_tokens = 1)

Init ==
    /\ Stop_tokens = Cardinality(Threads) + 1
    /\ Stop_sources = 2 * Cardinality(SourceOwners)
    /\ deleted = FALSE
    /\ Callbacks = Null
    /\ next = [c \in Objects |-> Null]
    /\ prev = [c \in Objects |-> Null]
    /\ Current_callback = Null
    /\ Stopping_thread = Null
    /\ object = [c \in Objects |-> "none"]
    /\ Parent = [c \in Objects |-> FALSE]
    /\ source = [t \in Threads |-> t \in SourceOwners]
    /\ token = [t \in Threads |-> TRUE]
    /\ stack = [t \in Threads |-> <<>>]
    /\ ops = 0
    /\ order = <<>>
    /\ calls = [c \in Objects |-> 0]

-----------------------------------------------------------------------------
(* request_stop().  The source stays alive until it returns.               *)

(* The fetch_or: only the first request goes on. *)
Request_stop(t) ==
    /\ Begin(t)
    /\ source[t]
    /\ \/ /\ Stop_requested
          /\ UNCHANGED <<Stop_sources, stack>>
       \/ /\ ~Stop_requested
          /\ Stop_sources' = Stop_sources + 1
          /\ Push(t, "claimed", Null)
    /\ UNCHANGED <<Stop_tokens, deleted, listVars, stopVars, objectVars, ownerVars>>

Request_claimed(t) ==
    /\ At(t, "claimed")
    /\ Stopping_thread' = t
    /\ Become(t, "loop")
    /\ UNCHANGED <<countVars, listVars, Current_callback, objectVars, ownerVars, ops>>

(* One critical section: take the head off the list and announce it, or    *)
(* find the list empty and return true.                                    *)
Request_next(t) ==
    /\ At(t, "loop")
    /\ Current_callback' = Callbacks
    /\ \/ /\ Callbacks = Null
          /\ Pop(t)
          /\ UNCHANGED listVars
       \/ /\ Callbacks # Null
          /\ Callbacks' = next[Callbacks]
          /\ next' = [next EXCEPT ![Callbacks] = Null]
          /\ prev' = Assign(prev, next[Callbacks], Null)
          /\ order' = Tail(order)
          /\ stack' = [stack EXCEPT ![t] = <<Frame("call", Callbacks)>> \o Tail(@)]
    /\ UNCHANGED <<countVars, Stopping_thread, objectVars, ownerVars, ops>>

(* _Head->_Fn(_Head), outside the lock; the loop goes on when it returns. *)
Request_call(t) ==
    /\ At(t, "call")
    /\ calls' = [calls EXCEPT ![Cb(t)] = @ + 1]
    /\ stack' = [stack EXCEPT ![t] =
                    <<Frame("called", Cb(t)), Frame("loop", Null)>> \o Tail(@)]
    /\ UNCHANGED <<countVars, listVars, stopVars, object, Parent, ownerVars, ops>>

(* The function of a callback returns, to _Request_stop or to the          *)
(* constructor, which is then done as well.                                *)
Return(t) ==
    /\ \/ /\ At(t, "called")
          /\ UNCHANGED object
       \/ /\ At(t, "inline")
          /\ object' = [object EXCEPT ![Cb(t)] = "live"]
    /\ Pop(t)
    /\ UNCHANGED <<countVars, listVars, stopVars, Parent, calls, ownerVars, ops>>

-----------------------------------------------------------------------------
(* The constructor of stop_callback on the token of thread t, which is     *)
(* copied (label "attach") or moved from (label "attach_move"): the fast   *)
(* path of _Do_attach.                                                     *)
Construct(t, c, label) ==
    /\ Begin(t)
    /\ token[t]
    /\ object[c] = "none"
    /\ next' = [next EXCEPT ![c] = Null]
    /\ prev' = [prev EXCEPT ![c] = Null]
    /\ \/ /\ Stop_requested
          /\ object' = [object EXCEPT ![c] = "constructing"]
          /\ calls' = [calls EXCEPT ![c] = 1]
          /\ Push(t, "inline", c)
       \/ /\ Stop_sources = 0
          /\ object' = [object EXCEPT ![c] = "live"]
          /\ calls' = [calls EXCEPT ![c] = 0]
          /\ UNCHANGED stack
       \/ /\ Stop_sources # 0 /\ ~Stop_requested
          /\ object' = [object EXCEPT ![c] = "constructing"]
          /\ calls' = [calls EXCEPT ![c] = 0]
          /\ Push(t, label, c)
    /\ UNCHANGED <<countVars, Callbacks, order, stopVars, Parent, ownerVars>>

(* The insertion at the head of the list.  A copied token adds a           *)
(* reference, a moved one hands its own over.                              *)
Insert(t, c) ==
    /\ Parent' = [Parent EXCEPT ![c] = TRUE]
    /\ next' = [next EXCEPT ![c] = Callbacks]
    /\ prev' = Assign(prev, Callbacks, c)
    /\ Callbacks' = c
    /\ order' = <<c>> \o order
    /\ \/ /\ At(t, "attach")
          /\ Stop_tokens' = Stop_tokens + 1
          /\ UNCHANGED token
       \/ /\ At(t, "attach_move")
          /\ token' = [token EXCEPT ![t] = FALSE]
          /\ UNCHANGED Stop_tokens

(* Mutant of Attach: no second look at _Stop_sources under the lock. *)
Attach_unchecked(t) ==
    /\ At(t, "attach") \/ At(t, "attach_move")
    /\ object' = [object EXCEPT ![Cb(t)] = "live"]
    /\ Insert(t, Cb(t))
    /\ Pop(t)
    /\ UNCHANGED <<Stop_sources, deleted, stopVars, calls, source, ops>>

(* The rest of _Do_attach, with the lock: stop may have been requested, or *)
(* the last source destroyed, since the fast path looked.                  *)
Attach(t) ==
    /\ At(t, "attach") \/ At(t, "attach_move")
    /\ \/ /\ Stop_requested
          /\ calls' = [calls EXCEPT ![Cb(t)] = @ + 1]
          /\ Become(t, "inline")
          /\ UNCHANGED <<Stop_tokens, listVars, object, Parent, token>>
       \/ /\ ~Stop_requested
          /\ object' = [object EXCEPT ![Cb(t)] = "live"]
          /\ \/ Stop_sources # 0 /\ Insert(t, Cb(t))
             \/ Stop_sources = 0 /\ UNCHANGED <<Stop_tokens, listVars, Parent, token>>
          /\ Pop(t)
          /\ UNCHANGED calls
    /\ UNCHANGED <<Stop_sources, deleted, stopVars, source, ops>>

-----------------------------------------------------------------------------
(* ~stop_callback: a callback that was never inserted is gone at once. *)
Destroy(t, c) ==
    /\ Begin(t)
    /\ object[c] = "live"
    /\ \/ /\ ~Parent[c]
          /\ object' = [object EXCEPT ![c] = "none"]
          /\ UNCHANGED stack
       \/ /\ Parent[c]
          /\ object' = [object EXCEPT ![c] = "destroying"]
          /\ Push(t, "detach", c)
    /\ UNCHANGED <<countVars, listVars, stopVars, Parent, calls, ownerVars>>

(* The registered callbacks without c. *)
Unlisted(c) ==
    \E i \in 1..Len(order) :
        order[i] = c /\ order' = SubSeq(order, 1, i - 1) \o SubSeq(order, i + 1, Len(order))

(* Mutant of Unlink: the successor of the old head keeps its _Prev. *)
Unlink_stale_prev(c) ==
    /\ \/ /\ c = Callbacks
          /\ Callbacks' = next[c]
          /\ UNCHANGED <<next, prev>>
       \/ /\ c # Callbacks
          /\ next' = Assign(next, prev[c], next[c])
          /\ prev' = Assign(prev, next[c], prev[c])
          /\ UNCHANGED Callbacks
    /\ Unlisted(c)

(* Take c, which is the head or has a predecessor, off the list. *)
Unlink(c) ==
    /\ \/ /\ c = Callbacks
          /\ Callbacks' = next[c]
          /\ prev' = Assign(prev, next[c], Null)
          /\ UNCHANGED next
       \/ /\ c # Callbacks
          /\ next' = Assign(next, prev[c], next[c])
          /\ prev' = Assign(prev, next[c], prev[c])
          /\ UNCHANGED Callbacks
    /\ Unlisted(c)

(* Mutant of Detach: a callback that is not in the list is never waited for. *)
Detach_at_once(t) ==
    /\ At(t, "detach")
    /\ \/ (Cb(t) = Callbacks \/ prev[Cb(t)] # Null) /\ Unlink(Cb(t))
       \/ Cb(t) # Callbacks /\ prev[Cb(t)] = Null /\ UNCHANGED listVars
    /\ Become(t, "drop")
    /\ UNCHANGED <<countVars, stopVars, objectVars, ownerVars, ops>>

(* Mutant of Detach: a callback that destroys itself waits for its own end. *)
Detach_waits_for_itself(t) ==
    /\ At(t, "detach")
    /\ \/ /\ Cb(t) = Callbacks \/ prev[Cb(t)] # Null
          /\ Unlink(Cb(t))
          /\ Become(t, "drop")
       \/ /\ Cb(t) # Callbacks /\ prev[Cb(t)] = Null
          /\ Become(t, IF Current_callback # Cb(t) THEN "drop" ELSE "wait")
          /\ UNCHANGED listVars
    /\ UNCHANGED <<countVars, stopVars, objectVars, ownerVars, ops>>

(* The critical section of _Detach: still in the list, or called already,  *)
(* or being called, by this very thread or by another.                     *)
Detach(t) ==
    /\ At(t, "detach")
    /\ \/ /\ Cb(t) = Callbacks \/ prev[Cb(t)] # Null
          /\ Unlink(Cb(t))
          /\ Become(t, "drop")
       \/ /\ Cb(t) # Callbacks /\ prev[Cb(t)] = Null
          /\ Become(t, IF Current_callback # Cb(t) \/ Stopping_thread = t
                       THEN "drop" ELSE "wait")
          /\ UNCHANGED listVars
    /\ UNCHANGED <<countVars, stopVars, objectVars, ownerVars, ops>>

(* _Current_callback.wait(this) *)
Detach_wait(t) ==
    /\ At(t, "wait")
    /\ Current_callback # Cb(t)
    /\ Become(t, "drop")
    /\ UNCHANGED <<countVars, listVars, stopVars, objectVars, ownerVars, ops>>

(* The reference that _Detach took over is dropped; the object is gone. *)
Detach_drop(t) ==
    /\ At(t, "drop")
    /\ DropReference
    /\ Parent' = [Parent EXCEPT ![Cb(t)] = FALSE]
    /\ object' = [object EXCEPT ![Cb(t)] = "none"]
    /\ Pop(t)
    /\ UNCHANGED <<Stop_sources, listVars, stopVars, calls, ownerVars, ops>>

-----------------------------------------------------------------------------
(* Tokens and sources, copied from thread t to thread u and dropped. *)

Get_token(t) ==
    /\ Begin(t)
    /\ source[t] /\ ~token[t]
    /\ Stop_tokens' = Stop_tokens + 1
    /\ token' = [token EXCEPT ![t] = TRUE]
    /\ UNCHANGED <<Stop_sources, deleted, listVars, stopVars, objectVars, source, stack>>

Copy_token(t, u) ==
    /\ Begin(t)
    /\ token[t] /\ ~token[u]
    /\ Stop_tokens' = Stop_tokens + 1
    /\ token' = [token EXCEPT ![u] = TRUE]
    /\ UNCHANGED <<Stop_sources, deleted, listVars, stopVars, objectVars, source, stack>>

Destroy_token(t) ==
    /\ Begin(t)
    /\ token[t]
    /\ DropReference
    /\ token' = [token EXCEPT ![t] = FALSE]
    /\ UNCHANGED <<Stop_sources, listVars, stopVars, objectVars, source, stack>>

Copy_source(t, u) ==
    /\ Begin(t)
    /\ source[t] /\ ~source[u]
    /\ Stop_sources' = Stop_sources + 2
    /\ source' = [source EXCEPT ![u] = TRUE]
    /\ UNCHANGED <<Stop_tokens, deleted, listVars, stopVars, objectVars, token, stack>>

(* ~stop_source; not the one whose request_stop is running. *)
Destroy_source(t) ==
    /\ Begin(t)
    /\ source[t]
    /\ \A f \in Frames(t) : f.at # "loop"
    /\ source' = [source EXCEPT ![t] = FALSE]
    /\ Stop_sources' = Stop_sources - 2
    /\ \/ Stop_sources \div 2 = 1 /\ Push(t, "last_source", Null)
       \/ Stop_sources \div 2 # 1 /\ UNCHANGED stack
    /\ UNCHANGED <<Stop_tokens, deleted, listVars, stopVars, objectVars, token>>

(* Mutant of Last_source: the last source deletes the state. *)
Last_source_deletes(t) ==
    /\ At(t, "last_source")
    /\ Stop_tokens' = Stop_tokens - 1
    /\ deleted' = TRUE
    /\ Pop(t)
    /\ UNCHANGED <<Stop_sources, listVars, stopVars, objectVars, ownerVars, ops>>

(* The last source drops the reference that the sources share. *)
Last_source(t) ==
    /\ At(t, "last_source")
    /\ DropReference
    /\ Pop(t)
    /\ UNCHANGED <<Stop_sources, listVars, stopVars, objectVars, ownerVars, ops>>

-----------------------------------------------------------------------------
Call(t) ==
    \/ Request_stop(t)
    \/ \E c \in Objects : \/ Construct(t, c, "attach")
                          \/ Construct(t, c, "attach_move")
                          \/ Destroy(t, c)
    \/ Get_token(t) \/ Destroy_token(t) \/ Destroy_source(t)
    \/ \E u \in Threads : Copy_token(t, u) \/ Copy_source(t, u)

Run(t) ==
    \/ Request_claimed(t) \/ Request_next(t) \/ Request_call(t) \/ Return(t)
    \/ Attach(t)
    \/ Detach(t) \/ Detach_wait(t) \/ Detach_drop(t)
    \/ Last_source(t)

(* Nobody is in a call: the program may stop here. *)
Terminating ==
    /\ \A t \in Threads : stack[t] = <<>>
    /\ UNCHANGED vars

Next == (\E t \in Threads : Call(t) \/ Run(t)) \/ Terminating

Spec == Init /\ [][Next]_vars

-----------------------------------------------------------------------------
(* Types; in particular no callback is ever called twice. *)
TypeOK ==
    /\ Stop_tokens \in Nat
    /\ Stop_sources \in Nat
    /\ deleted \in BOOLEAN
    /\ Callbacks \in Objects \cup {Null}
    /\ next \in [Objects -> Objects \cup {Null}]
    /\ prev \in [Objects -> Objects \cup {Null}]
    /\ Current_callback \in Objects \cup {Null}
    /\ Stopping_thread \in Threads \cup {Null}
    /\ object \in [Objects -> {"none", "constructing", "live", "destroying"}]
    /\ Parent \in [Objects -> BOOLEAN]
    /\ source \in [Threads -> BOOLEAN]
    /\ token \in [Threads -> BOOLEAN]
    /\ \A t \in Threads : \A f \in Frames(t) :
        f \in [at : StateLabels \cup FunctionLabels, cb : Objects \cup {Null}]
    /\ ops \in 0..MaxOps
    /\ order \in Seq(Objects)
    /\ calls \in [Objects -> 0..1]

Nth(i) == IF i \in 1..Len(order) THEN order[i] ELSE Null

(* The pointers of the callbacks spell the list of those registered, and   *)
(* _Detach can tell from the head and _Prev alone whether its callback is  *)
(* still in it: one that request_stop took has no _Prev.                   *)
ListIntegrity ==
    /\ Callbacks = Nth(1)
    /\ \A i \in 1..Len(order) :
        next[order[i]] = Nth(i + 1) /\ prev[order[i]] = Nth(i - 1)
    /\ \A c \in Objects :
        /\ object[c] = "live" \/ \E t \in Threads : At(t, "detach") /\ Cb(t) = c
        /\ \A i \in 1..Len(order) : order[i] # c
        => prev[c] = Null

(* A registration that races request_stop is not forgotten: once the       *)
(* request has run its course every live callback has been called.         *)
EveryoneCalled ==
    /\ Stop_requested
    /\ \A t \in Threads : \A f \in Frames(t) : f.at \notin {"claimed", "loop", "call"}
    => \A c \in Objects : object[c] = "live" => calls[c] = 1

(* The destructor of a callback returns only when no other thread is in    *)
(* its function or about to call it.                                       *)
DestroyWaits ==
    [][\A c \in Objects : object[c] = "destroying" /\ object'[c] = "none"
        => \A t \in Threads : stack'[t] = stack[t]
            => \A f \in Frames(t) : ~(f.cb = c /\ f.at \in {"call", "called"})]_vars

(* _Stop_tokens counts the tokens, the callbacks that own a reference and  *)
(* one for all sources, until the last ~stop_source has dropped it; the    *)
(* state is deleted when the count reaches zero, and nobody is then in a   *)
(* call that still uses it.                                                *)
CountsOwners ==
    /\ Stop_sources \div 2 = Cardinality({t \in Threads : source[t]})
    /\ Stop_tokens = Cardinality({t \in Threads : token[t]})
                   + Cardinality({c \in Objects : Parent[c]})
                   + Cardinality({0 : x \in {t \in Threads :
                                      source[t] \/ At(t, "last_source")}})
    /\ deleted <=> Stop_tokens = 0
    /\ deleted => \A t \in Threads : \A f \in Frames(t) : f.at \notin StateLabels

(* t has returned from its calls, a destructor that waits for a callback   *)
(* too.                                                                    *)
Returned(t) == stack[t] = <<>>

=============================================================================
