----------------------------- MODULE LibraryLocks ------------------------------
(***************************************************************************)
(* xlock.cpp, xmtx.cpp and the wrap-up list of iosptrs.cpp.  Every unit of *)
(* the library, and a DLL that comes and goes, has an _Init_locks object;  *)
(* the first makes the mutexes and the last destroys them.  Threads lock   *)
(* them through nested _Lockit objects.  At exit the static objects are    *)
(* destroyed in reverse order; that of iosptrs.cpp runs the wrap-up list.  *)
(* The variants for /clr:pure are left out.                                *)
(***************************************************************************)
EXTENDS Integers, Sequences, SequencesExt

CONSTANTS
    Threads,
    MaxDepth,       \* bound: nested locks of a thread
    Nats            \* room of the wrap-up list

Units == {"iosptrs", "xlock"}
Dll == "dll"
Max_lock == 8
LOCK_LOCALE == 0
LOCK_STREAM == 2
LOCK_AT_THREAD_EXIT == 4
Kinds == {LOCK_LOCALE, LOCK_STREAM, LOCK_STREAM + Max_lock}
Locales == -1           \* the lock of the C runtime's locales
Nothing == -2
Mutexes == {Locales, LOCK_STREAM, LOCK_AT_THREAD_EXIT}

VARIABLES
    phase,          \* "start", "run", "exit", "ended" or "aborted"
    order,          \* the _Init_locks objects alive, in order of construction
    init, live,     \* their count from -1, and times the mutexes were made
    stack,          \* of each thread: the locks it is in, outermost first
    owner, depth,   \* of each critical section
    atfuns, ran     \* functions to run at exit; ghost: those that have run

vars == <<phase, order, init, live, stack, owner, depth, atfuns, ran>>

None == "none"

Init ==
    /\ phase = "start" /\ order = <<>> /\ init = -1 /\ live = 0
    /\ stack = [t \in Threads |-> <<>>]
    /\ owner = [m \in Mutexes |-> None] /\ depth = [m \in Mutexes |-> 0]
    /\ atfuns = <<>> /\ ran = <<>>

-----------------------------------------------------------------------------
lockVars == <<stack, owner, depth>>
exitVars == <<atfuns, ran>>

Init_locks_ctor(u) ==
    /\ order' = Append(order, u)
    /\ init' = init + 1
    /\ live' = IF init + 1 = 0 THEN live + 1 ELSE live

Init_locks_dtor(u) ==
    /\ order' = SelectSeq(order, LAMBDA v : v # u)
    /\ init' = init - 1
    /\ live' = IF init - 1 < 0 THEN live - 1 ELSE live

(* The static objects are made, the loader loads and unloads the DLL. *)
Start ==
    /\ phase = "start" /\ UNCHANGED <<lockVars, exitVars>>
    /\ \E u \in Units \ Range(order) :
          /\ Init_locks_ctor(u)
          /\ phase' = IF Units = Range(order') THEN "run" ELSE "start"

Load == phase = "run" /\ Dll \notin Range(order) /\ Init_locks_ctor(Dll) /\ UNCHANGED <<phase, lockVars, exitVars>>
Unload == phase = "run" /\ Dll \in Range(order) /\ Init_locks_dtor(Dll) /\ UNCHANGED <<phase, lockVars, exitVars>>

-----------------------------------------------------------------------------
(* Win32 critical sections are recursive. *)
Mtxlock(t, m) ==
    /\ owner[m] \in {None, t}
    /\ owner' = [owner EXCEPT ![m] = t] /\ depth' = [depth EXCEPT ![m] = @ + 1]

Mtxunlock(t, m) ==
    /\ depth' = [depth EXCEPT ![m] = @ - 1]
    /\ owner' = [owner EXCEPT ![m] = IF depth[m] = 1 THEN None ELSE @]

(* What a _Lockit object locks, and what the static functions do. *)
Object_mutex(kind) ==
    CASE kind = LOCK_LOCALE -> Locales
      [] kind < Max_lock -> kind
      [] OTHER -> Nothing
Static_mutex(kind) == IF kind = LOCK_LOCALE THEN Locales ELSE kind % Max_lock

Push(t, form, kind) == stack' = [stack EXCEPT ![t] = Append(@, [form |-> form, kind |-> kind])]
Lockit_ctor(t) ==
    \E kind \in Kinds :
        /\ IF Object_mutex(kind) = Nothing THEN UNCHANGED <<owner, depth>> ELSE Mtxlock(t, Object_mutex(kind))
        /\ Push(t, "object", kind)
Lockit_static_ctor(t) ==
    \E kind \in Kinds : Mtxlock(t, Static_mutex(kind)) /\ Push(t, "static", kind)
Lock_at_thread_exit_mutex(t) ==
    Mtxlock(t, LOCK_AT_THREAD_EXIT) /\ Push(t, "exit", LOCK_AT_THREAD_EXIT)

Innermost(t, form) == stack[t] # <<>> /\ Last(stack[t]).form = form
Pop(t) == stack' = [stack EXCEPT ![t] = Front(@)]
Lockit_dtor(t) ==
    LET m == Object_mutex(Last(stack[t]).kind)
    IN  /\ Innermost(t, "object") /\ Pop(t)
        /\ IF m = Nothing THEN UNCHANGED <<owner, depth>> ELSE Mtxunlock(t, m)
Lockit_static_dtor(t) ==
    Innermost(t, "static") /\ Mtxunlock(t, Static_mutex(Last(stack[t]).kind)) /\ Pop(t)
Unlock_at_thread_exit_mutex(t) ==
    Innermost(t, "exit") /\ Mtxunlock(t, LOCK_AT_THREAD_EXIT) /\ Pop(t)

Lock(t) ==
    /\ phase = "run" /\ Len(stack[t]) < MaxDepth
    /\ Lockit_ctor(t) \/ Lockit_static_ctor(t) \/ Lock_at_thread_exit_mutex(t)
    /\ UNCHANGED <<phase, order, init, live, exitVars>>
Unlock(t) ==
    /\ Lockit_dtor(t) \/ Lockit_static_dtor(t) \/ Unlock_at_thread_exit_mutex(t)
    /\ UNCHANGED <<phase, order, init, live, exitVars>>

-----------------------------------------------------------------------------
(* A function is known by its number. *)
Registered == Len(atfuns) + Len(ran)
Atexit ==
    IF Len(atfuns) = Nats THEN phase' = "aborted" /\ UNCHANGED atfuns
    ELSE atfuns' = Append(atfuns, Registered + 1) /\ UNCHANGED phase

Register ==
    /\ phase = "run" /\ Registered <= Nats /\ \A t \in Threads : stack[t] = <<>>
    /\ Atexit /\ UNCHANGED <<order, init, live, lockVars, ran>>

Exit ==
    /\ phase = "run" /\ \A t \in Threads : stack[t] = <<>>
    /\ phase' = "exit" /\ UNCHANGED <<order, init, live, lockVars, exitVars>>

(* ~_Init_atexit: a function is off the list when it is called, and may    *)
(* register another.                                                       *)
Wrapping_up == phase = "exit" /\ order # <<>> /\ Last(order) = "iosptrs" /\ atfuns # <<>>
Init_atexit_dtor ==
    /\ Wrapping_up
    /\ ran' = Append(ran, Last(atfuns))
    /\ atfuns' \in {Front(atfuns)} \cup
                   (IF Registered <= Nats THEN {Append(Front(atfuns), Registered + 1)} ELSE {})
    /\ UNCHANGED <<phase, order, init, live, lockVars>>

Destroy_statics ==
    /\ phase = "exit" /\ order # <<>> /\ ~Wrapping_up
    /\ Init_locks_dtor(Last(order))
    /\ phase' = IF order' = <<>> THEN "ended" ELSE "exit"
    /\ UNCHANGED <<lockVars, exitVars>>

Next ==
    \/ Start \/ Load \/ Unload \/ Register \/ Exit \/ Init_atexit_dtor \/ Destroy_statics
    \/ \E t \in Threads : Lock(t) \/ Unlock(t)

Spec == Init /\ [][Next]_vars

-----------------------------------------------------------------------------
(* The mutexes exist exactly while somebody has an _Init_locks object, so  *)
(* that they can be locked in the program and by the functions that run at *)
(* its end; a critical section is entered as often as its owner's locks    *)
(* name it, and a program that ends has run every function it registered.  *)
LocksCounted ==
    /\ live = (IF order = <<>> THEN 0 ELSE 1)
    /\ (\E t \in Threads : stack[t] # <<>>) \/ Wrapping_up => live = 1
    /\ \A m \in Mutexes : \A t \in Threads :
          LET Names(l) == CASE l.form = "object" -> Object_mutex(l.kind) = m
                            [] l.form = "static" -> Static_mutex(l.kind) = m
                            [] l.form = "exit" -> m = LOCK_AT_THREAD_EXIT
              entered == Len(SelectSeq(stack[t], Names))
          IN  IF owner[m] = t THEN depth[m] = entered /\ entered > 0 ELSE entered = 0
    /\ phase = "ended" => atfuns = <<>> /\ Range(ran) = 1 .. Len(ran)

=============================================================================
