------------------------------ MODULE ThreadExit -------------------------------
(***************************************************************************)
(* The life of a thread of cthread.cpp: the handshake of _Thrd_create with *)
(* _Thrd_runner over a mutex and a condition variable on the creator's     *)
(* stack, and the table of xnotify.cpp of the mutexes to unlock and        *)
(* condition variables to notify when the thread exits.  The table is only *)
(* used under its own lock: its operations are one step each.              *)
(***************************************************************************)
EXTENDS Integers, Sequences, FiniteSets

CONSTANTS
    Threads,        \* created one after the other
    Mutexes,
    Nitems,         \* slots in a block
    MaxBlocks       \* bound: blocks the memory has room for

None == "none"
Creator == "creator"
Slots == 1 .. Nitems

VARIABLES
    table,          \* blocks of [data, num_used]
    owed,           \* mutexes registered, and the thread that locked them
    mtx, started, signalled, binder,  \* the handshake; binder: not yet destroyed
    current,        \* the thread being created
    pc

tableVars == <<table, owed>>
handshake == <<mtx, started, signalled, binder, current>>
vars == <<tableVars, handshake, pc>>

Empty == [id |-> None, mtx |-> None]
Block == [data |-> [i \in Slots |-> Empty], num_used |-> 0]

Init ==
    /\ table = <<Block>>
    /\ owed = {}
    /\ mtx = None /\ started = FALSE /\ signalled = FALSE /\ binder = FALSE
    /\ current = None
    /\ pc = [t \in Threads \union {Creator} |-> "none"]

Goto(t, label) == pc' = [pc EXCEPT ![t] = label]

-----------------------------------------------------------------------------
(* _Thrd_create: initialise, lock and start the thread, which may fail. *)
Thrd_create(t) ==
    /\ pc[Creator] = "none" /\ pc[t] = "none"
    /\ mtx' = Creator
    /\ started' = FALSE /\ signalled' = FALSE
    /\ \/ /\ binder' = TRUE
          /\ current' = t
          /\ pc' = [pc EXCEPT ![Creator] = "test", ![t] = "begun"]
       \/ /\ pc' = [pc EXCEPT ![Creator] = "destroy"]
          /\ UNCHANGED <<current, binder>>
    /\ UNCHANGED tableVars

(* while (!started) _Cnd_wait *)
Test_started ==
    /\ pc[Creator] = "test"
    /\ IF started
       THEN Goto(Creator, "destroy") /\ UNCHANGED <<mtx, signalled>>
       ELSE Goto(Creator, "wait") /\ mtx' = None /\ signalled' = FALSE
    /\ UNCHANGED <<tableVars, started, binder, current>>

(* A wait ends by the signal or without a cause. *)
Wake ==
    /\ pc[Creator] = "wait" /\ mtx = None
    /\ mtx' = Creator
    /\ Goto(Creator, "test")
    /\ UNCHANGED <<tableVars, started, signalled, binder, current>>

Destroy ==
    /\ pc[Creator] = "destroy"
    /\ mtx' = None
    /\ binder' = FALSE
    /\ Goto(Creator, "none")
    /\ UNCHANGED <<tableVars, started, signalled, current>>

(* _Thrd_runner: lock, started = 1, signal, unlock, and the function. *)
Runner_lock(t) ==
    /\ pc[t] = "begun" /\ mtx = None
    /\ mtx' = t
    /\ started' = TRUE
    /\ Goto(t, "signal")
    /\ UNCHANGED <<tableVars, signalled, binder, current>>

Runner_signal(t) ==
    /\ pc[t] = "signal"
    /\ signalled' = (pc[Creator] = "wait")
    /\ Goto(t, "unlock")
    /\ UNCHANGED <<tableVars, mtx, started, binder, current>>

Runner_unlock(t) ==
    /\ pc[t] = "unlock"
    /\ mtx' = None
    /\ Goto(t, "running")
    /\ UNCHANGED <<tableVars, started, signalled, binder, current>>

-----------------------------------------------------------------------------
(* The first block with room, which is appended when all are full. *)
Room == {b \in 1 .. Len(table) : table[b].num_used < Nitems}
First(S) == CHOOSE i \in S : \A j \in S : i <= j

Fill(b, slot) ==
    [b EXCEPT !.data[First({i \in Slots : b.data[i].mtx = None})] = slot,
              !.num_used = @ + 1]

(* _Cnd_register_at_thread_exit, for a mutex the thread has locked.        *)
(* Without memory for a block nothing is registered.                       *)
Cnd_register_at_thread_exit(t, m) ==
    /\ pc[t] = "running" /\ \A o \in owed : o.mtx # m
    /\ LET slot == [id |-> t, mtx |-> m] IN
        \/ /\ Room # {}
           /\ table' = [table EXCEPT ![First(Room)] = Fill(@, slot)]
           /\ owed' = owed \union {slot}
        \/ /\ Room = {} /\ Len(table) < MaxBlocks
           /\ table' = Append(table, Fill(Block, slot))
           /\ owed' = owed \union {slot}
        \/ /\ Room = {}
           /\ UNCHANGED tableVars
    /\ UNCHANGED <<handshake, pc>>

(* Mutant of Release: num_used is not decremented. *)
Release_uncounted(S) ==
    [b \in 1 .. Len(table) |->
        [table[b] EXCEPT !.data = [i \in Slots |->
            IF @[i] \in S /\ table[b].num_used # 0 THEN Empty ELSE @[i]]]]

(* The loop over the blocks that releases the slots in S; it looks into a  *)
(* block only while num_used is not zero.                                  *)
Release(S) ==
    [b \in 1 .. Len(table) |->
        LET hit == {i \in Slots : table[b].data[i] \in S /\ table[b].num_used # 0} IN
        [data |-> [i \in Slots |-> IF i \in hit THEN Empty ELSE table[b].data[i]],
         num_used |-> table[b].num_used - Cardinality(hit)]]

(* _Cnd_unregister_at_thread_exit: the state of m is destroyed. *)
Cnd_unregister_at_thread_exit(m) ==
    /\ \E o \in owed : o.mtx = m
    /\ table' = Release({[id |-> t, mtx |-> m] : t \in Threads})
    /\ owed' = {o \in owed : o.mtx # m}
    /\ UNCHANGED <<handshake, pc>>

(* _Cnd_do_broadcast_at_thread_exit, the last thing a thread does. *)
Cnd_do_broadcast_at_thread_exit(t) ==
    /\ pc[t] = "running"
    /\ table' = Release({[id |-> t, mtx |-> m] : m \in Mutexes})
    /\ owed' = {o \in owed : o.id # t}
    /\ Goto(t, "exited")
    /\ UNCHANGED handshake

-----------------------------------------------------------------------------
Run(t) == Runner_lock(t) \/ Runner_signal(t) \/ Runner_unlock(t)

Next ==
    \/ Test_started \/ Wake \/ Destroy
    \/ \E t \in Threads :
        \/ Thrd_create(t) \/ Run(t)
        \/ \E m \in Mutexes : Cnd_register_at_thread_exit(t, m)
        \/ Cnd_do_broadcast_at_thread_exit(t)
    \/ \E m \in Mutexes : Cnd_unregister_at_thread_exit(m)

Spec == Init /\ [][Next]_vars

-----------------------------------------------------------------------------
Used(b) == {i \in Slots : table[b].data[i].mtx # None}

(* What waits for the exit of a thread is in the table once and until the  *)
(* thread exits or the state is destroyed, through any growth and reuse of *)
(* the slots: num_used, on which the loops stop, counts the slots in use.  *)
TableExact ==
    /\ \A b \in 1 .. Len(table) : table[b].num_used = Cardinality(Used(b))
    /\ owed = UNION {{table[b].data[i] : i \in Used(b)} : b \in 1 .. Len(table)}
    /\ \A o \in owed : pc[o.id] = "running"

(* The thread is done with the creator's mutex and condition variable when *)
(* _Thrd_create destroys them, and the creator never sleeps on after the   *)
(* thread has started without a signal given or coming.                    *)
Handshake ==
    /\ \A t \in Threads : pc[t] \in {"begun", "signal", "unlock"} =>
                            t = current /\ binder
    /\ pc[Creator] = "wait" /\ started => signalled \/ pc[current] = "signal"

=============================================================================
