---------------------------- MODULE PointerLock ----------------------------
(***************************************************************************)
(* What _Locked_pointer promises the code that uses it: a pointer that one *)
(* thread at a time holds, reads and replaces.  Modules that treat such a  *)
(* critical section as one step rely on this contract, and module          *)
(* LockedPointer is shown to keep it.                                      *)
(***************************************************************************)
CONSTANTS Threads, Pointers, NoThread

VARIABLES
    owner,      \* the thread that holds the pointer, or NoThread
    value       \* the pointer

Init == owner = NoThread /\ value \in Pointers

Lock_and_load(t) ==
    /\ owner = NoThread
    /\ owner' = t
    /\ value' = value

Store_and_unlock(t, v) ==
    /\ owner = t
    /\ owner' = NoThread
    /\ value' = v

Next ==
    \E t \in Threads :
        Lock_and_load(t) \/ \E v \in Pointers : Store_and_unlock(t, v)

Spec == Init /\ [][Next]_<<owner, value>>

=============================================================================
