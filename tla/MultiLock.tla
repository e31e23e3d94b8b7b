------------------------------ MODULE MultiLock -------------------------------
(***************************************************************************)
(* std::lock, std::try_lock and scoped_lock on several mutexes: block on   *)
(* one of them, try the others, and back out of everything when one is     *)
(* taken (or throws) to block on that one instead.  Two locks are handled  *)
(* by the general case: _Lock_attempt_small(0, 1), then (1, 0), is         *)
(* _Lock_attempt with _Hard_lock 0 and 1.                                  *)
(***************************************************************************)
EXTENDS Integers, Sequences

CONSTANTS
    Lockers,
    N,              \* locks passed to a call
    Orders,         \* the orders a caller may name them in
    MaxBegun          \* bound: calls made altogether

None == "none"
Index == 0 .. N - 1

VARIABLES
    owner,          \* of each lock
    arg,            \* the caller's order: _LkN
    stage,
    hard,           \* _Hard_lock; -1 in try_lock
    next,           \* _Next: the lock to try
    todo,           \* indices still to unlock
    then,           \* where to go when they are
    begun

multiVars == <<owner, arg, stage, hard, next, todo, then, begun>>

InitLocks ==
    /\ owner = [l \in Index |-> None]
    /\ arg \in [Lockers -> Orders]
    /\ stage = [t \in Lockers |-> "idle"]
    /\ hard = [t \in Lockers |-> 0]
    /\ next = [t \in Lockers |-> 0]
    /\ todo = [t \in Lockers |-> <<>>]
    /\ then = [t \in Lockers |-> "idle"]
    /\ begun = 0

Proceed(t, label) == stage' = [stage EXCEPT ![t] = label]
Owner(t, i) == owner[arg[t][i]]
Own(t, i, who) == owner' = [owner EXCEPT ![arg[t][i]] = who]

(* lock, scoped_lock: o = "hard"; try_lock: o = "try". *)
Call_lock(t, o) ==
    /\ stage[t] = "idle" /\ begun < MaxBegun
    /\ begun' = begun + 1
    /\ hard' = [hard EXCEPT ![t] = IF o = "hard" THEN 0 ELSE -1]
    /\ next' = [next EXCEPT ![t] = 0]
    /\ Proceed(t, o)
    /\ UNCHANGED <<owner, arg, todo, then>>

(* _Lock_from_locks: blocks; a lock that throws leaves nothing behind. *)
Hard_lock(t) ==
    /\ stage[t] = "hard"
    /\ \/ /\ Owner(t, hard[t]) = None
          /\ Own(t, hard[t], t)
          /\ next' = [next EXCEPT ![t] = 0]
          /\ Proceed(t, "try")
       \/ /\ Proceed(t, "idle")
          /\ UNCHANGED <<owner, next>>
    /\ UNCHANGED <<arg, hard, todo, then, begun>>

Indices(a, b) == [i \in 1 .. b - a |-> a + i - 1]

(* Mutant of Backout: the locks before _Hard_lock are kept when the range  *)
(* after it fails (_Backout_start is not set to 0).                        *)
Backout_tail(t) ==
    IF next[t] < hard[t] THEN Indices(0, next[t]) \o <<hard[t]>>
    ELSE Indices(hard[t] + 1, next[t])
         \o IF hard[t] < 0 THEN <<>> ELSE <<hard[t]>>

(* What is unlocked when the try of _Next fails or throws:                 *)
(* _Try_lock_range its own part, then _Lock_attempt from _Backout_start.   *)
Backout(t) ==
    IF next[t] < hard[t] THEN Indices(0, next[t]) \o <<hard[t]>>
    ELSE Indices(hard[t] + 1, next[t]) \o Indices(0, hard[t] + 1)

Unwind(t, label) ==
    /\ todo' = [todo EXCEPT ![t] = Backout(t)]
    /\ then' = [then EXCEPT ![t] = label]
    /\ Proceed(t, "unlock")

(* One turn of the loop of _Try_lock_range, around _Hard_lock. *)
Try_lock(t) ==
    /\ stage[t] = "try"
    /\ \/ /\ next[t] = N
          /\ Proceed(t, "holding")
          /\ UNCHANGED <<owner, hard, next, todo, then>>
       \/ /\ next[t] < N /\ next[t] = hard[t]
          /\ next' = [next EXCEPT ![t] = @ + 1]
          /\ UNCHANGED <<owner, stage, hard, todo, then>>
       \/ /\ next[t] < N /\ next[t] # hard[t] /\ Owner(t, next[t]) = None
          /\ Own(t, next[t], t)
          /\ next' = [next EXCEPT ![t] = @ + 1]
          /\ UNCHANGED <<stage, hard, todo, then>>
       \/ /\ next[t] < N /\ next[t] # hard[t] /\ Owner(t, next[t]) # None
          /\ Unwind(t, IF hard[t] < 0 THEN "idle" ELSE "hard")
          /\ hard' = [hard EXCEPT ![t] = next[t]]
          /\ UNCHANGED <<owner, next>>
       \/ /\ next[t] < N /\ next[t] # hard[t]
          /\ Unwind(t, "idle")
          /\ UNCHANGED <<owner, hard, next>>
    /\ UNCHANGED <<arg, begun>>

(* ~scoped_lock, or the caller's unlocks *)
Release(t) ==
    /\ stage[t] = "holding"
    /\ todo' = [todo EXCEPT ![t] = Indices(0, N)]
    /\ then' = [then EXCEPT ![t] = "idle"]
    /\ Proceed(t, "unlock")
    /\ UNCHANGED <<owner, arg, hard, next, begun>>

(* _Unlock_locks, one lock at a time. *)
Unlock_locks(t) ==
    /\ stage[t] = "unlock"
    /\ IF todo[t] = <<>>
       THEN Proceed(t, then[t]) /\ UNCHANGED <<owner, todo>>
       ELSE /\ Own(t, Head(todo[t]), None)
            /\ todo' = [todo EXCEPT ![t] = Tail(@)]
            /\ UNCHANGED stage
    /\ UNCHANGED <<arg, hard, next, then, begun>>

LockingStep(t) == Hard_lock(t) \/ Try_lock(t) \/ Release(t) \/ Unlock_locks(t)

NextLocking == \E t \in Lockers : LockingStep(t) \/ \E o \in {"hard", "try"} : Call_lock(t, o)

LockingSpec == InitLocks /\ [][NextLocking]_multiVars

-----------------------------------------------------------------------------
Owned(t) == {l \in Index : owner[l] = t}

(* A thread that blocks in lock holds nothing, so calls of lock never wait *)
(* for each other in a circle; a call that returns holds all of its locks, *)
(* and one that fails or throws holds none; no lock is unlocked by a       *)
(* thread that does not own it.                                            *)
AllOrNothing ==
    \A t \in Lockers :
        /\ stage[t] \in {"hard", "idle"} => Owned(t) = {}
        /\ stage[t] = "holding" => Owned(t) = Index
        /\ \A i \in 1 .. Len(todo[t]) : Owner(t, todo[t][i]) = t

=============================================================================
