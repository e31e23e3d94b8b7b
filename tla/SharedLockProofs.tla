-------------------------- MODULE SharedLockProofs ---------------------------
(***************************************************************************)
(* Proofs about SharedTimedMutex, for any finite set of threads and any    *)
(* _Max_readers: readers or one writer, through time-outs, wakes without a *)
(* cause and notifications decided from stale values, and nobody asleep    *)
(* for a mutex that is free.  And about MultiLock, for any threads, any    *)
(* number of locks and any orders the callers name them in: lock and       *)
(* try_lock take all or nothing.                                           *)
(***************************************************************************)
EXTENDS SharedTimedMutex, MultiLock, FiniteSetTheorems, TLAPS

USE DEF Exclusively, Shared, Tries, Timed

(* Each leaf is tried with SMT, then with Zenon, then with more time. *)
USE SMTT(10), ZenonT(10), SMTT(30)

(* The threads _Writing stands for. *)
Writers == Holding("exclusive")
            \union {t \in Threads : pc[t] \in {"drain", "draining"}}

(* The part of TypeOK the proof needs. *)
Typed ==
    /\ Readers \in Nat
    /\ Writing \in BOOLEAN
    /\ pc \in [Threads -> {"idle", "enter", "enter_shared", "asleep", "drain",
                           "draining", "notify_writers", "notify_reader"}]
    /\ holds \in [Threads -> {"no", "shared", "exclusive"}]

(* A thread inside a call holds nothing; there is a writer exactly when    *)
(* _Writing is set, and one at most; a writer that has the mutex has       *)
(* waited for the readers to leave.                                        *)
IInv ==
    /\ Typed
    /\ \A t \in Threads : pc[t] # "idle" => holds[t] = "no"
    /\ Writing <=> Writers # {}
    /\ \A t, u \in Writers : t = u
    /\ Readers = Cardinality(Holding("shared"))
    /\ Holding("exclusive") # {} => Holding("shared") = {}

-----------------------------------------------------------------------------
(* Nobody holds the mutex at the start. *)
LEMMA InitIInv == Init => IInv
<1> SUFFICES ASSUME Init PROVE IInv
  OBVIOUS
<1>1. Holding("shared") = {} /\ Holding("exclusive") = {} /\ Writers = {}
  BY DEF Init, Holding, Writers
<1>2. Typed
  BY DEF Init, Typed
<1> QED
  BY <1>1, <1>2, FS_EmptySet DEF Init, IInv

(* A step of a thread that neither gains nor loses the mutex or _Writing. *)
LEMMA SameHolders ==
    ASSUME IInv, Typed', Readers' = Readers, Writing' = Writing, holds' = holds,
           NEW t \in Threads,
           \A u \in Threads \ {t} : pc'[u] = pc[u],
           pc'[t] # "idle" => holds[t] = "no",
           pc[t] \in {"drain", "draining"} <=> pc'[t] \in {"drain", "draining"}
    PROVE  IInv'
<1>1. Holding("shared")' = Holding("shared") /\ Holding("exclusive")' = Holding("exclusive")
  BY DEF Holding
<1>2. Writers' = Writers
  BY <1>1 DEF Writers
<1> QED
  BY <1>1, <1>2 DEF IInv

(* Drain: _Writing belongs to the thread, or it gives it back. *)
LEMMA DrainIInv ==
    ASSUME IsFiniteSet(Threads), IInv, NEW t \in Threads, Drain(t), Readers' = Readers,
           \/ pc[t] = "enter" /\ ~Writing
           \/ pc[t] = "drain"
    PROVE  IInv'
<1>0. IsFiniteSet(Holding("shared"))
  BY FS_Subset DEF Holding
<1>1. Writers \ {t} = {} /\ holds[t] = "no" /\ Holding("exclusive") = {}
  BY DEF IInv, Writers, Holding
<1>2. Typed'
  BY DEF IInv, Typed, Drain, Granted, Goto
<1>3. Holding("shared")' = Holding("shared")
  BY <1>1 DEF Drain, Granted, Holding, IInv, Typed
<1>4. CASE Readers = 0 /\ Granted(t, "exclusive") /\ Writing' = TRUE
  <2>1. Holding("shared") = {}
    BY <1>0, <1>4, FS_EmptySet DEF IInv
  <2>2. Holding("exclusive")' = {t}
    BY <1>1, <1>4 DEF Granted, Holding, IInv, Typed
  <2>3. Writers' = {t}
    <3>1. \A u \in Threads : pc'[u] \in {"drain", "draining"} => u \in Writers /\ u # t
      BY <1>4 DEF Granted, Goto, Writers, IInv, Typed
    <3> QED
      BY <1>1, <2>2, <3>1 DEF Writers
  <2>4. \A u \in Threads : pc'[u] # "idle" => holds'[u] = "no"
    BY <1>4 DEF Granted, Goto, IInv, Typed
  <2> QED
    BY <1>2, <1>3, <1>4, <2>1, <2>2, <2>3, <2>4 DEF IInv
<1>5. CASE Goto(t, "draining") /\ Writing' = TRUE /\ UNCHANGED holds
  <2>1. Holding("exclusive")' = {}
    BY <1>1, <1>5 DEF Holding
  <2>2. Writers' = {t}
    <3>1. \A u \in Threads : pc'[u] \in {"drain", "draining"} <=> u \in Writers \/ u = t
      BY <1>1, <1>5 DEF Goto, Writers, IInv, Typed
    <3> QED
      BY <1>1, <2>1, <3>1 DEF Writers
  <2>3. \A u \in Threads : pc'[u] # "idle" => holds'[u] = "no"
    BY <1>1, <1>5 DEF Goto, IInv, Typed
  <2> QED
    BY <1>2, <1>3, <1>5, <2>1, <2>2, <2>3 DEF IInv
<1>6. CASE Goto(t, "notify_writers") /\ Writing' = FALSE /\ UNCHANGED holds
  <2>1. Holding("exclusive")' = {}
    BY <1>1, <1>6 DEF Holding
  <2>2. Writers' = {}
    <3>1. \A u \in Threads : pc'[u] \in {"drain", "draining"} => u \in Writers /\ u # t
      BY <1>6 DEF Goto, Writers, IInv, Typed
    <3> QED
      BY <1>1, <2>1, <3>1 DEF Writers
  <2>3. \A u \in Threads : pc'[u] # "idle" => holds'[u] = "no"
    BY <1>1, <1>6 DEF Goto, IInv, Typed
  <2> QED
    BY <1>2, <1>3, <1>6, <2>1, <2>2, <2>3 DEF IInv
<1> QED
  BY <1>4, <1>5, <1>6 DEF Drain

-----------------------------------------------------------------------------
(* A reader comes. *)
LEMMA SharedIInv ==
    ASSUME IsFiniteSet(Threads), IInv, NEW t \in Threads, pc[t] = "enter_shared",
           ~Writing, Readers' = Readers + 1, Granted(t, "shared"), UNCHANGED Writing
    PROVE  IInv'
<1>1. holds[t] = "no" /\ Writers = {} /\ Holding("exclusive") = {}
  BY DEF IInv, Writers
<1>2. Holding("shared")' = Holding("shared") \cup {t} /\ t \notin Holding("shared")
  BY <1>1 DEF Granted, Holding, IInv, Typed
<1>3. IsFiniteSet(Holding("shared"))
  BY FS_Subset DEF Holding
<1>4. Readers' = Cardinality(Holding("shared")')
  BY <1>2, <1>3, FS_AddElement DEF IInv
<1>5. Holding("exclusive")' = {}
  BY <1>1 DEF Granted, Holding, IInv, Typed
<1>6. Writers' = {}
  <2>1. \A u \in Threads : pc'[u] \in {"drain", "draining"} => u \in Writers
    BY DEF Granted, Goto, Writers, IInv, Typed
  <2> QED
    BY <1>1, <1>5, <2>1 DEF Writers
<1>7. Typed' /\ \A u \in Threads : pc'[u] # "idle" => holds'[u] = "no"
  BY DEF Granted, Goto, IInv, Typed
<1> QED
  BY <1>4, <1>5, <1>6, <1>7 DEF IInv

(* A reader leaves. *)
LEMMA UnlockSharedIInv ==
    ASSUME IsFiniteSet(Threads), IInv, NEW t \in Threads, Unlock_shared(t)
    PROVE  IInv'
<1>1. PICK label \in {"notify_reader", "notify_writers", "idle"} :
        pc' = [pc EXCEPT ![t] = label]
  BY DEF Unlock_shared, Goto
<1>2. /\ pc[t] = "idle" /\ holds[t] = "shared" /\ Writing' = Writing
      /\ Readers' = Readers - 1 /\ holds' = [holds EXCEPT ![t] = "no"]
  BY DEF Unlock_shared
<1>3. Holding("shared")' = Holding("shared") \ {t} /\ t \in Holding("shared")
  BY <1>2 DEF Holding, IInv, Typed
<1>4. IsFiniteSet(Holding("shared"))
  BY FS_Subset DEF Holding
<1>5. /\ Cardinality(Holding("shared")') = Cardinality(Holding("shared")) - 1
      /\ Cardinality(Holding("shared")') \in Nat
  <2>1. IsFiniteSet(Holding("shared")')
    BY <1>3, <1>4, FS_RemoveElement
  <2> QED
    BY <1>3, <1>4, <2>1, FS_RemoveElement, FS_CardinalityType
<1>6. Readers' = Cardinality(Holding("shared")') /\ Readers' \in Nat
  BY <1>2, <1>5 DEF IInv
<1>7. Holding("exclusive")' = Holding("exclusive")
  BY <1>2 DEF Holding, IInv, Typed
<1>8. Writers' = Writers
  BY <1>1, <1>2, <1>7 DEF Writers, IInv, Typed
<1>9. Typed' /\ \A u \in Threads : pc'[u] # "idle" => holds'[u] = "no"
  BY <1>1, <1>2, <1>6 DEF IInv, Typed
<1> QED
  BY <1>2, <1>3, <1>6, <1>7, <1>8, <1>9 DEF IInv

(* The writer leaves. *)
LEMMA UnlockIInv ==
    ASSUME IInv, NEW t \in Threads, Unlock(t)
    PROVE  IInv'
<1>1. t \in Holding("exclusive") /\ t \in Writers /\ Holding("shared") = {}
  BY DEF Unlock, Holding, Writers, IInv
<1>2. Holding("shared")' = {} /\ Holding("exclusive")' = Holding("exclusive") \ {t}
  BY <1>1 DEF Unlock, Holding, IInv, Typed
<1>3. Writers' = {}
  <2>1. \A u \in Threads : pc'[u] \in {"drain", "draining"} => u \in Writers /\ u # t
    BY DEF Unlock, Goto, Writers, IInv, Typed
  <2>2. \A u \in Writers : u = t
    BY <1>1 DEF IInv
  <2> QED
    BY <1>2, <2>1, <2>2 DEF Writers
<1>4. Typed' /\ \A u \in Threads : pc'[u] # "idle" => holds'[u] = "no"
  BY DEF Unlock, Goto, IInv, Typed
<1>5. Writing' = FALSE /\ Readers' = Readers
  BY DEF Unlock
<1> QED
  BY <1>1, <1>2, <1>3, <1>4, <1>5 DEF IInv

-----------------------------------------------------------------------------
(* A refused call sleeps or returns. *)
LEMMA RefuseIInv ==
    ASSUME IInv, NEW t \in Threads, Refuse(t), pc[t] \in {"enter", "enter_shared"}
    PROVE  IInv'
<1>1. PICK label \in {"idle", "asleep"} : pc' = [pc EXCEPT ![t] = label]
  BY DEF Refuse, Goto
<1>2. Readers' = Readers /\ Writing' = Writing /\ holds' = holds /\ holds[t] = "no"
  BY DEF Refuse, IInv
<1>3. Typed'
  BY <1>1, <1>2 DEF IInv, Typed
<1>4. \A u \in Threads \ {t} : pc'[u] = pc[u]
  BY <1>1 DEF IInv, Typed
<1>5. pc'[t] \in {"idle", "asleep"}
  BY <1>1 DEF IInv, Typed
<1> QED
  BY <1>2, <1>3, <1>4, <1>5, SameHolders

(* The steps that only move a thread. *)
LEMMA MovesIInv ==
    ASSUME IInv, NEW t \in Threads,
           \/ \E o \in Exclusively \union Shared : Call(t, o)
           \/ Wake(t) \/ Wake_drain(t) \/ Notify(t) \/ Deadline_passes(t)
    PROVE  IInv'
<1> USE DEF Goto
<1>1. Readers' = Readers /\ Writing' = Writing /\ holds' = holds
  BY DEF Call, Wake, Wake_drain, Notify, Deadline_passes
<1>2. CASE Deadline_passes(t)
  BY <1>1, <1>2, SameHolders DEF Deadline_passes, IInv, Typed
<1>3. ASSUME NEW o \in Exclusively \union Shared, Call(t, o) PROVE IInv'
  <2>1. holds[t] = "no" /\ pc[t] = "idle"
        /\ \E label \in {"enter", "enter_shared"} : pc' = [pc EXCEPT ![t] = label]
    BY <1>3 DEF Call
  <2> QED
    BY <1>1, <2>1, SameHolders DEF IInv, Typed
<1>4. CASE Wake(t)
  <2>1. pc[t] = "asleep"
        /\ \E label \in {"enter", "enter_shared"} : pc' = [pc EXCEPT ![t] = label]
    BY <1>4 DEF Wake
  <2> QED
    BY <1>1, <2>1, SameHolders DEF IInv, Typed
<1>5. CASE Wake_drain(t)
  BY <1>1, <1>5, SameHolders DEF Wake_drain, IInv, Typed
<1>6. CASE Notify(t)
  <2>1. pc[t] \in {"notify_writers", "notify_reader"} /\ pc' = [pc EXCEPT ![t] = "idle"]
    BY <1>6 DEF Notify
  <2> QED
    BY <1>1, <2>1, SameHolders DEF IInv, Typed
<1> QED
  BY <1>2, <1>3, <1>4, <1>5, <1>6

(* The invariant is inductive. *)
LEMMA NextIInv ==
    ASSUME IsFiniteSet(Threads)
    PROVE  IInv /\ [Next]_vars => IInv'
<1> SUFFICES ASSUME IInv, [Next]_vars PROVE IInv'
  OBVIOUS
<1>1. CASE UNCHANGED vars
  <2>1. Writers' = Writers /\ Holding("shared")' = Holding("shared")
        /\ Holding("exclusive")' = Holding("exclusive")
    BY <1>1 DEF vars, Writers, Holding
  <2> QED
    BY <1>1, <2>1 DEF vars, IInv, Typed
<1>2. ASSUME NEW t \in Threads, Enter(t) PROVE IInv'
  BY <1>2, RefuseIInv, DrainIInv DEF Enter
<1>3. ASSUME NEW t \in Threads, Enter_shared(t) PROVE IInv'
  BY <1>3, RefuseIInv, SharedIInv DEF Enter_shared
<1>4. ASSUME NEW t \in Threads, Drain_again(t) PROVE IInv'
  BY <1>4, DrainIInv DEF Drain_again
<1> QED
  BY <1>1, <1>2, <1>3, <1>4, UnlockIInv, UnlockSharedIInv, MovesIInv DEF Next, Step

(* The invariant says what the counts do. *)
LEMMA IInvReaders == IInv => ReadersOrWriter
<1> SUFFICES ASSUME IInv PROVE ReadersOrWriter
  OBVIOUS
<1>1. CASE Writing
  <2>1. PICK t \in Writers : Writers = {t}
    BY <1>1 DEF IInv
  <2> QED
    BY <1>1, <2>1, FS_Singleton DEF IInv, ReadersOrWriter, Writers
<1>2. CASE ~Writing
  <2>1. Writers = {}
    BY <1>2 DEF IInv
  <2> QED
    BY <1>2, <2>1, FS_EmptySet DEF IInv, ReadersOrWriter, Writers
<1> QED
  BY <1>1, <1>2 DEF IInv, Typed

-----------------------------------------------------------------------------
(* What the constants are. *)
Bounded == IsFiniteSet(Threads) /\ Max_readers \in Nat \ {0} /\ MaxOps \in Nat

(* The rest of the types, and the writer that sleeps in _Read_queue. *)
Types == TypeOK /\ \A t \in Read_queue : pc[t] = "draining"

(* Of a new mutex. *)
LEMMA InitTypes ==
    ASSUME Bounded
    PROVE  Init => Types /\ NobodyStranded
<1> SUFFICES ASSUME Init PROVE Types /\ NobodyStranded
  OBVIOUS
<1>1. 0 \in 0 .. Max_readers /\ 0 \in 0 .. MaxOps
  BY DEF Bounded
<1>2. TypeOK
  BY <1>1 DEF Init, TypeOK
<1> QED
  BY <1>2 DEF Init, Types, NobodyStranded

(* The calls keep the types: _Readers stays below _Max_readers. *)
LEMMA NextTypes ==
    ASSUME Bounded, IInv, IInv', Types, [Next]_vars
    PROVE  Types'
<1> USE DEF Goto, Granted
<1>1. /\ TypeOK /\ \A u \in Read_queue : pc[u] = "draining"
      /\ Readers' \in Nat /\ Writing' \in BOOLEAN
      /\ pc' \in [Threads -> {"idle", "enter", "enter_shared", "asleep", "drain",
                              "draining", "notify_writers", "notify_reader"}]
      /\ holds' \in [Threads -> {"no", "shared", "exclusive"}]
  BY DEF Types, IInv, Typed
<1>2. CASE UNCHANGED vars
  BY <1>1, <1>2 DEF vars, Types, TypeOK
<1>3. ASSUME NEW t \in Threads, NEW o \in Exclusively \union Shared, Call(t, o)
      PROVE  Types'
  BY <1>1, <1>3 DEF Bounded, Call, Types, TypeOK
<1>4. ASSUME NEW t \in Threads, Refuse(t), pc[t] \in {"enter", "enter_shared"},
             UNCHANGED <<op, late, ops>>
      PROVE  Types'
  BY <1>1, <1>4 DEF Refuse, Types, TypeOK
<1>5. ASSUME NEW t \in Threads, Drain(t), pc[t] \in {"enter", "drain"},
             UNCHANGED <<Readers, Write_queue, op, late, ops>>
      PROVE  Types'
  BY <1>1, <1>5 DEF Drain, Types, TypeOK
<1>6. ASSUME NEW t \in Threads, Enter(t) PROVE Types'
  BY <1>4, <1>5, <1>6 DEF Enter
<1>7. ASSUME NEW t \in Threads, Enter_shared(t) PROVE Types'
  <2>1. CASE Refuse(t)
    BY <1>4, <1>7, <2>1 DEF Enter_shared
  <2>2. CASE /\ Readers < Max_readers /\ Readers' = Readers + 1 /\ Granted(t, "shared")
             /\ UNCHANGED <<Writing, Write_queue, Read_queue>>
    <3>1. Readers' \in 0 .. Max_readers
      BY <1>1, <2>2 DEF Bounded, TypeOK
    <3>2. pc' = [pc EXCEPT ![t] = "idle"] /\ pc[t] = "enter_shared"
          /\ UNCHANGED <<Write_queue, Read_queue, op, late, ops>>
      BY <1>7, <2>2 DEF Enter_shared
    <3> QED
      BY <1>1, <3>1, <3>2 DEF Types, TypeOK
  <2> QED
    BY <1>7, <2>1, <2>2 DEF Enter_shared
<1>8. ASSUME NEW t \in Threads, Wake(t) \/ Wake_drain(t) PROVE Types'
  BY <1>1, <1>8 DEF Wake, Wake_drain, Types, TypeOK
<1>9. ASSUME NEW t \in Threads, Drain_again(t) PROVE Types'
  BY <1>5, <1>9 DEF Drain_again
<1>10. ASSUME NEW t \in Threads, Unlock(t) PROVE Types'
  BY <1>1, <1>10 DEF Unlock, Types, TypeOK
<1>11. ASSUME NEW t \in Threads, Unlock_shared(t) PROVE Types'
  <2>1. Readers' \in 0 .. Max_readers
    BY <1>1, <1>11 DEF Bounded, Unlock_shared, TypeOK
  <2>2. \A u \in Threads \ {t} : pc'[u] = pc[u]
    BY <1>1, <1>11 DEF Unlock_shared, TypeOK
  <2>3. pc[t] = "idle" /\ UNCHANGED <<Write_queue, Read_queue, op, late, ops>>
    BY <1>11 DEF Unlock_shared
  <2> QED
    BY <1>1, <2>1, <2>2, <2>3 DEF Types, TypeOK
<1>12. ASSUME NEW t \in Threads, Notify(t) PROVE Types'
  <2>1. Write_queue' \subseteq Write_queue /\ Read_queue' \subseteq Read_queue
    BY <1>12 DEF Notify
  <2>2. /\ pc[t] \in {"notify_writers", "notify_reader"} /\ pc' = [pc EXCEPT ![t] = "idle"]
        /\ UNCHANGED <<Readers, op, late, ops>>
    BY <1>12 DEF Notify
  <2> QED
    BY <1>1, <2>1, <2>2 DEF Types, TypeOK
<1>13. ASSUME NEW t \in Threads, Deadline_passes(t) PROVE Types'
  BY <1>1, <1>13 DEF Deadline_passes, Types, TypeOK
<1> QED
  BY <1>2, <1>3, <1>6, <1>7, <1>8, <1>9, <1>10, <1>11, <1>12, <1>13 DEF Next, Step

(* The notifications of unlock, unlock_shared and a writer that gives up   *)
(* reach everybody whose condition has come to hold.                       *)
LEMMA NextStranded ==
    ASSUME Bounded, IInv, IInv', Types, Types', NobodyStranded, [Next]_vars
    PROVE  NobodyStranded'
<1> USE DEF Goto, Granted
<1>1. /\ TypeOK /\ \A u \in Read_queue : pc[u] = "draining"
      /\ Readers \in Nat /\ Readers' \in Nat /\ Max_readers \in Nat
  BY DEF Bounded, Types, IInv, Typed
<1>2. /\ \A u, v \in Read_queue : u = v
      /\ Read_queue # {} => Writing
  BY <1>1 DEF IInv, Writers, TypeOK
<1>3. CASE UNCHANGED vars
  BY <1>3 DEF vars, NobodyStranded
(* A step of t that keeps the conditions and is no notification. *)
<1>4. ASSUME NEW t \in Threads, \A u \in Threads \ {t} : pc'[u] = pc[u],
             pc[t] \notin {"notify_writers", "notify_reader"},
             Write_queue' # {} /\ ~Writing' /\ Readers' < Max_readers
                => Write_queue # {} /\ ~Writing /\ Readers < Max_readers,
             Read_queue' # {} /\ Readers' = 0 => Read_queue # {} /\ Readers = 0
      PROVE  NobodyStranded'
  BY <1>4 DEF NobodyStranded
<1>5. ASSUME NEW t \in Threads, NEW o \in Exclusively \union Shared, Call(t, o)
      PROVE  NobodyStranded'
  BY <1>1, <1>4, <1>5 DEF Call, TypeOK
<1>6. ASSUME NEW t \in Threads, Refuse(t), pc[t] \in {"enter", "enter_shared"},
             op[t] \notin Tries => Writing \/ Readers = Max_readers
      PROVE  NobodyStranded'
  BY <1>1, <1>4, <1>6 DEF Refuse, TypeOK
<1>7. ASSUME NEW t \in Threads, Drain(t), pc[t] \in {"enter", "drain"},
             UNCHANGED <<Readers, Write_queue>>
      PROVE  NobodyStranded'
  <2>1. CASE Writing' = TRUE /\ Read_queue' = Read_queue
    BY <1>1, <1>4, <1>7, <2>1 DEF Drain, TypeOK
  <2>2. CASE Writing' = TRUE /\ Readers > 0
    BY <1>1, <1>4, <1>7, <2>2 DEF Drain, TypeOK
  <2>3. CASE pc' = [pc EXCEPT ![t] = "notify_writers"] /\ Read_queue' = Read_queue
    BY <1>1, <1>7, <2>3 DEF NobodyStranded, TypeOK
  <2> QED
    BY <1>7, <2>1, <2>2, <2>3 DEF Drain
<1>8. ASSUME NEW t \in Threads, Enter(t) PROVE NobodyStranded'
  BY <1>6, <1>7, <1>8 DEF Enter
<1>9. ASSUME NEW t \in Threads, Enter_shared(t) PROVE NobodyStranded'
  <2>1. CASE Readers' = Readers + 1 /\ UNCHANGED <<Writing, Write_queue, Read_queue>>
    BY <1>1, <1>4, <1>9, <2>1 DEF Enter_shared, Refuse, TypeOK
  <2> QED
    BY <1>6, <1>9, <2>1 DEF Enter_shared
<1>10. ASSUME NEW t \in Threads, Wake(t) \/ Wake_drain(t) PROVE NobodyStranded'
  BY <1>1, <1>4, <1>10 DEF Wake, Wake_drain, TypeOK
<1>11. ASSUME NEW t \in Threads, Drain_again(t) PROVE NobodyStranded'
  BY <1>7, <1>11 DEF Drain_again
<1>12. ASSUME NEW t \in Threads, Unlock(t) PROVE NobodyStranded'
  <2>1. /\ pc' = [pc EXCEPT ![t] = "notify_writers"] /\ pc[t] = "idle"
        /\ UNCHANGED <<Readers, Read_queue>>
    BY <1>12 DEF Unlock
  <2> QED
    BY <1>1, <2>1 DEF NobodyStranded, TypeOK
<1>13. ASSUME NEW t \in Threads, Unlock_shared(t) PROVE NobodyStranded'
  <2>1. /\ pc[t] = "idle" /\ Readers' = Readers - 1
        /\ UNCHANGED <<Writing, Write_queue, Read_queue>>
        /\ \A u \in Threads \ {t} : pc'[u] = pc[u]
    BY <1>1, <1>13 DEF Unlock_shared, TypeOK
  <2>2. CASE Writing /\ Readers' = 0
    <3>1. pc'[t] = "notify_reader"
      BY <1>1, <1>13, <2>2 DEF Unlock_shared, TypeOK
    <3> QED
      BY <2>1, <2>2, <3>1 DEF NobodyStranded
  <2>3. CASE ~Writing /\ Readers' = Max_readers - 1
    <3>1. pc'[t] = "notify_writers"
      BY <1>1, <1>13, <2>3 DEF Unlock_shared, TypeOK
    <3> QED
      BY <1>2, <2>1, <2>3, <3>1 DEF NobodyStranded
  <2>4. CASE ~(Writing /\ Readers' = 0) /\ ~(~Writing /\ Readers' = Max_readers - 1)
    <3>1. Readers \in 0 .. Max_readers /\ Max_readers \in Nat
      BY <1>1 DEF TypeOK
    <3>2. ~Writing /\ Readers' < Max_readers => Readers < Max_readers
      BY <2>1, <2>4, <3>1, SMTT(30)
    <3>3. Read_queue' # {} => Readers' # 0
      BY <1>2, <2>1, <2>4
    <3> QED
      BY <1>4, <2>1, <3>2, <3>3
  <2> QED
    BY <2>2, <2>3, <2>4
<1>14. ASSUME NEW t \in Threads, Notify(t) PROVE NobodyStranded'
  <2>1. /\ pc' = [pc EXCEPT ![t] = "idle"] /\ UNCHANGED <<Readers, Writing>>
    BY <1>14 DEF Notify
  <2>2. CASE pc[t] = "notify_writers"
    <3>1. Write_queue' = {} /\ Read_queue' = Read_queue
      BY <1>14, <2>2 DEF Notify
    <3> QED
      BY <1>1, <2>1, <2>2, <3>1 DEF NobodyStranded, TypeOK
  <2>3. CASE pc[t] = "notify_reader"
    <3>1. Read_queue' = {} /\ Write_queue' = Write_queue
      BY <1>2, <1>14, <2>3 DEF Notify
    <3> QED
      BY <1>1, <2>1, <2>3, <3>1 DEF NobodyStranded, TypeOK
  <2> QED
    BY <1>14, <2>2, <2>3 DEF Notify
<1>15. ASSUME NEW t \in Threads, Deadline_passes(t) PROVE NobodyStranded'
  BY <1>15 DEF Deadline_passes, NobodyStranded
<1> QED
  BY <1>3, <1>5, <1>8, <1>9, <1>10, <1>11, <1>12, <1>13, <1>14, <1>15 DEF Next, Step

-----------------------------------------------------------------------------
(* All of it. *)
SharedInv == IInv /\ Types /\ NobodyStranded

(* It holds of a new mutex. *)
LEMMA InitShared ==
    ASSUME Bounded
    PROVE  Init => SharedInv
  BY InitIInv, InitTypes DEF SharedInv

(* Every step keeps it. *)
LEMMA NextShared ==
    ASSUME Bounded
    PROVE  SharedInv /\ [Next]_vars => SharedInv'
<1> SUFFICES ASSUME SharedInv, [Next]_vars PROVE SharedInv'
  OBVIOUS
<1>1. IInv'
  BY NextIInv DEF SharedInv, Bounded
<1>2. Types'
  BY <1>1, NextTypes DEF SharedInv
<1> QED
  BY <1>1, <1>2, NextStranded DEF SharedInv

(* A writer of a shared_timed_mutex is alone, _Readers is the number of    *)
(* readers and _Writing stands for exactly one thread, and whoever sleeps  *)
(* for the mutex will be notified, for any number of threads, calls,       *)
(* time-outs and wakes without a cause.                                    *)
THEOREM ReadersOrOneWriter ==
    ASSUME Bounded
    PROVE  Spec => [](TypeOK /\ ReadersOrWriter /\ NobodyStranded)
<1>1. SharedInv => TypeOK /\ ReadersOrWriter /\ NobodyStranded
  BY IInvReaders DEF SharedInv, Types
<1> QED
  BY <1>1, InitShared, NextShared, PTL DEF Spec

-----------------------------------------------------------------------------
(* std::lock *)

(* Calls have at least one lock, and every caller names each lock once. *)
Arguments ==
    /\ N \in Nat \ {0}
    /\ None \notin Lockers
    /\ \A f \in Orders :
        /\ f \in [Index -> Index]
        /\ \A i, j \in Index : f[i] = f[j] => i = j
        /\ \A l \in Index : \E i \in Index : f[i] = l

(* The sequence s names each member of S once. *)
Names(s, S) ==
    /\ s \in Seq(S)
    /\ \A i, j \in 1 .. Len(s) : s[i] = s[j] => i = j
    /\ \A x \in S : \E i \in 1 .. Len(s) : s[i] = x

(* What thread t owns, as indices of its own arguments. *)
Has(t) == {i \in Index : owner[arg[t][i]] = t}

LockingTyped ==
    /\ owner \in [Index -> Lockers \union {None}]
    /\ arg \in [Lockers -> Orders]
    /\ stage \in [Lockers -> {"idle", "hard", "try", "holding", "unlock"}]
    /\ hard \in [Lockers -> -1 .. N - 1]
    /\ next \in [Lockers -> 0 .. N]
    /\ todo \in [Lockers -> Seq(Index)]
    /\ then \in [Lockers -> {"idle", "hard"}]

(* What a thread owns, at each point of its call: between the lock and the *)
(* last try, the locks up to _Next and _Hard_lock; while it backs out,     *)
(* exactly the locks that are still to be unlocked.                        *)
Accounts(t) ==
    /\ stage[t] \in {"idle", "hard"} => Has(t) = {}
    /\ stage[t] = "hard" => hard[t] \in Index
    /\ stage[t] = "try" => Has(t) = {i \in Index : i < next[t] \/ i = hard[t]}
    /\ stage[t] = "holding" => Has(t) = Index
    /\ stage[t] = "unlock" =>
        Names(todo[t], Has(t)) /\ (then[t] = "hard" => hard[t] \in Index)
    /\ stage[t] # "unlock" => todo[t] = <<>>

LockingInv == LockingTyped /\ \A t \in Lockers : Accounts(t)

-----------------------------------------------------------------------------
(* A range of indices. *)
LEMMA IndicesNames ==
    ASSUME NEW a \in Int, NEW b \in Int, a <= b
    PROVE  Names(Indices(a, b), a .. b - 1)
<1>1. Indices(a, b) \in Seq(a .. b - 1) /\ Len(Indices(a, b)) = b - a
  BY DEF Indices
<1>2. \A i \in 1 .. b - a : Indices(a, b)[i] = a + i - 1
  BY DEF Indices
<1>3. \A x \in a .. b - 1 : x - a + 1 \in 1 .. b - a /\ Indices(a, b)[x - a + 1] = x
  BY <1>2
<1>4. \A i, j \in 1 .. b - a : Indices(a, b)[i] = Indices(a, b)[j] => i = j
  BY <1>2
<1> DEFINE s == Indices(a, b)
<1> HIDE DEF s
<1>5. /\ s \in Seq(a .. b - 1)
      /\ \A i, j \in 1 .. Len(s) : s[i] = s[j] => i = j
      /\ \A x \in a .. b - 1 : \E i \in 1 .. Len(s) : s[i] = x
  <2>1. s \in Seq(a .. b - 1) /\ Len(s) = b - a
    BY <1>1 DEF s
  <2>2. \A x \in a .. b - 1 : x - a + 1 \in 1 .. Len(s) /\ s[x - a + 1] = x
    BY <1>3, <2>1 DEF s
  <2>3. \A i, j \in 1 .. Len(s) : s[i] = s[j] => i = j
    BY <1>4, <2>1 DEF s
  <2> QED
    BY <2>1, <2>2, <2>3
<1> QED
  BY <1>5 DEF Names, s

(* Two sequences that name different things, one after the other. *)
LEMMA ConcatNames ==
    ASSUME NEW S, NEW T, S \cap T = {}, NEW s, NEW q, Names(s, S), Names(q, T)
    PROVE  Names(s \o q, S \union T)
<1>1. s \in Seq(S \union T) /\ q \in Seq(S \union T)
  BY DEF Names
<1>2. /\ s \o q \in Seq(S \union T)
      /\ Len(s \o q) = Len(s) + Len(q)
      /\ \A i \in 1 .. Len(s) + Len(q) :
            (s \o q)[i] = IF i <= Len(s) THEN s[i] ELSE q[i - Len(s)]
  BY <1>1
<1>3. /\ Len(s) \in Nat /\ Len(q) \in Nat
      /\ \A i \in 1 .. Len(s) : s[i] \in S
      /\ \A i \in 1 .. Len(q) : q[i] \in T
  BY DEF Names
<1> DEFINE r == s \o q
<1> HIDE DEF r
<1>4. /\ \A i \in 1 .. Len(s) : i \in 1 .. Len(r) /\ r[i] = s[i]
      /\ \A i \in 1 .. Len(q) : i + Len(s) \in 1 .. Len(r) /\ r[i + Len(s)] = q[i]
      /\ Len(r) = Len(s) + Len(q)
  BY <1>2, <1>3 DEF r
<1>5. ASSUME NEW i \in 1 .. Len(r)
      PROVE  \/ i \in 1 .. Len(s)
             \/ i - Len(s) \in 1 .. Len(q) /\ (i - Len(s)) + Len(s) = i
  BY <1>3, <1>4
<1>6. ASSUME NEW i \in 1 .. Len(r), NEW j \in 1 .. Len(r), r[i] = r[j]
      PROVE  i = j
  <2>1. CASE i \in 1 .. Len(s) /\ j \in 1 .. Len(s)
    BY <1>4, <1>6, <2>1 DEF Names
  <2>2. CASE i - Len(s) \in 1 .. Len(q) /\ (i - Len(s)) + Len(s) = i
             /\ j - Len(s) \in 1 .. Len(q) /\ (j - Len(s)) + Len(s) = j
    <3>1. r[i] = q[i - Len(s)] /\ r[j] = q[j - Len(s)]
      BY <1>4, <2>2
    <3>2. i - Len(s) = j - Len(s)
      BY <1>6, <2>2, <3>1 DEF Names
    <3> QED
      BY <2>2, <3>2
  <2>3. CASE i \in 1 .. Len(s) /\ j - Len(s) \in 1 .. Len(q) /\ (j - Len(s)) + Len(s) = j
    <3>1. r[i] \in S /\ r[j] \in T
      BY <1>3, <1>4, <2>3
    <3> QED
      BY <1>6, <3>1
  <2>4. CASE j \in 1 .. Len(s) /\ i - Len(s) \in 1 .. Len(q) /\ (i - Len(s)) + Len(s) = i
    <3>1. r[j] \in S /\ r[i] \in T
      BY <1>3, <1>4, <2>4
    <3> QED
      BY <1>6, <3>1
  <2> QED
    BY <1>5, <2>1, <2>2, <2>3, <2>4
<1>7. ASSUME NEW x \in S \union T PROVE \E i \in 1 .. Len(r) : r[i] = x
  <2>1. CASE x \in S
    <3>1. PICK i \in 1 .. Len(s) : s[i] = x
      BY <2>1 DEF Names
    <3> QED
      BY <1>4, <3>1
  <2>2. CASE x \in T
    <3>1. PICK i \in 1 .. Len(q) : q[i] = x
      BY <2>2 DEF Names
    <3> QED
      BY <1>4, <3>1
  <2> QED
    BY <2>1, <2>2
<1> QED
  BY <1>2, <1>6, <1>7 DEF Names, r

(* One thing alone. *)
LEMMA OneName == ASSUME NEW x PROVE Names(<<x>>, {x})
BY DEF Names

(* The first named is taken off. *)
LEMMA TailNames ==
    ASSUME NEW S, NEW s, Names(s, S), s # <<>>
    PROVE  Head(s) \in S /\ Names(Tail(s), S \ {Head(s)})
<1>1. s \in Seq(S) /\ Len(s) \in Nat /\ Len(s) > 0 /\ Head(s) = s[1]
      /\ \A i \in 1 .. Len(s) : s[i] \in S
  BY DEF Names
<1>2. /\ Tail(s) \in Seq(S) /\ Len(Tail(s)) = Len(s) - 1
      /\ \A i \in 1 .. Len(s) - 1 : Tail(s)[i] = s[i + 1]
  BY <1>1
<1>3. \A i, j \in 1 .. Len(s) : s[i] = s[j] => i = j
  BY DEF Names
<1>4. \A i \in 1 .. Len(s) - 1 : i + 1 \in 1 .. Len(s) /\ Tail(s)[i] \in S \ {Head(s)}
  <2> SUFFICES ASSUME NEW i \in 1 .. Len(s) - 1
               PROVE  i + 1 \in 1 .. Len(s) /\ Tail(s)[i] \in S \ {Head(s)}
    OBVIOUS
  <2>1. i + 1 \in 1 .. Len(s) /\ 1 \in 1 .. Len(s) /\ i + 1 # 1
    BY <1>1
  <2> QED
    BY <1>1, <1>2, <1>3, <2>1
<1>5. Tail(s) \in Seq(S \ {Head(s)})
  <2> DEFINE q == Tail(s)
  <2>1. q \in Seq(S) /\ \A i \in 1 .. Len(q) : q[i] \in S \ {Head(s)}
    BY <1>2, <1>4
  <2> HIDE DEF q
  <2>2. q \in Seq(S \ {Head(s)})
    BY <2>1
  <2> QED
    BY <2>2 DEF q
<1>6. ASSUME NEW i \in 1 .. Len(s) - 1, NEW j \in 1 .. Len(s) - 1, Tail(s)[i] = Tail(s)[j]
      PROVE  i = j
  <2>1. i + 1 \in 1 .. Len(s) /\ j + 1 \in 1 .. Len(s) /\ s[i + 1] = s[j + 1]
    BY <1>1, <1>2, <1>6
  <2>2. i + 1 = j + 1
    BY <1>3, <2>1
  <2> QED
    BY <2>2
<1>7. ASSUME NEW x \in S \ {Head(s)} PROVE \E i \in 1 .. Len(s) - 1 : Tail(s)[i] = x
  <2>1. PICK i \in 1 .. Len(s) : s[i] = x
    BY DEF Names
  <2>2. i - 1 \in 1 .. Len(s) - 1 /\ (i - 1) + 1 = i
    BY <1>1, <1>7, <2>1
  <2>3. Tail(s)[i - 1] = s[(i - 1) + 1]
    BY <1>2, <2>2
  <2> QED
    BY <2>1, <2>2, <2>3
<1> QED
  BY <1>1, <1>2, <1>5, <1>6, <1>7 DEF Names

-----------------------------------------------------------------------------
(* The locks named in the back-out of a failed try are those the call has. *)
LEMMA BackoutNames ==
    ASSUME N \in Nat \ {0}, LockingTyped, NEW t \in Lockers, next[t] < N, next[t] # hard[t]
    PROVE  Names(Backout(t), {i \in Index : i < next[t] \/ i = hard[t]})
<1>1. next[t] \in 0 .. N - 1 /\ hard[t] \in -1 .. N - 1
  BY DEF LockingTyped
<1>2. CASE next[t] < hard[t]
  <2>0. 0 \in Int /\ next[t] \in Int /\ 0 <= next[t]
    BY <1>1
  <2>1. Names(Indices(0, next[t]), 0 .. next[t] - 1) /\ Names(<<hard[t]>>, {hard[t]})
    BY <2>0, IndicesNames, OneName, Zenon
  <2>2. (0 .. next[t] - 1) \cap {hard[t]} = {}
    BY <1>1, <1>2
  <2>3. Names(Indices(0, next[t]) \o <<hard[t]>>, (0 .. next[t] - 1) \union {hard[t]})
    BY <2>1, <2>2, ConcatNames
  <2>4. (0 .. next[t] - 1) \union {hard[t]} = {i \in Index : i < next[t] \/ i = hard[t]}
    BY <1>1, <1>2 DEF Index
  <2> QED
    BY <1>2, <2>3, <2>4 DEF Backout
<1>3. CASE ~(next[t] < hard[t])
  <2>1. hard[t] + 1 <= next[t] /\ 0 <= hard[t] + 1 /\ hard[t] + 1 \in Int /\ next[t] \in Int
    BY <1>1, <1>3
  <2>2. /\ Names(Indices(hard[t] + 1, next[t]), hard[t] + 1 .. next[t] - 1)
        /\ Names(Indices(0, hard[t] + 1), 0 .. (hard[t] + 1) - 1)
    BY <2>1, 0 \in Int, IndicesNames, Zenon
  <2>3. (hard[t] + 1 .. next[t] - 1) \cap (0 .. (hard[t] + 1) - 1) = {}
    BY <1>1
  <2>4. Names(Indices(hard[t] + 1, next[t]) \o Indices(0, hard[t] + 1),
              (hard[t] + 1 .. next[t] - 1) \union (0 .. (hard[t] + 1) - 1))
    BY <2>2, <2>3, ConcatNames
  <2>5. (hard[t] + 1 .. next[t] - 1) \union (0 .. (hard[t] + 1) - 1)
            = {i \in Index : i < next[t] \/ i = hard[t]}
    BY <1>1, <2>1 DEF Index
  <2> QED
    BY <1>3, <2>4, <2>5 DEF Backout
<1> QED
  BY <1>2, <1>3

(* A step of t that leaves what the others own alone. *)
LEMMA OthersAccount ==
    ASSUME LockingInv, NEW t \in Lockers, NEW u \in Lockers \ {t}, UNCHANGED arg,
           \A l \in Index : owner[l] = u <=> owner'[l] = u,
           Arguments,
           stage'[u] = stage[u], hard'[u] = hard[u], next'[u] = next[u],
           todo'[u] = todo[u], then'[u] = then[u]
    PROVE  Accounts(u)'
<1>1. \A i \in Index : arg[u][i] \in Index
  BY DEF Arguments, LockingInv, LockingTyped
<1>2. Has(u)' = Has(u)
  BY <1>1 DEF Has
<1> QED
  BY <1>2 DEF LockingInv, Accounts

(* A free lock becomes t's. *)
LEMMA TakesLock ==
    ASSUME Arguments, LockingInv, NEW t \in Lockers, NEW i \in Index, Owner(t, i) = None,
           Own(t, i, t), UNCHANGED arg
    PROVE  /\ owner' \in [Index -> Lockers \union {None}]
           /\ Has(t)' = Has(t) \union {i}
           /\ \A u \in Lockers \ {t}, l \in Index : owner[l] = u <=> owner'[l] = u
<1>1. \A j \in Index : arg[t][j] \in Index
  BY DEF Arguments, LockingInv, LockingTyped
<1>2. \A j \in Index : arg[t][j] = arg[t][i] => j = i
  BY DEF Arguments, LockingInv, LockingTyped
<1>3. owner' = [owner EXCEPT ![arg[t][i]] = t] /\ owner[arg[t][i]] = None
  BY DEF Own, Owner
<1>4. owner \in [Index -> Lockers \union {None}] /\ None \notin Lockers
  BY DEF LockingInv, LockingTyped, Arguments
<1>5. \A j \in Index : owner'[arg[t][j]] = IF j = i THEN t ELSE owner[arg[t][j]]
  BY <1>1, <1>2, <1>3, <1>4
<1>6. Has(t)' = Has(t) \union {i}
  BY <1>5 DEF Has
<1>7. \A u \in Lockers \ {t}, l \in Index : owner[l] = u <=> owner'[l] = u
  BY <1>1, <1>3, <1>4
<1>8. owner' \in [Index -> Lockers \union {None}]
  BY <1>3, <1>4
<1> QED
  BY <1>6, <1>7, <1>8

(* A lock of t's becomes free. *)
LEMMA DropsLock ==
    ASSUME Arguments, LockingInv, NEW t \in Lockers, NEW i \in Has(t),
           Own(t, i, None), UNCHANGED arg
    PROVE  /\ owner' \in [Index -> Lockers \union {None}]
           /\ Has(t)' = Has(t) \ {i}
           /\ \A u \in Lockers \ {t}, l \in Index : owner[l] = u <=> owner'[l] = u
<1>0. i \in Index /\ owner[arg[t][i]] = t
  BY DEF Has
<1>1. \A j \in Index : arg[t][j] \in Index
  BY DEF Arguments, LockingInv, LockingTyped
<1>2. \A j \in Index : arg[t][j] = arg[t][i] => j = i
  BY <1>0 DEF Arguments, LockingInv, LockingTyped
<1>3. owner' = [owner EXCEPT ![arg[t][i]] = None]
  BY DEF Own
<1>4. owner \in [Index -> Lockers \union {None}] /\ None \notin Lockers
  BY DEF LockingInv, LockingTyped, Arguments
<1>5. \A j \in Index : owner'[arg[t][j]] = IF j = i THEN None ELSE owner[arg[t][j]]
  BY <1>0, <1>1, <1>2, <1>3, <1>4
<1>6. Has(t)' = Has(t) \ {i}
  BY <1>4, <1>5 DEF Has
<1>7. \A u \in Lockers \ {t}, l \in Index : owner[l] = u <=> owner'[l] = u
  BY <1>0, <1>1, <1>3, <1>4
<1>8. owner' \in [Index -> Lockers \union {None}]
  BY <1>3, <1>4
<1> QED
  BY <1>6, <1>7, <1>8

-----------------------------------------------------------------------------
(* Nobody owns anything at the start. *)
LEMMA InitLocking == ASSUME Arguments PROVE InitLocks => LockingInv
<1> SUFFICES ASSUME InitLocks PROVE LockingInv
  OBVIOUS
<1>1. LockingTyped
  <2>1. <<>> \in Seq(Index) /\ 0 \in -1 .. N - 1 /\ 0 \in 0 .. N
    BY DEF Arguments
  <2> QED
    BY <2>1 DEF InitLocks, LockingTyped
<1>2. \A t \in Lockers : Has(t) = {}
  <2>1. \A t \in Lockers, i \in Index : arg[t][i] \in Index
    BY <1>1 DEF Arguments, LockingTyped
  <2> QED
    BY <2>1 DEF Arguments, InitLocks, Has
<1> QED
  BY <1>1, <1>2 DEF InitLocks, LockingInv, Accounts

(* lock, scoped_lock or try_lock begins. *)
LEMMA CallIInv ==
    ASSUME Arguments, LockingInv, NEW t \in Lockers, NEW o \in {"hard", "try"}, Call_lock(t, o)
    PROVE  LockingInv'
<1>1. LockingTyped'
  BY DEF Arguments, LockingInv, LockingTyped, Call_lock, Proceed
<1>2. \A u \in Lockers \ {t} : Accounts(u)'
  BY OthersAccount DEF LockingInv, LockingTyped, Call_lock, Proceed
<1>3. Has(t)' = Has(t) /\ Has(t) = {}
  BY DEF Has, Call_lock, LockingInv, Accounts
<1>4. /\ stage'[t] = o /\ next'[t] = 0 /\ todo'[t] = <<>>
      /\ hard'[t] = IF o = "hard" THEN 0 ELSE -1
  BY DEF Call_lock, Proceed, LockingInv, LockingTyped, Accounts
<1>5. Accounts(t)'
  BY <1>3, <1>4 DEF Accounts, Arguments, Index
<1> QED
  BY <1>1, <1>2, <1>5 DEF LockingInv

(* _Lock_from_locks. *)
LEMMA HardIInv ==
    ASSUME Arguments, LockingInv, NEW t \in Lockers, Hard_lock(t)
    PROVE  LockingInv'
<1>0. hard[t] \in Index /\ Has(t) = {} /\ stage[t] = "hard" /\ todo[t] = <<>>
  BY DEF Hard_lock, LockingInv, Accounts
<1>1. CASE Owner(t, hard[t]) = None /\ Own(t, hard[t], t)
           /\ next' = [next EXCEPT ![t] = 0] /\ Proceed(t, "try")
  <2>1. /\ owner' \in [Index -> Lockers \union {None}]
        /\ Has(t)' = Has(t) \union {hard[t]}
        /\ \A u \in Lockers \ {t}, l \in Index : owner[l] = u <=> owner'[l] = u
    BY <1>0, <1>1, TakesLock DEF Hard_lock
  <2>2. LockingTyped'
    BY <1>1, <2>1 DEF Hard_lock, Proceed, LockingInv, LockingTyped, Arguments
  <2>3. \A u \in Lockers \ {t} : Accounts(u)'
    BY <1>1, <2>1, OthersAccount DEF Hard_lock, Proceed, LockingInv, LockingTyped
  <2>4. stage'[t] = "try" /\ next'[t] = 0 /\ hard'[t] = hard[t] /\ todo'[t] = <<>>
    BY <1>0, <1>1 DEF Hard_lock, Proceed, LockingInv, LockingTyped
  <2>5. Accounts(t)'
    BY <1>0, <2>1, <2>4 DEF Accounts, Arguments, Index
  <2> QED
    BY <2>2, <2>3, <2>5 DEF LockingInv
<1>2. CASE Proceed(t, "idle") /\ UNCHANGED <<owner, next>>
  <2>1. LockingTyped'
    BY <1>2 DEF Hard_lock, Proceed, LockingInv, LockingTyped
  <2>2. \A u \in Lockers \ {t} : Accounts(u)'
    BY <1>2, OthersAccount DEF Hard_lock, Proceed, LockingInv, LockingTyped
  <2>3. stage'[t] = "idle" /\ todo'[t] = <<>> /\ Has(t)' = {}
    BY <1>0, <1>2 DEF Hard_lock, Proceed, LockingInv, LockingTyped, Has
  <2>4. Accounts(t)'
    BY <2>3 DEF Accounts
  <2> QED
    BY <2>1, <2>2, <2>4 DEF LockingInv
<1> QED
  BY <1>1, <1>2 DEF Hard_lock

(* _Try_lock_range: the loop goes on or ends. *)
LEMMA TryGoesOn ==
    ASSUME Arguments, LockingInv, NEW t \in Lockers, stage[t] = "try",
           UNCHANGED <<arg, begun, hard, todo, then>>,
           \/ next[t] = N /\ Proceed(t, "holding") /\ UNCHANGED <<owner, next>>
           \/ /\ next[t] < N /\ next[t] = hard[t]
              /\ next' = [next EXCEPT ![t] = @ + 1] /\ UNCHANGED <<owner, stage>>
           \/ /\ next[t] < N /\ next[t] # hard[t] /\ Owner(t, next[t]) = None
              /\ Own(t, next[t], t)
              /\ next' = [next EXCEPT ![t] = @ + 1] /\ UNCHANGED stage
    PROVE  LockingInv'
<1>0. /\ Has(t) = {i \in Index : i < next[t] \/ i = hard[t]} /\ todo[t] = <<>>
      /\ next[t] \in 0 .. N /\ hard[t] \in -1 .. N - 1 /\ N \in Nat
  BY DEF LockingInv, Accounts, LockingTyped, Arguments
<1>1. CASE next[t] = N /\ Proceed(t, "holding") /\ UNCHANGED <<owner, next>>
  <2>1. LockingTyped'
    BY <1>1 DEF Proceed, LockingInv, LockingTyped
  <2>2. \A u \in Lockers \ {t} : Accounts(u)'
    BY <1>1, OthersAccount DEF Proceed, LockingInv, LockingTyped
  <2>3. stage'[t] = "holding" /\ todo'[t] = <<>> /\ Has(t)' = Has(t)
    BY <1>0, <1>1 DEF Proceed, LockingInv, LockingTyped, Has
  <2>4. Has(t) = Index
    BY <1>0, <1>1 DEF Index
  <2>5. Accounts(t)'
    BY <2>3, <2>4 DEF Accounts
  <2> QED
    BY <2>1, <2>2, <2>5 DEF LockingInv
<1>2. CASE next[t] < N /\ next[t] = hard[t]
           /\ next' = [next EXCEPT ![t] = @ + 1] /\ UNCHANGED <<owner, stage>>
  <2>1. LockingTyped' /\ next'[t] = next[t] + 1
    BY <1>0, <1>2 DEF LockingInv, LockingTyped
  <2>2. \A u \in Lockers \ {t} : Accounts(u)'
    BY <1>2, OthersAccount DEF LockingInv, LockingTyped
  <2>3. Has(t)' = Has(t)
    BY <1>2 DEF Has
  <2>4. {i \in Index : i < next[t] \/ i = hard[t]}
            = {i \in Index : i < next[t] + 1 \/ i = hard[t]}
    BY <1>0, <1>2 DEF Index
  <2>5. Accounts(t)'
    BY <1>0, <1>2, <2>1, <2>3, <2>4 DEF Accounts
  <2> QED
    BY <2>1, <2>2, <2>5 DEF LockingInv
<1>3. CASE next[t] < N /\ next[t] # hard[t] /\ Owner(t, next[t]) = None
           /\ Own(t, next[t], t) /\ next' = [next EXCEPT ![t] = @ + 1] /\ UNCHANGED stage
  <2>0. next[t] \in Index
    BY <1>0, <1>3 DEF Index
  <2>1. /\ owner' \in [Index -> Lockers \union {None}]
        /\ Has(t)' = Has(t) \union {next[t]}
        /\ \A u \in Lockers \ {t}, l \in Index : owner[l] = u <=> owner'[l] = u
    BY <1>3, <2>0, TakesLock
  <2>2. LockingTyped' /\ next'[t] = next[t] + 1
    BY <1>0, <1>3, <2>1 DEF LockingInv, LockingTyped
  <2>3. \A u \in Lockers \ {t} : Accounts(u)'
    BY <1>3, <2>1, OthersAccount DEF LockingInv, LockingTyped
  <2>4. {i \in Index : i < next[t] \/ i = hard[t]} \union {next[t]}
            = {i \in Index : i < next[t] + 1 \/ i = hard[t]}
    BY <1>0, <2>0 DEF Index
  <2>5. Accounts(t)'
    BY <1>0, <1>3, <2>1, <2>2, <2>4 DEF Accounts
  <2> QED
    BY <2>2, <2>3, <2>5 DEF LockingInv
<1> QED
  BY <1>1, <1>2, <1>3

(* _Try_lock_range: a try fails or throws, and the call backs out. *)
LEMMA TryBacksOut ==
    ASSUME Arguments, LockingInv, NEW t \in Lockers, stage[t] = "try", next[t] < N, next[t] # hard[t],
           UNCHANGED <<arg, begun, owner, next>>,
           NEW label \in {"idle", "hard"}, Unwind(t, label),
           \/ hard' = [hard EXCEPT ![t] = next[t]]
           \/ hard' = hard /\ label = "idle"
    PROVE  LockingInv'
<1>0. /\ Has(t) = {i \in Index : i < next[t] \/ i = hard[t]}
      /\ next[t] \in Index /\ next[t] \in -1 .. N - 1
  <2>1. next[t] \in 0 .. N /\ N \in Nat
    BY DEF LockingInv, LockingTyped, Arguments
  <2>2. next[t] \in 0 .. N - 1
    BY <2>1
  <2>3. Has(t) = {i \in Index : i < next[t] \/ i = hard[t]}
    BY DEF LockingInv, Accounts
  <2> QED
    BY <2>1, <2>2, <2>3 DEF Index
<1>1. Names(Backout(t), Has(t))
  BY <1>0, BackoutNames DEF Arguments, LockingInv
<1>2. Backout(t) \in Seq(Index)
  BY <1>1 DEF Names, Has
<1>3. LockingTyped'
  <2>1. hard' \in [Lockers -> -1 .. N - 1]
    BY <1>0 DEF LockingInv, LockingTyped
  <2> QED
    BY <1>2, <2>1 DEF Unwind, Proceed, LockingInv, LockingTyped
<1>4. \A u \in Lockers \ {t} : Accounts(u)'
  BY OthersAccount DEF Unwind, Proceed, LockingInv, LockingTyped
<1>5. stage'[t] = "unlock" /\ todo'[t] = Backout(t) /\ then'[t] = label /\ Has(t)' = Has(t)
  BY DEF Unwind, Proceed, LockingInv, LockingTyped, Has
<1>6. label = "hard" => hard'[t] \in Index
  BY <1>0 DEF LockingInv, LockingTyped
<1>7. Accounts(t)'
  BY <1>1, <1>5, <1>6 DEF Accounts
<1> QED
  BY <1>3, <1>4, <1>7 DEF LockingInv

(* One turn of the loop of _Try_lock_range. *)
LEMMA TryIInv ==
    ASSUME Arguments, LockingInv, NEW t \in Lockers, Try_lock(t)
    PROVE  LockingInv'
<1> DEFINE label == IF hard[t] < 0 THEN "idle" ELSE "hard"
<1>1. label \in {"idle", "hard"}
  OBVIOUS
<1>2. CASE /\ next[t] < N /\ next[t] # hard[t]
           /\ Unwind(t, label) /\ hard' = [hard EXCEPT ![t] = next[t]] /\ UNCHANGED <<owner, next>>
  <2> HIDE DEF label
  <2> QED
    BY <1>1, <1>2, TryBacksOut DEF Try_lock
<1>3. CASE next[t] < N /\ next[t] # hard[t] /\ Unwind(t, "idle") /\ UNCHANGED <<owner, hard, next>>
  BY <1>3, TryBacksOut DEF Try_lock
<1>4. CASE UNCHANGED <<hard, todo, then>>
           /\ ( \/ next[t] = N /\ Proceed(t, "holding") /\ UNCHANGED <<owner, next>>
                \/ /\ next[t] < N /\ next[t] = hard[t]
                   /\ next' = [next EXCEPT ![t] = @ + 1] /\ UNCHANGED <<owner, stage>>
                \/ /\ next[t] < N /\ next[t] # hard[t] /\ Owner(t, next[t]) = None
                   /\ Own(t, next[t], t)
                   /\ next' = [next EXCEPT ![t] = @ + 1] /\ UNCHANGED stage )
  BY <1>4, TryGoesOn DEF Try_lock
<1> QED
  BY <1>2, <1>3, <1>4 DEF Try_lock

(* The caller unlocks everything. *)
LEMMA ReleaseIInv ==
    ASSUME Arguments, LockingInv, NEW t \in Lockers, Release(t)
    PROVE  LockingInv'
<1>1. Names(Indices(0, N), Index)
  BY IndicesNames DEF Arguments, Index
<1>2. LockingTyped'
  BY <1>1 DEF Names, Release, Proceed, LockingInv, LockingTyped
<1>3. \A u \in Lockers \ {t} : Accounts(u)'
  BY OthersAccount DEF Release, Proceed, LockingInv, LockingTyped
<1>4. /\ stage'[t] = "unlock" /\ todo'[t] = Indices(0, N) /\ then'[t] = "idle"
      /\ Has(t)' = Has(t) /\ Has(t) = Index
  BY DEF Release, Proceed, LockingInv, LockingTyped, Has, Accounts
<1>5. Accounts(t)'
  BY <1>1, <1>4 DEF Accounts
<1> QED
  BY <1>2, <1>3, <1>5 DEF LockingInv

(* _Unlock_locks. *)
LEMMA UnlockLocking ==
    ASSUME Arguments, LockingInv, NEW t \in Lockers, Unlock_locks(t)
    PROVE  LockingInv'
<1>0. /\ stage[t] = "unlock" /\ Names(todo[t], Has(t)) /\ (then[t] = "hard" => hard[t] \in Index)
      /\ todo[t] \in Seq(Index)
  BY DEF Unlock_locks, LockingInv, Accounts, LockingTyped
<1>1. CASE todo[t] = <<>>
  <2>1. Has(t) = {}
    BY <1>0, <1>1 DEF Names
  <2>2. LockingTyped'
    BY <1>1 DEF Unlock_locks, Proceed, LockingInv, LockingTyped
  <2>3. \A u \in Lockers \ {t} : Accounts(u)'
    BY <1>1, OthersAccount DEF Unlock_locks, Proceed, LockingInv, LockingTyped
  <2>4. /\ stage'[t] = then[t] /\ then[t] \in {"idle", "hard"} /\ todo'[t] = <<>>
        /\ hard'[t] = hard[t] /\ Has(t)' = Has(t)
    BY <1>1 DEF Unlock_locks, Proceed, LockingInv, LockingTyped, Has
  <2>5. Accounts(t)'
    BY <1>0, <2>1, <2>4 DEF Accounts
  <2> QED
    BY <2>2, <2>3, <2>5 DEF LockingInv
<1>2. CASE todo[t] # <<>>
  <2>1. Head(todo[t]) \in Has(t) /\ Names(Tail(todo[t]), Has(t) \ {Head(todo[t])})
    BY <1>0, <1>2, TailNames
  <2>2. /\ owner' \in [Index -> Lockers \union {None}]
        /\ Has(t)' = Has(t) \ {Head(todo[t])}
        /\ \A u \in Lockers \ {t}, l \in Index : owner[l] = u <=> owner'[l] = u
    BY <1>2, <2>1, DropsLock DEF Unlock_locks
  <2>3. Tail(todo[t]) \in Seq(Index)
    BY <1>0, <1>2
  <2>4. LockingTyped'
    BY <1>2, <2>2, <2>3 DEF Unlock_locks, LockingInv, LockingTyped
  <2>5. \A u \in Lockers \ {t} : Accounts(u)'
    BY <1>2, <2>2, OthersAccount DEF Unlock_locks, LockingInv, LockingTyped
  <2>6. /\ stage'[t] = "unlock" /\ then'[t] = then[t] /\ hard'[t] = hard[t]
        /\ todo'[t] = Tail(todo[t])
    BY <1>0, <1>2 DEF Unlock_locks, LockingInv, LockingTyped
  <2>7. Accounts(t)'
    BY <1>0, <2>1, <2>2, <2>6 DEF Accounts
  <2> QED
    BY <2>4, <2>5, <2>7 DEF LockingInv
<1> QED
  BY <1>1, <1>2

-----------------------------------------------------------------------------
(* The invariant is inductive. *)
LEMMA NextLockingInv == ASSUME Arguments PROVE LockingInv /\ [NextLocking]_multiVars => LockingInv'
<1> SUFFICES ASSUME LockingInv, [NextLocking]_multiVars PROVE LockingInv'
  OBVIOUS
<1>1. CASE UNCHANGED multiVars
  <2>1. \A t \in Lockers : Has(t)' = Has(t)
    BY <1>1 DEF multiVars, Has
  <2>2. LockingTyped'
    BY <1>1 DEF multiVars, LockingInv, LockingTyped
  <2>3. \A t \in Lockers : Accounts(t)'
    BY <1>1, <2>1 DEF multiVars, LockingInv, Accounts
  <2> QED
    BY <2>2, <2>3 DEF LockingInv
<1> QED
  BY <1>1, CallIInv, HardIInv, TryIInv, ReleaseIInv, UnlockLocking DEF NextLocking, LockingStep

(* It says what the caller is promised. *)
LEMMA IInvAll == ASSUME Arguments PROVE LockingInv => AllOrNothing
<1> SUFFICES ASSUME LockingInv, NEW t \in Lockers
             PROVE  /\ stage[t] \in {"hard", "idle"} => Owned(t) = {}
                    /\ stage[t] = "holding" => Owned(t) = Index
                    /\ \A i \in 1 .. Len(todo[t]) : Owner(t, todo[t][i]) = t
  BY DEF AllOrNothing
<1>1. \A l \in Index : \E i \in Index : arg[t][i] = l
  BY DEF Arguments, LockingInv, LockingTyped
<1>2. \A i \in Index : arg[t][i] \in Index
  BY DEF Arguments, LockingInv, LockingTyped
<1>3. Has(t) = {} => Owned(t) = {}
  BY <1>1 DEF Has, Owned
<1>4. Has(t) = Index => Owned(t) = Index
  BY <1>1 DEF Has, Owned
<1>5. \A i \in 1 .. Len(todo[t]) : Owner(t, todo[t][i]) = t
  <2>1. CASE stage[t] = "unlock"
    <3>1. \A i \in 1 .. Len(todo[t]) : todo[t][i] \in Has(t)
      BY <2>1 DEF LockingInv, Accounts, Names
    <3> QED
      BY <3>1 DEF Has, Owner
  <2>2. CASE stage[t] # "unlock"
    <3>1. todo[t] = <<>>
      BY <2>2 DEF LockingInv, Accounts
    <3> QED
      BY <3>1
  <2> QED
    BY <2>1, <2>2
<1> QED
  BY <1>3, <1>4, <1>5 DEF LockingInv, Accounts

(* Whoever blocks in std::lock owns none of its locks, so that calls never *)
(* wait for each other in a circle, whatever orders they name the locks    *)
(* in; a call that returns owns them all; one that fails or throws, none.  *)
THEOREM LocksAllOrNothing ==
    ASSUME Arguments
    PROVE  LockingSpec => []AllOrNothing
<1> QED
  BY InitLocking, NextLockingInv, IInvAll, PTL DEF LockingSpec

=============================================================================
