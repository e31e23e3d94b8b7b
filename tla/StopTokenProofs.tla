--------------------------- MODULE StopTokenProofs --------------------------
(***************************************************************************)
(* The steps that drop or copy a token or a source keep the invariant of   *)
(* StopTokenRequest, the initial state satisfies it, and the properties of *)
(* StopToken follow.                                                       *)
(***************************************************************************)
EXTENDS StopTokenCallbacks, FiniteSetTheorems

USE DEF Requesting, Calling, Building, Detaching, StateLabels, FunctionLabels

(* Each leaf is tried with SMT, then with Zenon, then with more time. *)
USE SMTT(10), ZenonT(10), SMTT(30)

-----------------------------------------------------------------------------
(* _Detach drops its reference. *)
LEMMA DropKeeps ==
    ASSUME Counting(Threads), Counting(Objects),
           IInv, NEW t \in Threads, Detach_drop(t)
    PROVE  IInv'
<1> USE DEF countVars, stopVars, objectVars, ownerVars
<1>14. PICK c : c = Cb(t)
  OBVIOUS
<1>1. /\ stack[t] # <<>> /\ Top(t) \in Frames(t) /\ Top(t).cb = c
      /\ Top(t).at = "drop"
  BY <1>14, TopFrame DEF IInv, Detach_drop
<1>2. c \in Objects /\ object[c] = "destroying" /\ Parent[c] /\ ~Listed(c)
  <2>1. FrameOK(t, Top(t))
    BY <1>1 DEF IInv, FramesOK
  <2> QED
    BY <2>1, <1>1 DEF FrameOK
<1>3. /\ DropReference
      /\ Parent' = [Parent EXCEPT ![c] = FALSE]
      /\ object' = [object EXCEPT ![c] = "none"]
      /\ Pop(t)
      /\ UNCHANGED <<Stop_sources, listVars, stopVars, calls, ownerVars, ops>>
  BY <1>14 DEF Detach_drop
<1>4. stack' \in [Threads -> Seq(FrameType)] /\ Stacked' /\ Turned(t, {})
  BY <1>1, <1>3, Pops DEF IInv
<1>5. ListTyped' /\ Linked' /\ (\A d \in Objects : Listed(d)' <=> Listed(d)) /\ prev' = prev /\ order' = order
  BY <1>3, ListSame DEF IInv, Typed
<1>6. Parent \in [Objects -> BOOLEAN] /\ Stop_tokens \in Nat /\ deleted \in BOOLEAN
  BY DEF IInv, Typed, ValuesTyped
<1>7. /\ object' \in [Objects -> {"none", "constructing", "live", "destroying"}]
      /\ Parent' \in [Objects -> BOOLEAN]
      /\ object'[c] = "none" /\ ~Parent'[c]
      /\ \A d \in Objects : d # c => object'[d] = object[d] /\ Parent'[d] = Parent[d]
  BY <1>2, <1>3, <1>6 DEF IInv, Typed, ValuesTyped
<1>8. Stop_requested' <=> Stop_requested
  BY <1>3 DEF Stop_requested
<1>9. Stop_tokens' \in Nat /\ Counted'
  <2> DEFINE A == Cardinality({u \in Threads : token[u]})
             B == Cardinality({d \in Objects : Parent[d]})
  <2>1. B \in Nat \ {0} /\ Cardinality({d \in Objects : Parent'[d]}) = B - 1
    <3>1. /\ Parent \in [Objects -> BOOLEAN] /\ c \in Objects /\ Parent[c]
          /\ Parent' = [Parent EXCEPT ![c] = FALSE]
      BY <1>2, <1>3, <1>6
    <3> QED
      BY <3>1, CountDown
  <2>2. A \in Nat
    BY CountSome, ZenonT(30) DEF IInv, Typed, ValuesTyped
  <2>3. /\ Stop_tokens = A + B + (IF Sourced THEN 1 ELSE 0) /\ (deleted <=> Stop_tokens = 0)
        /\ Stop_sources \div 2 = Cardinality({u \in Threads : source[u]})
    BY DEF IInv, Counted
  <2>4. Sourced' <=> Sourced
    <3>1. (\A x \in {} : x.at # "last_source") /\ Top(t).at # "last_source" /\ UNCHANGED source
      BY <1>1, <1>3
    <3> QED
      BY <3>1, <1>4, SourcedTurned
  <2>5. Stop_tokens' = Stop_tokens - 1 /\ (deleted' <=> deleted \/ Stop_tokens = 1)
    BY <1>3, ZenonT(30) DEF DropReference
  <2> HIDE DEF A, B
  <2>6. /\ Stop_tokens' \in Nat /\ (deleted' <=> Stop_tokens' = 0)
        /\ Stop_tokens' = A + (B - 1) + (IF Sourced THEN 1 ELSE 0)
    BY <2>1, <2>2, <2>3, <2>5, <1>6
  <2> QED
    BY <2>1, <2>3, <2>4, <2>6, <1>3 DEF Counted, A
<1>10. ValuesTyped'
  <2>1. deleted' \in BOOLEAN
    BY <1>3 DEF DropReference
  <2> QED
    BY <2>1, <1>3, <1>7, <1>9 DEF IInv, Typed, ValuesTyped
<1>11. FramesOK'
  <2> SUFFICES ASSUME NEW u \in Threads, NEW g \in Frames(u)' PROVE FrameOK(u, g)'
    BY DEF FramesOK
  <2>1. Rest(t, u, g) /\ FrameOK(u, g)
    BY <1>4 DEF Turned, Rest, IInv, FramesOK
  <2>2. g.at \in Building \cup Detaching \cup {"call"} => g.cb # c
    BY <2>1, <1>1 DEF Rest, Apart, Below
  <2>3. g.at \in Building \cup Detaching \cup {"call"} =>
            object'[g.cb] = object[g.cb] /\ Parent'[g.cb] = Parent[g.cb]
    BY <2>1, <2>2, <1>7 DEF FrameOK
  <2> QED
    BY <2>1, <2>3, <1>3, <1>5, <1>8, ZenonT(30) DEF FrameOK
<1>12. ObjectsOK'
  <2> SUFFICES ASSUME NEW d \in Objects PROVE ObjectOK(d)'
    BY DEF ObjectsOK
  <2>1. ObjectOK(d)
    BY DEF IInv, ObjectsOK
  <2>2. Uncalled(d) => Uncalled(d)'
    BY <1>1, <1>3, <1>4, <1>5, UncalledTurned
  <2>3. CASE d # c
    BY <2>1, <2>2, <2>3, <1>3, <1>5, <1>7 DEF ObjectOK
  <2>4. CASE d = c
    BY <2>4, <1>2, <1>5, <1>7 DEF ObjectOK
  <2> QED
    BY <2>3, <2>4
<1>13. Requested'
  BY <1>1, <1>4, <1>5, <1>8 DEF IInv, Requested, Turned
<1> QED
  BY <1>4, <1>5, <1>9, <1>10, <1>11, <1>12, <1>13 DEF IInv, Typed

(* What one owner takes is what the count gains. *)
TokensBalance ==
    Stop_tokens' + Cardinality({u \in Threads : token[u]}) =
        Stop_tokens + Cardinality({u \in Threads : token'[u]})

LEMMA Balance ==
    ASSUME NEW x \in Nat, NEW y \in Nat, NEW a \in Nat, NEW b \in Nat, NEW c \in Nat,
           NEW s \in {0, 1}, y + a = x + c, x = a + b + s
    PROVE  y = c + b + s
  OBVIOUS

(* A token comes or goes. *)
LEMMA TokensKeep ==
    ASSUME Counting(Threads), Counting(Objects),
           IInv, ops' \in 0..MaxOps,
           UNCHANGED <<Stop_sources, listVars, stopVars, objectVars, source, stack>>,
           token' \in [Threads -> BOOLEAN], Stop_tokens' \in Nat, deleted' \in BOOLEAN,
           (deleted' <=> Stop_tokens' = 0),
           TokensBalance,
           \A u \in Threads : \A g \in Frames(u) :
               g.at \in {"attach", "attach_move"} => token'[u]
    PROVE  IInv'
<1> USE DEF stopVars, objectVars
<1>1. stack' \in [Threads -> Seq(FrameType)] /\ Stacked' /\ \A u \in Threads : Frames(u)' = Frames(u)
  BY Unmoved DEF IInv
<1>2. ListTyped' /\ Linked' /\ (\A d \in Objects : Listed(d)' <=> Listed(d)) /\ prev' = prev /\ order' = order
  BY ListSame DEF IInv, Typed
<1>3. ValuesTyped' /\ (Stop_requested' <=> Stop_requested)
  BY DEF IInv, Typed, ValuesTyped, Stop_requested
<1>4. FramesOK'
  <2> SUFFICES ASSUME NEW u \in Threads, NEW g \in Frames(u) PROVE FrameOK(u, g)'
    BY <1>1 DEF FramesOK
  <2>1. FrameOK(u, g)
    BY DEF IInv, FramesOK
  <2> QED
    BY <2>1, <1>2, <1>3 DEF FrameOK
<1>5. ObjectsOK'
  <2> SUFFICES ASSUME NEW d \in Objects PROVE ObjectOK(d)'
    BY DEF ObjectsOK
  <2>1. ObjectOK(d)
    BY DEF IInv, ObjectsOK
  <2>2. Uncalled(d) => Uncalled(d)'
    BY <1>1, <1>2 DEF Uncalled
  <2> QED
    BY <2>1, <2>2, <1>2 DEF ObjectOK
<1>6. Requested'
  BY <1>1, <1>2, <1>3 DEF IInv, Requested
<1>7. Counted'
  <2> DEFINE A == Cardinality({u \in Threads : token[u]})
             X == Cardinality({u \in Threads : token'[u]})
             B == Cardinality({d \in Objects : Parent[d]})
  <2>1. Sourced' <=> Sourced
    BY <1>1 DEF Sourced
  <2>2. A \in Nat /\ X \in Nat /\ B \in Nat /\ Stop_tokens \in Nat
    BY CountSome, ZenonT(30) DEF IInv, Typed, ValuesTyped
  <2>3. /\ Stop_tokens = A + B + (IF Sourced THEN 1 ELSE 0)
        /\ Stop_sources \div 2 = Cardinality({u \in Threads : source[u]})
    BY DEF IInv, Counted
  <2>4. Stop_tokens' + A = Stop_tokens + X /\ (deleted' <=> Stop_tokens' = 0)
    BY Zenon DEF TokensBalance
  <2> HIDE DEF A, B, X
  <2>5. Stop_tokens' = X + B + (IF Sourced THEN 1 ELSE 0)
    <3>1. PICK s \in {0, 1} : s = IF Sourced THEN 1 ELSE 0
      OBVIOUS
    <3>2. Stop_tokens = A + B + s /\ Stop_tokens' \in Nat
      BY <2>3, <3>1
    <3>3. PICK y \in Nat : y = Stop_tokens'
      OBVIOUS
    <3>4. PICK x \in Nat, a \in Nat, b \in Nat, c \in Nat :
            x = Stop_tokens /\ a = A /\ b = B /\ c = X
      BY <2>2, Zenon
    <3>5. y + a = x + c /\ x = a + b + s
      BY <2>4, <3>2, <3>3, <3>4, Zenon
    <3>6. y = c + b + s
      BY <3>5, Balance
    <3>7. Stop_tokens' = X + B + s
      BY <3>3, <3>4, <3>6, Zenon
    <3> QED
      BY <3>1, <3>7, Zenon
  <2> QED
    BY <2>1, <2>3, <2>4, <2>5 DEF Counted, B, X
<1> QED
  BY <1>1, <1>2, <1>3, <1>4, <1>5, <1>6, <1>7 DEF IInv, Typed

(* Who owns something keeps the state alive. *)
LEMMA OwnerKeepsAlive ==
    ASSUME Counting(Threads), Counting(Objects),
           IInv, NEW t \in Threads, source[t] \/ token[t]
    PROVE  Stop_tokens \in Nat \ {0} /\ ~deleted
<1> DEFINE A == Cardinality({u \in Threads : token[u]})
           B == Cardinality({d \in Objects : Parent[d]})
<1>1. A \in Nat /\ B \in Nat /\ (token[t] => A # 0) /\ Stop_tokens \in Nat
  BY CountSome, ZenonT(30) DEF IInv, Typed, ValuesTyped
<1>2. Stop_tokens = A + B + (IF Sourced THEN 1 ELSE 0) /\ (deleted <=> Stop_tokens = 0)
  BY DEF IInv, Counted
<1>3. source[t] => Sourced
  BY DEF Sourced
<1> HIDE DEF A, B
<1> QED
  BY <1>1, <1>2, <1>3

(* get_token, and the copy of a token: thread u has one more. *)
LEMMA TokenAdded ==
    ASSUME Counting(Threads), Counting(Objects),
           IInv, NEW t \in Threads, NEW u \in Threads,
           (Get_token(t) /\ u = t) \/ Copy_token(t, u)
    PROVE  IInv'
<1>1. ops' \in 0..MaxOps /\ (source[t] \/ token[t]) /\ ~token[u]
  BY Begins DEF IInv, Get_token, Copy_token
<1>2. /\ Stop_tokens' = Stop_tokens + 1
      /\ token' = [token EXCEPT ![u] = TRUE]
      /\ UNCHANGED <<Stop_sources, deleted, listVars, stopVars, objectVars, source, stack>>
  BY DEF Get_token, Copy_token
<1>3. Stop_tokens \in Nat \ {0} /\ ~deleted
  BY <1>1, OwnerKeepsAlive
<1>4. token \in [Threads -> BOOLEAN] /\ deleted \in BOOLEAN
  BY DEF IInv, Typed, ValuesTyped
<1>5. /\ token' \in [Threads -> BOOLEAN] /\ \A v \in Threads : token[v] => token'[v]
  BY <1>2, <1>4
<1>6. /\ Cardinality({v \in Threads : token[v]}) \in Nat
      /\ Cardinality({v \in Threads : token'[v]}) = Cardinality({v \in Threads : token[v]}) + 1
  <2>1. /\ token \in [Threads -> BOOLEAN] /\ ~token[u]
        /\ token' = [token EXCEPT ![u] = TRUE]
    BY <1>1, <1>2, <1>4
  <2> QED
    BY <2>1, CountUp
<1>7. TokensBalance
  BY <1>2, <1>3, <1>6 DEF TokensBalance
<1>8. Stop_tokens' \in Nat /\ deleted' \in BOOLEAN /\ (deleted' <=> Stop_tokens' = 0)
  BY <1>2, <1>3, <1>4
<1>9. \A v \in Threads : \A g \in Frames(v) : g.at \in {"attach", "attach_move"} => token'[v]
  BY <1>5 DEF IInv, FramesOK, FrameOK
<1> QED
  BY <1>1, <1>2, <1>5, <1>7, <1>8, <1>9, TokensKeep

(* ~stop_token *)
LEMMA TokenDropped ==
    ASSUME Counting(Threads), Counting(Objects),
           IInv, NEW t \in Threads, Destroy_token(t)
    PROVE  IInv'
<1>1. ops' \in 0..MaxOps /\ InProgram(t) /\ token[t]
  BY Begins DEF IInv, Destroy_token
<1>2. /\ Stop_tokens' = Stop_tokens - 1
      /\ deleted' = (deleted \/ Stop_tokens = 1)
      /\ token' = [token EXCEPT ![t] = FALSE]
      /\ UNCHANGED <<Stop_sources, listVars, stopVars, objectVars, source, stack>>
  BY DEF Destroy_token, DropReference
<1>3. Stop_tokens \in Nat \ {0} /\ ~deleted
  BY <1>1, OwnerKeepsAlive
<1>4. token \in [Threads -> BOOLEAN]
  BY DEF IInv, Typed, ValuesTyped
<1>5. /\ token' \in [Threads -> BOOLEAN] /\ \A v \in Threads : v # t => token'[v] = token[v]
  BY <1>2, <1>4
<1>6. /\ Cardinality({v \in Threads : token[v]}) \in Nat \ {0}
      /\ Cardinality({v \in Threads : token'[v]}) = Cardinality({v \in Threads : token[v]}) - 1
  <2>1. /\ token \in [Threads -> BOOLEAN] /\ token[t]
        /\ token' = [token EXCEPT ![t] = FALSE]
    BY <1>1, <1>2, <1>4
  <2> QED
    BY <2>1, CountDown
<1>7. TokensBalance
  BY <1>2, <1>3, <1>6 DEF TokensBalance
<1>8. Stop_tokens' \in Nat /\ deleted' \in BOOLEAN /\ (deleted' <=> Stop_tokens' = 0)
  <2>1. deleted' \in BOOLEAN /\ (deleted' <=> Stop_tokens = 1)
    BY <1>2, <1>3, Zenon
  <2> QED
    BY <2>1, <1>2, <1>3
<1>9. \A v \in Threads : \A g \in Frames(v) : g.at \in {"attach", "attach_move"} => token'[v]
  <2>1. \A g \in Frames(t) : g.at \in Below
    BY <1>1, ProgramFrames DEF IInv
  <2> QED
    BY <2>1, <1>5 DEF IInv, FramesOK, FrameOK, Below
<1> QED
  BY <1>1, <1>2, <1>5, <1>7, <1>8, <1>9, TokensKeep

(* The copy of a source. *)
LEMMA SourceAdded ==
    ASSUME Counting(Threads), Counting(Objects),
           IInv, NEW t \in Threads, NEW u \in Threads, Copy_source(t, u)
    PROVE  IInv'
<1> USE DEF stopVars, objectVars
<1>1. ops' \in 0..MaxOps /\ source[t] /\ ~source[u]
  BY Begins DEF IInv, Copy_source
<1>2. /\ Stop_sources' = Stop_sources + 2
      /\ source' = [source EXCEPT ![u] = TRUE]
      /\ UNCHANGED <<Stop_tokens, deleted, listVars, stopVars, objectVars, token, stack>>
  BY DEF Copy_source
<1>3. source \in [Threads -> BOOLEAN] /\ Stop_sources \in Nat
  BY DEF IInv, Typed, ValuesTyped
<1>4. source' \in [Threads -> BOOLEAN] /\ \A v \in Threads : source[v] => source'[v]
  BY <1>2, <1>3
<1>5. /\ Stop_sources' \in Nat /\ (Stop_requested' <=> Stop_requested)
      /\ Stop_sources' \div 2 = Stop_sources \div 2 + 1
  BY <1>2, <1>3, Halves DEF Stop_requested
<1>6. stack' \in [Threads -> Seq(FrameType)] /\ Stacked' /\ \A v \in Threads : Frames(v)' = Frames(v)
  BY <1>2, Unmoved DEF IInv
<1>7. ListTyped' /\ Linked' /\ (\A d \in Objects : Listed(d)' <=> Listed(d)) /\ prev' = prev /\ order' = order
  BY <1>2, ListSame DEF IInv, Typed
<1>8. ValuesTyped'
  BY <1>1, <1>2, <1>4, <1>5 DEF IInv, Typed, ValuesTyped
<1>9. FramesOK'
  <2> SUFFICES ASSUME NEW v \in Threads, NEW g \in Frames(v) PROVE FrameOK(v, g)'
    BY <1>6 DEF FramesOK
  <2>1. FrameOK(v, g)
    BY DEF IInv, FramesOK
  <2>2. g.at # "last_source"
    BY <2>1, <1>1 DEF FrameOK
  <2> QED
    BY <2>1, <2>2, <1>2, <1>4, <1>5, <1>7 DEF FrameOK
<1>10. ObjectsOK'
  <2>1. Stop_sources # 0
    BY <1>1, SourceCounted DEF IInv
  <2> SUFFICES ASSUME NEW d \in Objects PROVE ObjectOK(d)'
    BY DEF ObjectsOK
  <2>2. ObjectOK(d)
    BY DEF IInv, ObjectsOK
  <2>3. Uncalled(d) => Uncalled(d)'
    BY <2>1, <1>6, <1>7 DEF Uncalled
  <2> QED
    BY <2>2, <2>3, <1>2, <1>7 DEF ObjectOK
<1>11. Requested'
  BY <1>5, <1>6, <1>7 DEF IInv, Requested
<1>12. Counted'
  <2>1. Sourced /\ Sourced'
    BY <1>1, <1>4 DEF Sourced
  <2>2. Cardinality({v \in Threads : source'[v]}) = Cardinality({v \in Threads : source[v]}) + 1
    <3>1. /\ source \in [Threads -> BOOLEAN] /\ ~source[u]
          /\ source' = [source EXCEPT ![u] = TRUE]
      BY <1>1, <1>2, <1>3
    <3> QED
      BY <3>1, CountUp
  <2> QED
    BY <2>1, <2>2, <1>2, <1>5 DEF IInv, Counted
<1> QED
  BY <1>6, <1>7, <1>8, <1>9, <1>10, <1>11, <1>12 DEF IInv, Typed

(* ~stop_source *)
LEMMA SourceDropped ==
    ASSUME Counting(Threads), Counting(Objects),
           IInv, NEW t \in Threads, Destroy_source(t)
    PROVE  IInv'
<1> USE DEF stopVars, objectVars
<1> DEFINE A == Cardinality({v \in Threads : source[v]})
           f == Frame("last_source", Null)
<1>1. ops' \in 0..MaxOps /\ InProgram(t) /\ source[t]
  BY Begins DEF IInv, Destroy_source
<1>2. /\ Stop_sources' = Stop_sources - 2
      /\ source' = [source EXCEPT ![t] = FALSE]
      /\ \/ Stop_sources \div 2 = 1 /\ Push(t, "last_source", Null)
         \/ Stop_sources \div 2 # 1 /\ stack' = stack
      /\ UNCHANGED <<Stop_tokens, deleted, listVars, stopVars, objectVars, token>>
  BY DEF Destroy_source
<1>3. source \in [Threads -> BOOLEAN] /\ Stop_sources \in Nat
  BY DEF IInv, Typed, ValuesTyped
<1>4. source' \in [Threads -> BOOLEAN] /\ \A v \in Threads : v # t => source'[v] = source[v]
  BY <1>2, <1>3
<1>5. Stop_sources # 0 /\ Stop_sources \div 2 # 0
  BY <1>1, SourceCounted DEF IInv
<1>6. /\ Stop_sources' \in Nat /\ (Stop_requested' <=> Stop_requested)
      /\ Stop_sources' \div 2 = Stop_sources \div 2 - 1 /\ Stop_sources \div 2 \in Nat
  BY <1>2, <1>3, <1>5, Halves DEF Stop_requested
<1>7. /\ Stop_sources \div 2 = A
      /\ Cardinality({v \in Threads : source'[v]}) = A - 1
  <2>1. /\ source \in [Threads -> BOOLEAN] /\ source[t]
        /\ source' = [source EXCEPT ![t] = FALSE]
    BY <1>1, <1>2, <1>3
  <2>2. Cardinality({v \in Threads : source'[v]}) = A - 1
    BY <2>1, CountDown
  <2> QED
    BY <2>2 DEF IInv, Counted
<1>8. A - 1 = 0 <=> \A v \in Threads : ~source'[v]
  BY <1>4, <1>7, CountSome, ZenonT(30)
<1> HIDE DEF A
<1>9. ListTyped' /\ Linked' /\ (\A d \in Objects : Listed(d)' <=> Listed(d)) /\ prev' = prev /\ order' = order
  BY <1>2, ListSame DEF IInv, Typed
<1>10. ValuesTyped'
  BY <1>1, <1>2, <1>4, <1>6 DEF IInv, Typed, ValuesTyped
<1>11. ASSUME NEW u \in Threads, NEW g \in Frames(u)
       PROVE  FrameOK(u, g)' /\ g.at # "last_source"
  <2>1. FrameOK(u, g) /\ g.at # "last_source"
    <3>1. FrameOK(u, g)
      BY DEF IInv, FramesOK
    <3> QED
      BY <3>1, <1>1 DEF FrameOK
  <2>2. g.at \in Requesting => u # t
    <3>1. \A h \in Frames(t) : h.at \in Below /\ h.at # "loop"
      BY <1>1, ProgramFrames DEF IInv, Destroy_source
    <3> QED
      BY <3>1 DEF Below
  <2> QED
    BY <2>1, <2>2, <1>2, <1>4, <1>6, <1>9, ZenonT(30) DEF FrameOK
<1>12. ASSUME \A u \in Threads : Frames(u) \subseteq Frames(u)', Sourced'
       PROVE  ObjectsOK' /\ Requested' /\ Counted'
  <2>1. ObjectsOK'
    <3> SUFFICES ASSUME NEW d \in Objects PROVE ObjectOK(d)'
      BY DEF ObjectsOK
    <3>1. ObjectOK(d)
      BY DEF IInv, ObjectsOK
    <3>2. Uncalled(d) => Uncalled(d)'
      BY <1>5, <1>9, <1>12 DEF Uncalled
    <3> QED
      BY <3>1, <3>2, <1>2, <1>9 DEF ObjectOK
  <2>2. Requested'
    BY <1>6, <1>9, <1>12 DEF IInv, Requested
  <2>3. Counted'
    <3>1. Sourced
      BY <1>1 DEF Sourced
    <3> QED
      BY <3>1, <1>2, <1>6, <1>7, <1>12 DEF IInv, Counted
  <2> QED
    BY <2>1, <2>2, <2>3
<1>13. CASE Stop_sources \div 2 = 1 /\ Push(t, "last_source", Null)
  <2>1. f.at = "last_source"
    BY DEF Frame
  <2>2. \A u \in Threads : \A g \in Frames(u) : Apart(t, f, u, g) /\ Apart(u, g, t, f)
    BY <2>1, <1>11 DEF Apart
  <2>3. stack' \in [Threads -> Seq(FrameType)] /\ Stacked' /\ Grown(t, f)
    BY <1>1, <1>13, <2>2, Pushes DEF IInv
  <2> HIDE DEF f
  <2>4. FrameOK(t, f)'
    <3>1. \A v \in Threads : ~source'[v]
      BY <1>7, <1>8, <1>13
    <3> QED
      BY <3>1, <2>1 DEF FrameOK
  <2>5. FramesOK'
    BY <2>3, <2>4, <1>11 DEF FramesOK, Grown
  <2>6. ObjectsOK' /\ Requested' /\ Counted'
    <3>1. Sourced'
      BY <2>1, <2>3 DEF Sourced, Grown
    <3> QED
      BY <3>1, <2>3, <1>12 DEF Grown
  <2> QED
    BY <1>9, <1>10, <2>3, <2>5, <2>6 DEF IInv, Typed
<1>14. CASE Stop_sources \div 2 # 1 /\ stack' = stack
  <2>1. stack' \in [Threads -> Seq(FrameType)] /\ Stacked' /\ \A v \in Threads : Frames(v)' = Frames(v)
    BY <1>14, Unmoved DEF IInv
  <2>2. FramesOK'
    BY <2>1, <1>11 DEF FramesOK
  <2>3. ObjectsOK' /\ Requested' /\ Counted'
    <3>1. A - 1 # 0
      BY <1>6, <1>7, <1>14
    <3>2. Sourced'
      BY <3>1, <1>8 DEF Sourced
    <3> QED
      BY <3>2, <2>1, <1>12
  <2> QED
    BY <1>9, <1>10, <2>1, <2>2, <2>3 DEF IInv, Typed
<1> QED
  BY <1>2, <1>13, <1>14

(* The last source drops the reference of the sources. *)
LEMMA LastSourceKeeps ==
    ASSUME Counting(Threads), Counting(Objects),
           IInv, NEW t \in Threads, Last_source(t)
    PROVE  IInv'
<1> USE DEF stopVars, objectVars, ownerVars
<1>1. stack[t] # <<>> /\ Top(t) \in Frames(t) /\ Top(t).at = "last_source"
  BY TopFrame DEF IInv, Last_source
<1>2. \A u \in Threads : ~source[u]
  <2>1. FrameOK(t, Top(t))
    BY <1>1 DEF IInv, FramesOK
  <2> QED
    BY <2>1, <1>1 DEF FrameOK
<1>3. /\ DropReference
      /\ Pop(t)
      /\ UNCHANGED <<Stop_sources, listVars, stopVars, objectVars, ownerVars, ops>>
  BY DEF Last_source
<1>4. stack' \in [Threads -> Seq(FrameType)] /\ Stacked' /\ Turned(t, {})
  BY <1>1, <1>3, Pops, ZenonT(30) DEF IInv
<1>5. ListTyped' /\ Linked' /\ (\A d \in Objects : Listed(d)' <=> Listed(d)) /\ prev' = prev /\ order' = order
  BY <1>3, ListSame DEF IInv, Typed
<1>6. Stop_requested' <=> Stop_requested
  BY <1>3 DEF Stop_requested
<1>7. Stop_tokens' \in Nat /\ deleted' \in BOOLEAN /\ Counted'
  <2> DEFINE A == Cardinality({u \in Threads : token[u]})
             B == Cardinality({d \in Objects : Parent[d]})
  <2>1. A \in Nat /\ B \in Nat
    BY CountSome, ZenonT(30) DEF IInv, Typed, ValuesTyped
  <2>2. Sourced /\ ~Sourced'
    BY <1>1, <1>2, <1>3, <1>4, ZenonT(30) DEF Sourced, Turned, Rest, Apart
  <2>3. /\ Stop_tokens = A + B + (IF Sourced THEN 1 ELSE 0) /\ (deleted <=> Stop_tokens = 0)
        /\ Stop_sources \div 2 = Cardinality({u \in Threads : source[u]})
    BY DEF IInv, Counted
  <2>4. Stop_tokens' = Stop_tokens - 1 /\ (deleted' <=> deleted \/ Stop_tokens = 1) /\ deleted' \in BOOLEAN
    BY <1>3, ZenonT(30) DEF DropReference
  <2>5. A' = A /\ B' = B
    BY <1>3
  <2> HIDE DEF A, B
  <2>6. Stop_tokens' \in Nat /\ (deleted' <=> Stop_tokens' = 0) /\ Stop_tokens' = A + B
    BY <2>1, <2>2, <2>3, <2>4
  <2>7. Stop_tokens' = A' + B' + (IF Sourced' THEN 1 ELSE 0)
    BY <2>1, <2>2, <2>5, <2>6
  <2> QED
    BY <2>3, <2>4, <2>6, <2>7, <1>3 DEF Counted, A, B
<1>8. ValuesTyped'
  BY <1>3, <1>7 DEF IInv, Typed, ValuesTyped
<1>9. FramesOK'
  <2> SUFFICES ASSUME NEW u \in Threads, NEW g \in Frames(u)' PROVE FrameOK(u, g)'
    BY DEF FramesOK
  <2>1. g \in Frames(u) /\ FrameOK(u, g)
    BY <1>4 DEF Turned, Rest, IInv, FramesOK
  <2> QED
    BY <2>1, <1>3, <1>5, <1>6, ZenonT(30) DEF FrameOK
<1>10. ObjectsOK'
  <2> SUFFICES ASSUME NEW d \in Objects PROVE ObjectOK(d)'
    BY DEF ObjectsOK
  <2>1. ObjectOK(d)
    BY DEF IInv, ObjectsOK
  <2>2. Uncalled(d) => Uncalled(d)'
    BY <1>1, <1>3, <1>4, <1>5, UncalledTurned, ZenonT(30)
  <2> QED
    BY <2>1, <2>2, <1>3, <1>5, ZenonT(30) DEF ObjectOK
<1>11. Requested'
  BY <1>1, <1>4, <1>5, <1>6, ZenonT(30) DEF IInv, Requested, Turned
<1> QED
  BY <1>4, <1>5, <1>7, <1>8, <1>9, <1>10, <1>11 DEF IInv, Typed

-----------------------------------------------------------------------------
(* The invariant                                                           *)

(* What is known of counting holds of finite sets. *)
LEMMA FiniteCounting ==
    ASSUME NEW S, IsFiniteSet(S)
    PROVE  Counting(S)
<1> SUFFICES ASSUME NEW f \in [S -> BOOLEAN]
             PROVE  /\ Cardinality({y \in S : f[y]}) \in Nat
                    /\ Cardinality({y \in S : f[y]}) = 0 <=> \A y \in S : ~f[y]
                    /\ \A x \in S : ~f[x] =>
                           Cardinality({y \in S : [f EXCEPT ![x] = TRUE][y]}) =
                               Cardinality({y \in S : f[y]}) + 1
                    /\ \A x \in S : f[x] =>
                           Cardinality({y \in S : [f EXCEPT ![x] = FALSE][y]}) =
                               Cardinality({y \in S : f[y]}) - 1
  BY Zenon DEF Counting
<1> DEFINE A == {y \in S : f[y]}
<1>1. IsFiniteSet(A)
  BY FS_Subset
<1>2. Cardinality(A) \in Nat /\ (Cardinality(A) = 0 <=> A = {})
  BY <1>1, FS_CardinalityType, FS_EmptySet
<1>3. ASSUME NEW x \in S, ~f[x]
      PROVE  Cardinality({y \in S : [f EXCEPT ![x] = TRUE][y]}) = Cardinality(A) + 1
  <2>1. {y \in S : [f EXCEPT ![x] = TRUE][y]} = A \cup {x} /\ x \notin A
    BY <1>3
  <2> QED
    BY <2>1, <1>1, FS_AddElement, ZenonT(30)
<1>4. ASSUME NEW x \in S, f[x]
      PROVE  Cardinality({y \in S : [f EXCEPT ![x] = FALSE][y]}) = Cardinality(A) - 1
  <2>1. {y \in S : [f EXCEPT ![x] = FALSE][y]} = A \ {x} /\ x \in A
    BY <1>4
  <2> QED
    BY <2>1, <1>1, FS_RemoveElement
<1> QED
  BY <1>2, <1>3, <1>4

LEMMA Countings == Counting(Threads) /\ Counting(Objects)
  BY FiniteCounting, FiniteAssumption

(* The state is new: no callback, no call, everybody has a token. *)
LEMMA InitIInv == Init => IInv
<1> SUFFICES ASSUME Init PROVE IInv
  OBVIOUS
<1>1. \A t \in Threads : stack[t] = <<>> /\ Len(stack[t]) = 0 /\ Frames(t) = {}
  BY DEF Init, Frames
<1>2. order = <<>> /\ Len(order) = 0
  BY DEF Init
<1>3. Cardinality(Threads) \in Nat /\ Cardinality(SourceOwners) \in Nat
  BY FiniteAssumption, OwnersAssumption, FS_Subset, FS_CardinalityType
<1>4. Typed
  <2>1. ListTyped /\ stack \in [Threads -> Seq(FrameType)]
    BY DEF Init, ListTyped
  <2>2. /\ Stop_tokens \in Nat /\ Stop_sources \in Nat
        /\ Current_callback \in Objects \cup {Null} /\ Stopping_thread \in Threads \cup {Null}
        /\ object \in [Objects -> {"none", "constructing", "live", "destroying"}]
        /\ ops \in 0..MaxOps /\ calls \in [Objects -> 0..1]
    BY <1>3, OpsAssumption DEF Init
  <2>3. /\ deleted \in BOOLEAN /\ Parent \in [Objects -> BOOLEAN]
        /\ source \in [Threads -> BOOLEAN] /\ token \in [Threads -> BOOLEAN]
    <3>1. deleted \in BOOLEAN
      BY ZenonT(30) DEF Init
    <3>4. source \in [Threads -> BOOLEAN]
      <4>1. source = [t \in Threads |-> t \in SourceOwners]
        BY DEF Init
      <4> QED
        BY <4>1
    <3>2. Parent \in [Objects -> BOOLEAN]
      BY DEF Init
    <3>3. token \in [Threads -> BOOLEAN]
      BY DEF Init
    <3> QED
      BY <3>1, <3>2, <3>3, <3>4
  <2> QED
    BY <2>1, <2>2, <2>3 DEF Typed, ValuesTyped
<1>5. Stacked
  BY <1>1 DEF Stacked, Nested
<1>6. FramesOK
  BY <1>1 DEF FramesOK
<1>7. Linked
  BY <1>2 DEF Init, Linked, Nth
<1>8. ObjectsOK
  BY <1>2 DEF Init, ObjectsOK, ObjectOK, Listed
<1>9. Requested
  BY <1>2 DEF Requested
<1>10. Counted
  <2>1. /\ {t \in Threads : source[t]} = SourceOwners
        /\ {t \in Threads : token[t]} = Threads
        /\ {c \in Objects : Parent[c]} = {}
    BY OwnersAssumption, ZenonT(30) DEF Init
  <2>2. Sourced
    BY OwnersAssumption, ZenonT(30) DEF Init, Sourced
  <2>3. Cardinality({}) = 0
    BY FS_EmptySet
  <2>4. /\ Stop_tokens = Cardinality(Threads) + 1 /\ ~deleted
        /\ Stop_sources = 2 * Cardinality(SourceOwners)
    BY DEF Init
  <2>5. PICK m \in Nat, n \in Nat :
          m = Cardinality(Threads) /\ n = Cardinality(SourceOwners)
    BY <1>3
  <2>6. m + 0 + 1 = m + 1 /\ m + 1 # 0 /\ (2 * n) \div 2 = n
    OBVIOUS
  <2>7. /\ Stop_sources \div 2 = Cardinality({t \in Threads : source[t]})
        /\ deleted <=> Stop_tokens = 0
    BY <2>1, <2>4, <2>5, <2>6, ZenonT(30)
  <2>8. Stop_tokens = Cardinality({t \in Threads : token[t]})
                    + Cardinality({c \in Objects : Parent[c]}) + 1
    BY <2>1, <2>3, <2>4, <2>5, <2>6, ZenonT(30)
  <2> QED
    BY <2>2, <2>7, <2>8 DEF Counted
<1> QED
  BY <1>4, <1>5, <1>6, <1>7, <1>8, <1>9, <1>10 DEF IInv

(* No step of the library or the program breaks the invariant. *)
LEMMA NextIInv == IInv /\ [Next]_vars => IInv'
<1> SUFFICES ASSUME IInv, [Next]_vars PROVE IInv'
  OBVIOUS
<1>1. ASSUME NEW t \in Threads, Call(t) PROVE IInv'
  BY <1>1, Countings, RequestKeeps, ConstructKeeps, DestroyKeeps, TokenAdded, TokenDropped, SourceAdded,
     SourceDropped DEF Call
<1>2. ASSUME NEW t \in Threads, Run(t) PROVE IInv'
  BY <1>2, Countings, ClaimedKeeps, NextKeeps, CallKeeps, ReturnKeeps, AttachKeeps, DetachKeeps, WaitKeeps,
     DropKeeps, LastSourceKeeps DEF Run
<1>3. CASE UNCHANGED vars
  <2>1. ops' \in 0..MaxOps /\ UNCHANGED <<countVars, listVars, stopVars, objectVars, ownerVars, stack>>
    BY <1>3 DEF vars, IInv, Typed, ValuesTyped
  <2> QED
    BY <2>1, Stutters
<1> QED
  BY <1>1, <1>2, <1>3 DEF Next, Terminating

(* The invariant holds forever. *)
LEMMA Invariant == Spec => []IInv
<1>1. Init => IInv
  BY InitIInv
<1>2. IInv /\ [Next]_vars => IInv'
  BY NextIInv
<1> QED
  BY <1>1, <1>2, PTL DEF Spec

(* The list of callbacks stays sound while request_stop empties it, other  *)
(* threads insert and remove, and callbacks destroy themselves; and a      *)
(* destructor can tell from the head and _Prev whether its callback is     *)
(* still registered.                                                       *)
THEOREM ListSound == Spec => [](TypeOK /\ ListIntegrity)
<1>1. IInv => TypeOK
  <2> SUFFICES ASSUME IInv PROVE TypeOK
    OBVIOUS
  <2>1. \A t \in Threads : \A f \in Frames(t) : f \in FrameType
    BY DEF IInv, Typed, Frames
  <2> QED
    BY <2>1 DEF IInv, Typed, ListTyped, ValuesTyped, TypeOK, FrameType
<1>2. IInv => ListIntegrity
  <2> SUFFICES ASSUME IInv PROVE ListIntegrity
    OBVIOUS
  <2>1. ASSUME NEW c \in Objects,
               object[c] = "live" \/ \E t \in Threads : At(t, "detach") /\ Cb(t) = c,
               \A i \in 1..Len(order) : order[i] # c
        PROVE  prev[c] = Null
    <3>1. ~Listed(c)
      BY <2>1 DEF Listed
    <3>2. CASE object[c] = "live"
      BY <3>1, <3>2 DEF IInv, ObjectsOK, ObjectOK
    <3>3. ASSUME NEW t \in Threads, At(t, "detach"), Cb(t) = c PROVE prev[c] = Null
      <4>1. Top(t) \in Frames(t) /\ Top(t).at = "detach" /\ Top(t).cb = c
        BY <3>3, TopFrame DEF IInv
      <4> QED
        BY <4>1, <3>1 DEF IInv, FramesOK, FrameOK
    <3> QED
      BY <3>2, <3>3, <2>1
  <2> QED
    BY <2>1 DEF IInv, Linked, ListIntegrity
<1> QED
  BY <1>1, <1>2, Invariant, PTL

(* No registration that races request_stop is forgotten: once the request  *)
(* has run its course, every live callback has been called.                *)
THEOREM EveryoneIsCalled == Spec => []EveryoneCalled
<1>1. IInv => EveryoneCalled
  <2> SUFFICES ASSUME IInv, Stop_requested,
                      \A t \in Threads : \A f \in Frames(t) : f.at \notin Requesting,
                      NEW c \in Objects, object[c] = "live"
               PROVE  calls[c] = 1
    BY DEF EveryoneCalled
  <2>1. order = <<>>
    BY DEF IInv, Requested
  <2>2. ~Listed(c)
    BY <2>1 DEF Listed
  <2>3. Stop_sources # 0
    BY DEF Stop_requested
  <2>4. \A t \in Threads : Frame("call", c) \notin Frames(t)
    BY DEF Frame
  <2>5. ~Uncalled(c)
    BY <2>2, <2>3, <2>4 DEF Uncalled
  <2>6. calls[c] # 0
    BY <2>5 DEF IInv, ObjectsOK, ObjectOK
  <2>7. calls[c] \in 0..1
    BY DEF IInv, Typed, ValuesTyped
  <2> QED
    BY <2>6, <2>7
<1> QED
  BY <1>1, Invariant, PTL

(* The two counts of the state are exact, and it is deleted when the last  *)
(* owner goes, with nobody left in a call that uses it.                    *)
THEOREM OwnersCounted == Spec => []CountsOwners
<1>1. IInv => CountsOwners
  <2> SUFFICES ASSUME IInv PROVE CountsOwners
    OBVIOUS
  <2> DEFINE Sharing == {t \in Threads : source[t] \/ At(t, "last_source")}
             A == Cardinality({t \in Threads : token[t]})
             B == Cardinality({c \in Objects : Parent[c]})
             One == Cardinality({0 : x \in Sharing})
  <2>1. Sourced <=> Sharing # {}
    <3>1. ASSUME NEW t \in Threads, NEW f \in Frames(t), f.at = "last_source"
          PROVE  At(t, "last_source")
      <4>1. PICK i \in 1..Len(stack[t]) : f = stack[t][i]
        BY <3>1 DEF Frames
      <4>2. stack[t] \in Seq(FrameType) /\ stack[t] # <<>>
        BY <4>1 DEF IInv, Typed
      <4>3. i = 1
        BY <4>1, <3>1 DEF IInv, Stacked, Nested, Below
      <4> QED
        BY <4>1, <4>2, <4>3, <3>1, PopSeq DEF At
    <3>2. ASSUME NEW t \in Threads, At(t, "last_source")
          PROVE  \E f \in Frames(t) : f.at = "last_source"
      BY <3>2, TopFrame DEF IInv
    <3> QED
      BY <3>1, <3>2 DEF Sourced
  <2>2. One = IF Sourced THEN 1 ELSE 0
    <3>1. CASE Sharing = {}
      <4>1. {0 : x \in Sharing} = {}
        BY <3>1
      <4> QED
        BY <4>1, <3>1, <2>1, FS_EmptySet
    <3>2. CASE Sharing # {}
      <4> HIDE DEF Sharing
      <4>1. {0 : x \in Sharing} = {0}
        BY <3>2
      <4> QED
        BY <4>1, <3>2, <2>1, FS_Singleton
    <3> QED
      BY <3>1, <3>2
  <2>3. /\ Stop_sources \div 2 = Cardinality({t \in Threads : source[t]})
        /\ Stop_tokens = A + B + (IF Sourced THEN 1 ELSE 0)
        /\ deleted <=> Stop_tokens = 0
    BY DEF IInv, Counted
  <2>4. /\ A \in Nat /\ B \in Nat
        /\ A = 0 => \A t \in Threads : ~token[t]
        /\ B = 0 => \A c \in Objects : ~Parent[c]
    BY CountSome, Countings, ZenonT(30) DEF IInv, Typed, ValuesTyped
  <2>5. ASSUME deleted, NEW t \in Threads, NEW f \in Frames(t) PROVE f.at \notin StateLabels
    <3>1. A = 0 /\ B = 0 /\ ~Sourced
      <4> HIDE DEF A, B
      <4> QED
        BY <2>3, <2>4, <2>5
    <3>2. FrameOK(t, f) /\ ~token[t] /\ (\A c \in Objects : ~Parent[c]) /\ ~source[t]
      BY <3>1, <2>4, <2>5 DEF IInv, FramesOK, Sourced
    <3>3. f.at # "last_source"
      BY <3>1, <2>5 DEF Sourced
    <3> QED
      BY <3>2, <3>3 DEF FrameOK
  <2> HIDE DEF A, B, One
  <2>6. Stop_tokens = A + B + One
    BY <2>2, <2>3
  <2> QED
    BY <2>3, <2>5, <2>6 DEF CountsOwners, A, B, One
<1> QED
  BY <1>1, Invariant, PTL

(* ~stop_callback returns only when no other thread is in its function or  *)
(* about to call it.                                                       *)
THEOREM DestructorsWait == Spec => DestroyWaits
<1> DEFINE Step == \A c \in Objects : object[c] = "destroying" /\ object'[c] = "none"
                    => \A t \in Threads : stack'[t] = stack[t]
                        => \A f \in Frames(t) : ~(f.cb = c /\ f.at \in {"call", "called"})
<1>1. IInv /\ [Next]_vars => [Step]_vars
  <2> SUFFICES ASSUME IInv, [Next]_vars, NEW c \in Objects,
                      object[c] = "destroying", object'[c] = "none",
                      NEW u \in Threads, stack'[u] = stack[u],
                      NEW f \in Frames(u), f.cb = c, f.at \in Calling
               PROVE  FALSE
    OBVIOUS
  <2>1. object \in [Objects -> {"none", "constructing", "live", "destroying"}]
    BY DEF IInv, Typed, ValuesTyped
  <2>2. ASSUME NEW t \in Threads, Call(t) PROVE FALSE
    BY <2>1, <2>2, ZenonT(30) DEF Call, Request_stop, Construct, Destroy, Get_token, Destroy_token,
       Destroy_source, Copy_token, Copy_source, objectVars
  <2>3. ASSUME NEW t \in Threads, Run(t) PROVE Detach_drop(t)
    BY <2>1, <2>3, ZenonT(30) DEF Run, Request_claimed, Request_next, Request_call, Return, Attach, Detach,
       Detach_wait, Last_source, objectVars
  <2>4. ASSUME NEW t \in Threads, Detach_drop(t) PROVE FALSE
    <3>1. /\ stack[t] # <<>> /\ stack[t] \in Seq(FrameType)
          /\ Top(t) \in Frames(t) /\ Top(t).at = "drop" /\ Top(t).cb = Cb(t)
      BY <2>4, TopFrame DEF IInv, Detach_drop
    <3>2. Cb(t) = c
      BY <2>1, <2>4 DEF Detach_drop
    <3>3. u # t
      <4>1. stack'[t] = Tail(stack[t])
        BY <2>4 DEF Detach_drop, Pop, IInv, Typed
      <4>2. Len(Tail(stack[t])) # Len(stack[t])
        BY <3>1, PopSeq
      <4> QED
        BY <4>1, <4>2, ZenonT(30)
    <3>4. PICK i \in 1..Len(stack[u]) : f = stack[u][i]
      BY DEF Frames
    <3>5. Apart(t, stack[t][1], u, stack[u][i])
      <4>1. 1 \in 1..Len(stack[t])
        BY <3>1, PopSeq
      <4> QED
        BY <4>1, <3>3 DEF IInv, Stacked
    <3> QED
      BY <3>1, <3>2, <3>3, <3>4, <3>5, ZenonT(30) DEF Apart, Top
  <2> QED
    BY <2>1, <2>2, <2>3, <2>4 DEF Next, Terminating, vars, objectVars
<1> QED
  BY <1>1, Invariant, PTL DEF Spec, DestroyWaits

=============================================================================
