------------------------- MODULE StopTokenCallbacks -------------------------
(***************************************************************************)
(* The steps of stop_callback's constructor and destructor keep the        *)
(* invariant of StopTokenRequest, and so does the fetch_or of              *)
(* request_stop.  What counts rest on is a hypothesis here, Counting(S).   *)
(***************************************************************************)
EXTENDS StopTokenRequest

USE DEF Requesting, Calling, Building, Detaching, StateLabels, FunctionLabels

(* Each leaf is tried with SMT, then with Zenon, then with more time. *)
USE SMTT(10), ZenonT(10), SMTT(30)

-----------------------------------------------------------------------------
(* The constructor of a callback: the fast path. *)
LEMMA ConstructKeeps ==
    ASSUME IInv, NEW t \in Threads, NEW c \in Objects,
           NEW label \in {"attach", "attach_move"}, Construct(t, c, label)
    PROVE  IInv'
<1> USE DEF countVars, stopVars, objectVars, ownerVars
<1>1. ops' \in 0..MaxOps /\ InProgram(t) /\ token[t] /\ object[c] = "none"
  BY Begins DEF IInv, Construct
<1>2. ~Listed(c) /\ ~Parent[c]
  BY <1>1 DEF IInv, ObjectsOK, ObjectOK
<1>3. UNCHANGED <<countVars, Callbacks, order, stopVars, Parent, ownerVars>>
  BY DEF Construct
<1>4. /\ ListTyped' /\ Linked' /\ (\A d \in Objects : Listed(d)' <=> Listed(d))
      /\ \A d \in Objects : prev'[d] = prev[d] \/ prev'[d] = Null
      /\ prev'[c] = Null /\ order' = order
  BY <1>2, <1>3, Cleared, ZenonT(30) DEF IInv, Typed, ListTyped, Construct
<1>5. Stop_requested' <=> Stop_requested
  BY <1>3 DEF Stop_requested
<1>6. \A u \in Threads : \A g \in Frames(u) :
        FrameOK(u, g) /\ ~(g.at \in Building \cup Detaching \cup {"call"} /\ g.cb = c)
  <2> SUFFICES ASSUME NEW u \in Threads, NEW g \in Frames(u)
               PROVE  FrameOK(u, g) /\ ~(g.at \in Building \cup Detaching \cup {"call"} /\ g.cb = c)
    OBVIOUS
  <2>1. FrameOK(u, g)
    BY DEF IInv, FramesOK
  <2> QED
    BY <2>1, <1>1 DEF FrameOK
<1>7. /\ object' \in [Objects -> {"none", "constructing", "live", "destroying"}]
      /\ calls' \in [Objects -> 0..1]
      /\ \A d \in Objects : d # c => object'[d] = object[d] /\ calls'[d] = calls[d]
      /\ \/ Stop_requested /\ object'[c] = "constructing" /\ calls'[c] = 1 /\ Push(t, "inline", c)
         \/ Stop_sources = 0 /\ object'[c] = "live" /\ calls'[c] = 0 /\ stack' = stack
         \/ /\ ~Stop_requested
            /\ object'[c] = "constructing" /\ calls'[c] = 0 /\ Push(t, label, c)
  <2>1. /\ object \in [Objects -> {"none", "constructing", "live", "destroying"}]
        /\ calls \in [Objects -> 0..1]
    BY DEF IInv, Typed, ValuesTyped
  <2>2. CASE Stop_requested /\ Push(t, "inline", c) /\ calls' = [calls EXCEPT ![c] = 1]
             /\ object' = [object EXCEPT ![c] = "constructing"]
    BY <2>1, <2>2
  <2>3. CASE Stop_sources = 0 /\ stack' = stack /\ calls' = [calls EXCEPT ![c] = 0]
             /\ object' = [object EXCEPT ![c] = "live"]
    BY <2>1, <2>3
  <2>4. CASE ~Stop_requested /\ Push(t, label, c) /\ calls' = [calls EXCEPT ![c] = 0]
             /\ object' = [object EXCEPT ![c] = "constructing"]
    BY <2>1, <2>4
  <2> QED
    BY <2>2, <2>3, <2>4 DEF Construct
<1>8. ValuesTyped'
  BY <1>1, <1>3, <1>7 DEF IInv, Typed, ValuesTyped
<1>9. ASSUME NEW u \in Threads, NEW g \in Frames(u) PROVE FrameOK(u, g)'
  <2>1. FrameOK(u, g) /\ (g.at \in Building \cup Detaching \cup {"call"} => g.cb # c)
    BY <1>6
  <2>2. g.at \in Building \cup Detaching \cup {"call"} =>
            object'[g.cb] = object[g.cb] /\ calls'[g.cb] = calls[g.cb]
    BY <2>1, <1>7 DEF FrameOK
  <2> QED
    BY <2>1, <2>2, <1>3, <1>4, <1>5 DEF FrameOK
<1>10. ASSUME \A u \in Threads : Frames(u) \subseteq Frames(u)',
              object'[c] = "live" /\ calls'[c] = 0 => Stop_sources = 0,
              object'[c] \in {"live", "constructing"}
       PROVE  ObjectsOK'
  <2> SUFFICES ASSUME NEW d \in Objects PROVE ObjectOK(d)'
    BY DEF ObjectsOK
  <2>1. ObjectOK(d)
    BY DEF IInv, ObjectsOK
  <2>2. Uncalled(d) => Uncalled(d)'
    BY <1>3, <1>4, <1>10 DEF Uncalled
  <2>3. CASE d # c
    BY <2>1, <2>2, <2>3, <1>3, <1>4, <1>7 DEF ObjectOK
  <2>4. CASE d = c
    <3>1. Stop_sources = 0 => Uncalled(c)'
      BY <1>3 DEF Uncalled
    <3> QED
      BY <3>1, <2>4, <1>2, <1>3, <1>4, <1>10 DEF ObjectOK
  <2> QED
    BY <2>3, <2>4
<1>11. ASSUME \A u \in Threads : Frames(u) \subseteq Frames(u)' PROVE Requested'
  BY <1>11, <1>4, <1>5 DEF IInv, Requested
<1>12. ASSUME NEW at \in Building, Push(t, at, c), object'[c] = "constructing",
              at = "inline" => Stop_requested /\ calls'[c] = 1,
              at # "inline" => calls'[c] = 0
       PROVE  IInv'
  <2> DEFINE f == Frame(at, c)
  <2>1. f.at = at /\ f.cb = c
    BY DEF Frame
  <2>2. \A u \in Threads : \A g \in Frames(u) : Apart(t, f, u, g) /\ Apart(u, g, t, f)
    BY <2>1, <1>6 DEF Apart
  <2>3. stack' \in [Threads -> Seq(FrameType)] /\ Stacked' /\ Grown(t, f)
    BY <1>1, <1>12, <2>2, Pushes DEF IInv
  <2> HIDE DEF f
  <2>4. FrameOK(t, f)'
    BY <2>1, <1>1, <1>3, <1>5, <1>12 DEF FrameOK
  <2>5. FramesOK'
    BY <2>3, <2>4, <1>9 DEF FramesOK, Grown
  <2>6. ObjectsOK' /\ Requested'
    BY <2>3, <1>10, <1>11, <1>12 DEF Grown
  <2>7. Counted'
    <3>1. Sourced' <=> Sourced
      BY <2>1, <2>3, <1>3, SourcedGrown
    <3> QED
      BY <3>1, <1>3, CountedSame DEF IInv
  <2> QED
    BY <1>4, <1>8, <2>3, <2>5, <2>6, <2>7 DEF IInv, Typed
<1>13. CASE stack' = stack /\ Stop_sources = 0 /\ object'[c] = "live"
  <2>1. stack' \in [Threads -> Seq(FrameType)] /\ Stacked' /\ \A u \in Threads : Frames(u)' = Frames(u)
    BY <1>13, Unmoved DEF IInv
  <2>2. FramesOK'
    BY <2>1, <1>9 DEF FramesOK
  <2>3. ObjectsOK' /\ Requested'
    BY <2>1, <1>10, <1>11, <1>13
  <2>4. Counted'
    <3>1. Sourced' <=> Sourced
      BY <2>1, <1>3 DEF Sourced
    <3> QED
      BY <3>1, <1>3, CountedSame DEF IInv
  <2> QED
    BY <1>4, <1>8, <2>1, <2>2, <2>3, <2>4 DEF IInv, Typed
<1> QED
  BY <1>7, <1>12, <1>13

(* ~stop_callback begins. *)
LEMMA DestroyKeeps ==
    ASSUME IInv, NEW t \in Threads, NEW c \in Objects, Destroy(t, c)
    PROVE  IInv'
<1> USE DEF countVars, stopVars, objectVars, ownerVars
<1>1. ops' \in 0..MaxOps /\ InProgram(t) /\ object[c] = "live"
  BY Begins DEF IInv, Destroy
<1>2. UNCHANGED <<countVars, listVars, stopVars, Parent, calls, ownerVars>>
  BY DEF Destroy
<1>3. ListTyped' /\ Linked' /\ (\A d \in Objects : Listed(d)' <=> Listed(d)) /\ prev' = prev /\ order' = order
  BY <1>2, ListSame DEF IInv, Typed
<1>4. Stop_requested' <=> Stop_requested
  BY <1>2 DEF Stop_requested
<1>5. ObjectOK(c)
  BY DEF IInv, ObjectsOK
<1>6. \A u \in Threads : \A g \in Frames(u) :
        FrameOK(u, g) /\ ~(g.at \in Building \cup Detaching /\ g.cb = c)
  BY <1>1 DEF IInv, FramesOK, FrameOK
<1>7. /\ object' \in [Objects -> {"none", "constructing", "live", "destroying"}]
      /\ \A d \in Objects : d # c => object'[d] = object[d]
      /\ \/ ~Parent[c] /\ object'[c] = "none" /\ stack' = stack
         \/ Parent[c] /\ object'[c] = "destroying" /\ Push(t, "detach", c)
  BY ZenonT(30) DEF IInv, Typed, ValuesTyped, Destroy
<1>8. ValuesTyped'
  BY <1>1, <1>2, <1>7 DEF IInv, Typed, ValuesTyped
<1>9. ASSUME NEW u \in Threads, NEW g \in Frames(u) PROVE FrameOK(u, g)'
  <2>1. FrameOK(u, g) /\ (g.at \in Building \cup Detaching => g.cb # c)
    BY <1>6
  <2>2. g.at \in Building \cup Detaching => object'[g.cb] = object[g.cb]
    BY <2>1, <1>7 DEF FrameOK
  <2>3. g.at = "call" => object'[g.cb] \in {"live", "destroying"}
    BY <2>1, <1>7 DEF FrameOK
  <2> QED
    BY <2>1, <2>2, <2>3, <1>2, <1>3, <1>4 DEF FrameOK
<1>10. ASSUME \A u \in Threads : Frames(u) \subseteq Frames(u)' PROVE ObjectsOK' /\ Requested'
  <2>1. Requested'
    BY <1>10, <1>3, <1>4 DEF IInv, Requested
  <2>2. ASSUME NEW d \in Objects PROVE ObjectOK(d)'
    <3>1. ObjectOK(d)
      BY DEF IInv, ObjectsOK
    <3>2. Uncalled(d) => Uncalled(d)'
      BY <1>2, <1>3, <1>10 DEF Uncalled
    <3>3. CASE d # c
      BY <3>1, <3>2, <3>3, <1>2, <1>3, <1>7, ZenonT(30) DEF ObjectOK
    <3>4. CASE d = c
      BY <3>1, <3>4, <1>1, <1>2, <1>3, <1>7, ZenonT(30) DEF ObjectOK
    <3> QED
      BY <3>3, <3>4
  <2> QED
    BY <2>1, <2>2 DEF ObjectsOK
<1>11. CASE stack' = stack
  <2>1. stack' \in [Threads -> Seq(FrameType)] /\ Stacked' /\ \A u \in Threads : Frames(u)' = Frames(u)
    BY <1>11, Unmoved DEF IInv
  <2>2. FramesOK'
    BY <2>1, <1>9 DEF FramesOK
  <2>3. ObjectsOK' /\ Requested'
    BY <2>1, <1>10
  <2>4. Counted'
    <3>1. Sourced' <=> Sourced
      BY <2>1, <1>2 DEF Sourced
    <3> QED
      BY <3>1, <1>2, CountedSame DEF IInv
  <2> QED
    BY <1>3, <1>8, <2>1, <2>2, <2>3, <2>4 DEF IInv, Typed
<1>12. CASE Parent[c] /\ object'[c] = "destroying" /\ Push(t, "detach", c)
  <2> DEFINE f == Frame("detach", c)
  <2>1. f.at = "detach" /\ f.cb = c
    BY DEF Frame
  <2>2. \A u \in Threads : \A g \in Frames(u) : Apart(t, f, u, g) /\ Apart(u, g, t, f)
    BY <2>1, <1>6 DEF Apart
  <2>3. stack' \in [Threads -> Seq(FrameType)] /\ Stacked' /\ Grown(t, f)
    BY <1>1, <1>12, <2>2, Pushes DEF IInv
  <2> HIDE DEF f
  <2>4. FrameOK(t, f)'
    BY <2>1, <1>1, <1>2, <1>3, <1>5, <1>12 DEF FrameOK, ObjectOK
  <2>5. FramesOK'
    BY <2>3, <2>4, <1>9 DEF FramesOK, Grown
  <2>6. ObjectsOK' /\ Requested'
    BY <2>3, <1>10 DEF Grown
  <2>7. Counted'
    <3>1. Sourced' <=> Sourced
      BY <2>1, <2>3, <1>2, SourcedGrown
    <3> QED
      BY <3>1, <1>2, CountedSame DEF IInv
  <2> QED
    BY <1>3, <1>8, <2>3, <2>5, <2>6, <2>7 DEF IInv, Typed
<1> QED
  BY <1>7, <1>11, <1>12

(* _Detach can tell from the head and _Prev whether its callback is still  *)
(* registered.                                                             *)
LEMMA DetachTells ==
    ASSUME IInv, NEW c \in Objects, ~Listed(c) => prev[c] = Null
    PROVE  Listed(c) <=> c = Callbacks \/ prev[c] # Null
<1>1. ASSUME Listed(c) PROVE c = Callbacks \/ prev[c] # Null
  <2>1. PICK i \in 1..Len(order) : order[i] = c
    BY <1>1 DEF Listed
  <2>2. order \in Seq(Objects) /\ Callbacks = Nth(1) /\ prev[c] = Nth(i - 1)
    BY <2>1 DEF IInv, Typed, ListTyped, Linked
  <2>3. CASE i = 1
    BY <2>1, <2>2, <2>3 DEF Nth
  <2>4. CASE i # 1
    <3>1. i - 1 \in 1..Len(order)
      BY <2>2, <2>4
    <3> QED
      BY <3>1, <2>2, NthType DEF IInv, Typed
  <2> QED
    BY <2>3, <2>4
<1>2. ASSUME c = Callbacks PROVE Listed(c)
  <2>1. Nth(1) # Null /\ Nth(1) = c
    BY <1>2, NullAssumption DEF IInv, Linked
  <2> QED
    BY <2>1 DEF Nth, Listed
<1> QED
  BY <1>1, <1>2

(* One step of _Detach: the callback is out of the list, and its thread    *)
(* drops the reference, or waits.                                          *)
LEMMA DetachesKeep ==
    ASSUME IInv, NEW t \in Threads, NEW c \in Objects, NEW at \in {"wait", "drop"},
           stack[t] # <<>>, Top(t) \in Frames(t), Top(t).at \in {"detach", "wait"}, Top(t).cb = c,
           stack' = [stack EXCEPT ![t] = <<Frame(at, c)>> \o Tail(@)],
           UNCHANGED <<countVars, stopVars, objectVars, ownerVars, ops>>,
           ListTyped', Linked', ~Listed(c)',
           \A d \in Objects : d # c => (Listed(d)' <=> Listed(d)),
           \A d \in Objects : ~Listed(d) => prev'[d] = prev[d],
           order' # <<>> => order # <<>>,
           at = "drop" => \A u \in Threads : \A g \in Frames(u) :
                            g.at \in Calling /\ g.cb = c => u = t
    PROVE  IInv'
<1> USE DEF countVars, stopVars, objectVars, ownerVars
<1> DEFINE f == Frame(at, c)
<1>1. f \in FrameType /\ f.at = at /\ f.cb = c
  BY DEF Frame, FrameType
<1>2. \A u \in Threads : \A g \in Frames(u) :
        Rest(t, u, g) => Apart(t, f, u, g) /\ Apart(u, g, t, f)
  BY <1>1 DEF Rest, Apart
<1>3. stack' \in [Threads -> Seq(FrameType)] /\ Stacked' /\ Turned(t, {f})
  <2> HIDE DEF f
  <2>1. f.at # "called" /\ stack' = [stack EXCEPT ![t] = <<f>> \o Tail(@)]
    BY <1>1 DEF f
  <2> QED
    BY <1>1, <1>2, <2>1, Becomes, ZenonT(30) DEF IInv
<1> HIDE DEF f
<1>4. ValuesTyped' /\ (Stop_requested' <=> Stop_requested)
  BY DEF IInv, Typed, ValuesTyped, Stop_requested
<1>5. FrameOK(t, Top(t))
  BY DEF IInv, FramesOK
<1>6. FramesOK'
  <2> SUFFICES ASSUME NEW u \in Threads, NEW g \in Frames(u)' PROVE FrameOK(u, g)'
    BY DEF FramesOK
  <2>1. CASE u = t /\ g = f
    BY <2>1, <1>1, <1>5 DEF FrameOK
  <2>2. CASE Rest(t, u, g)
    <3>1. FrameOK(u, g) /\ (g.at \in Building \cup Detaching => g.cb # c)
      BY <2>2, ZenonT(30) DEF Rest, Apart, IInv, FramesOK
    <3>2. g.at \in Building \cup Detaching \cup Calling /\ ~Listed(g.cb) => ~Listed(g.cb)'
      BY <3>1, ZenonT(30) DEF FrameOK
    <3>3. g.at = "detach" /\ ~Listed(g.cb)' => prev'[g.cb] = Null
      BY <3>1 DEF FrameOK
    <3> QED
      BY <3>1, <3>2, <3>3, <1>4, ZenonT(30) DEF FrameOK
  <2> QED
    BY <2>1, <2>2, <1>3 DEF Turned
<1>7. ObjectsOK'
  <2> SUFFICES ASSUME NEW d \in Objects PROVE ObjectOK(d)'
    BY DEF ObjectsOK
  <2>1. ObjectOK(d)
    BY DEF IInv, ObjectsOK
  <2>2. CASE d # c
    <3>1. Uncalled(d) => Uncalled(d)'
      <4>1. Top(t).at # "call" /\ (Stop_sources = 0 => Stop_sources' = 0)
        OBVIOUS
      <4> QED
        BY <4>1, <2>2, <1>3, UncalledTurned, ZenonT(30)
    <3> QED
      BY <3>1, <2>1, <2>2 DEF ObjectOK
  <2>3. CASE d = c
    BY <2>1, <2>3, <1>5 DEF ObjectOK, FrameOK
  <2> QED
    BY <2>2, <2>3
<1>8. Requested'
  BY <1>3, <1>4 DEF IInv, Requested, Turned
<1>9. Counted'
  <2>1. Sourced' <=> Sourced
    <3>1. (\A x \in {f} : x.at # "last_source") /\ Top(t).at # "last_source"
      BY <1>1
    <3> QED
      BY <3>1, <1>3, SourcedTurned
  <2> QED
    BY <2>1, CountedSame DEF IInv
<1> QED
  BY <1>3, <1>4, <1>6, <1>7, <1>8, <1>9 DEF IInv, Typed

(* The critical section of _Detach. *)
LEMMA DetachKeeps ==
    ASSUME IInv, NEW t \in Threads, Detach(t)
    PROVE  IInv'
<1>8. PICK c : c = Cb(t)
  OBVIOUS
<1>1. /\ stack[t] # <<>> /\ Top(t) \in Frames(t) /\ Top(t).cb = c
      /\ Top(t).at = "detach"
  BY <1>8, TopFrame DEF IInv, Detach
<1>2. FrameOK(t, Top(t))
  BY <1>1 DEF IInv, FramesOK
<1>3. c \in Objects /\ (~Listed(c) => prev[c] = Null)
  BY <1>1, <1>2, ZenonT(30) DEF FrameOK
<1>4. Listed(c) <=> c = Callbacks \/ prev[c] # Null
  BY <1>3, DetachTells
<1>5. UNCHANGED <<countVars, stopVars, objectVars, ownerVars, ops>>
  BY DEF Detach
<1>6. CASE Listed(c)
  <2>1. /\ Unlink(c)
        /\ stack' = [stack EXCEPT ![t] = <<Frame("drop", c)>> \o Tail(@)]
    BY <1>4, <1>6, <1>8 DEF Detach, Become
  <2>2. /\ ListTyped' /\ Linked' /\ ~Listed(c)'
        /\ \A d \in Objects : d # c => (Listed(d)' <=> Listed(d))
        /\ \A d \in Objects : ~Listed(d) => prev'[d] = prev[d]
    BY <1>3, <1>6, <2>1, Unlinked DEF IInv, Typed
  <2>3. order # <<>>
    BY <1>6 DEF Listed
  <2>4. \A u \in Threads : \A g \in Frames(u) : g.at \in Calling => g.cb # c
    <3> SUFFICES ASSUME NEW u \in Threads, NEW g \in Frames(u), g.at \in Calling PROVE g.cb # c
      OBVIOUS
    <3>1. FrameOK(u, g)
      BY DEF IInv, FramesOK
    <3> QED
      BY <3>1, <1>6 DEF FrameOK
  <2> QED
    BY <1>1, <1>3, <1>5, <2>1, <2>2, <2>3, <2>4, DetachesKeep, ZenonT(30)
<1>7. CASE ~Listed(c)
  <2>1. PICK at \in {"wait", "drop"} :
          /\ at = "drop" => Current_callback # c \/ Stopping_thread = t
          /\ stack' = [stack EXCEPT ![t] = <<Frame(at, c)>> \o Tail(@)]
          /\ UNCHANGED listVars
    BY <1>4, <1>7, <1>8 DEF Detach, Become
  <2>2. ListTyped' /\ Linked' /\ (\A d \in Objects : Listed(d)' <=> Listed(d)) /\ prev' = prev /\ order' = order
    BY <2>1, ListSame DEF IInv, Typed
  <2>3. at = "drop" => \A u \in Threads : \A g \in Frames(u) : g.at \in Calling /\ g.cb = c => u = t
    BY <2>1 DEF IInv, FramesOK, FrameOK
  <2> QED
    BY <1>1, <1>3, <1>5, <1>7, <2>1, <2>2, <2>3, DetachesKeep, ZenonT(30)
<1> QED
  BY <1>6, <1>7

(* _Detach has waited. *)
LEMMA WaitKeeps ==
    ASSUME IInv, NEW t \in Threads, Detach_wait(t)
    PROVE  IInv'
<1>6. PICK c : c = Cb(t)
  OBVIOUS
<1>1. /\ stack[t] # <<>> /\ Top(t) \in Frames(t) /\ Top(t).cb = c
      /\ Top(t).at = "wait"
  BY <1>6, TopFrame DEF IInv, Detach_wait
<1>2. c \in Objects /\ ~Listed(c)
  <2>1. FrameOK(t, Top(t))
    BY <1>1 DEF IInv, FramesOK
  <2> QED
    BY <2>1, <1>1 DEF FrameOK
<1>3. /\ stack' = [stack EXCEPT ![t] = <<Frame("drop", c)>> \o Tail(@)]
      /\ Current_callback # c
      /\ UNCHANGED <<countVars, listVars, stopVars, objectVars, ownerVars, ops>>
  BY <1>6 DEF Detach_wait, Become
<1>4. ListTyped' /\ Linked' /\ (\A d \in Objects : Listed(d)' <=> Listed(d)) /\ prev' = prev /\ order' = order
  BY <1>3, ListSame DEF IInv, Typed
<1>5. \A u \in Threads : \A g \in Frames(u) : g.at \in Calling => g.cb # c
  <2> SUFFICES ASSUME NEW u \in Threads, NEW g \in Frames(u), g.at \in Calling PROVE g.cb # c
    OBVIOUS
  <2>1. FrameOK(u, g)
    BY DEF IInv, FramesOK
  <2> QED
    BY <2>1, <1>3 DEF FrameOK
<1> QED
  BY <1>1, <1>2, <1>3, <1>4, <1>5, DetachesKeep, ZenonT(30)

-----------------------------------------------------------------------------
(* The steps that change what is counted                                   *)

(* What is known of counting the members of a finite set, and comes from   *)
(* the library at the end.                                                 *)
Counting(S) ==
    \A f \in [S -> BOOLEAN] :
        /\ Cardinality({y \in S : f[y]}) \in Nat
        /\ Cardinality({y \in S : f[y]}) = 0 <=> \A y \in S : ~f[y]
        /\ \A x \in S : ~f[x] =>
               Cardinality({y \in S : [f EXCEPT ![x] = TRUE][y]}) = Cardinality({y \in S : f[y]}) + 1
        /\ \A x \in S : f[x] =>
               Cardinality({y \in S : [f EXCEPT ![x] = FALSE][y]}) = Cardinality({y \in S : f[y]}) - 1

(* One more owner, and one less. *)
LEMMA CountUp ==
    ASSUME NEW S, Counting(S), NEW f \in [S -> BOOLEAN], NEW x \in S, ~f[x],
           NEW g, g = [f EXCEPT ![x] = TRUE]
    PROVE  /\ Cardinality({y \in S : f[y]}) \in Nat
           /\ Cardinality({y \in S : g[y]}) = Cardinality({y \in S : f[y]}) + 1
  BY Zenon DEF Counting

LEMMA CountDown ==
    ASSUME NEW S, Counting(S), NEW f \in [S -> BOOLEAN], NEW x \in S, f[x],
           NEW g, g = [f EXCEPT ![x] = FALSE]
    PROVE  /\ Cardinality({y \in S : f[y]}) \in Nat \ {0}
           /\ Cardinality({y \in S : g[y]}) = Cardinality({y \in S : f[y]}) - 1
<1>1. /\ Cardinality({y \in S : f[y]}) \in Nat
      /\ Cardinality({y \in S : f[y]}) # 0
      /\ Cardinality({y \in S : g[y]}) = Cardinality({y \in S : f[y]}) - 1
  BY Zenon DEF Counting
<1> QED
  BY <1>1

(* Some owner. *)
LEMMA CountSome ==
    ASSUME NEW S, Counting(S), NEW f \in [S -> BOOLEAN]
    PROVE  /\ Cardinality({y \in S : f[y]}) \in Nat
           /\ Cardinality({y \in S : f[y]}) = 0 <=> \A y \in S : ~f[y]
  BY Zenon DEF Counting

(* A source keeps the count of the sources above zero. *)
LEMMA SourceCounted ==
    ASSUME Counting(Threads), Counting(Objects),
           Typed, Counted, NEW t \in Threads, source[t]
    PROVE  Stop_sources # 0 /\ Stop_sources \div 2 # 0
  BY CountSome, Halves, ZenonT(30) DEF Typed, ValuesTyped, Counted

(* request_stop: the first request claims. *)
LEMMA RequestKeeps ==
    ASSUME Counting(Threads), Counting(Objects),
           IInv, NEW t \in Threads, Request_stop(t)
    PROVE  IInv'
<1> USE DEF countVars, stopVars, objectVars, ownerVars
<1> DEFINE f == Frame("claimed", Null)
<1>1. ops' \in 0..MaxOps /\ InProgram(t) /\ source[t]
  BY Begins DEF IInv, Request_stop
<1>2. CASE Stop_requested
  BY <1>1, <1>2, Stutters DEF Request_stop
<1>3. CASE ~Stop_requested
  <2>1. /\ Stop_sources' = Stop_sources + 1
        /\ Push(t, "claimed", Null)
        /\ UNCHANGED <<Stop_tokens, deleted, listVars, stopVars, objectVars, ownerVars>>
    BY <1>3 DEF Request_stop
  <2>2. f.at = "claimed" /\ f.cb = Null
    BY DEF Frame
  <2>3. \A u \in Threads : \A g \in Frames(u) : Apart(t, f, u, g) /\ Apart(u, g, t, f)
    BY <1>3, <2>2 DEF IInv, FramesOK, FrameOK, Apart
  <2> HIDE DEF f
  <2>4. stack' \in [Threads -> Seq(FrameType)] /\ Stacked' /\ Grown(t, f)
    BY <1>1, <2>1, <2>3, Pushes DEF IInv, f
  <2>5. Stop_requested' /\ Stop_sources' \in Nat /\ Stop_sources' \div 2 = Stop_sources \div 2
    BY <1>3, <2>1, Halves DEF IInv, Typed, ValuesTyped, Stop_requested
  <2>6. ListTyped' /\ Linked' /\ (\A d \in Objects : Listed(d)' <=> Listed(d)) /\ prev' = prev /\ order' = order
    BY <2>1, ListSame DEF IInv, Typed
  <2>7. ValuesTyped'
    BY <1>1, <2>1, <2>5 DEF IInv, Typed, ValuesTyped
  <2>8. FramesOK'
    <3> SUFFICES ASSUME NEW u \in Threads, NEW g \in Frames(u)' PROVE FrameOK(u, g)'
      BY DEF FramesOK
    <3>1. CASE u = t /\ g = f
      BY <3>1, <1>1, <2>1, <2>2, <2>5 DEF FrameOK
    <3>2. CASE g \in Frames(u)
      <4>1. FrameOK(u, g)
        BY <3>2 DEF IInv, FramesOK
      <4> QED
        BY <4>1, <2>1, <2>5, <2>6, ZenonT(30) DEF FrameOK
    <3> QED
      BY <3>1, <3>2, <2>4 DEF Grown
  <2>9. ObjectsOK'
    <3>1. Stop_sources # 0
      BY <1>1, SourceCounted DEF IInv
    <3> QED
      BY <3>1, <2>1, <2>4, <2>6, ZenonT(30) DEF IInv, ObjectsOK, ObjectOK, Uncalled, Grown
  <2>10. Requested'
    BY <2>2, <2>4 DEF Requested, Grown
  <2>11. Counted'
    <3>1. Sourced' <=> Sourced
      BY <2>1, <2>2, <2>4, SourcedGrown
    <3> QED
      BY <3>1, <2>1, <2>5 DEF IInv, Counted
  <2> QED
    BY <2>4, <2>6, <2>7, <2>8, <2>9, <2>10, <2>11 DEF IInv, Typed
<1> QED
  BY <1>2, <1>3

(* The constructor of a callback: with the lock. *)
LEMMA AttachKeeps ==
    ASSUME Counting(Threads), Counting(Objects),
           IInv, NEW t \in Threads, Attach(t)
    PROVE  IInv'
<1> USE DEF countVars, stopVars, objectVars, ownerVars
<1>9. PICK c : c = Cb(t)
  OBVIOUS
<1>1. /\ stack[t] # <<>> /\ Top(t) \in Frames(t) /\ Top(t).cb = c
      /\ Top(t).at \in {"attach", "attach_move"}
      /\ At(t, "attach") \/ At(t, "attach_move")
  BY <1>9, TopFrame DEF IInv, Attach
<1>2. FrameOK(t, Top(t))
  BY <1>1 DEF IInv, FramesOK
<1>3. c \in Objects /\ token[t] /\ calls[c] = 0 /\ object[c] = "constructing"
  BY <1>1, <1>2, ZenonT(30) DEF FrameOK
<1>4. ~Listed(c) /\ ~Parent[c] /\ prev[c] = Null
  BY <1>3 DEF IInv, ObjectsOK, ObjectOK
<1>5. /\ UNCHANGED <<Stop_sources, deleted, stopVars, source, ops>>
      /\ Stop_requested' <=> Stop_requested
  BY DEF Attach, Stop_requested
<1>6. ASSUME NEW u \in Threads, NEW g, Rest(t, u, g)
      PROVE  /\ FrameOK(u, g) /\ (u = t => g.at \in Below)
             /\ g.at \in Building \cup Detaching \cup {"call"} => g.cb # c
  <2>1. FrameOK(u, g) /\ (u = t => g.at \in Below)
    BY <1>6 DEF Rest, IInv, FramesOK
  <2>2. g.at \in Building \cup Detaching => g.cb # c
    BY <1>1, <1>6 DEF Rest, Apart
  <2>3. g.at = "call" => g.cb # c
    BY <2>1, <1>3 DEF FrameOK
  <2> QED
    BY <2>1, <2>2, <2>3
<1>7. CASE Stop_requested
  <2> DEFINE f == Frame("inline", c)
  <2>1. /\ calls' = [calls EXCEPT ![c] = 1]
        /\ stack' = [stack EXCEPT ![t] = <<f>> \o Tail(@)]
        /\ UNCHANGED <<Stop_tokens, listVars, object, Parent, token>>
    BY <1>3, <1>7, <1>9 DEF Attach, Become
  <2>2. f \in FrameType /\ f.at = "inline" /\ f.cb = c
    BY <1>3 DEF Frame, FrameType
  <2>3. \A u \in Threads : \A g \in Frames(u) :
          Rest(t, u, g) => Apart(t, f, u, g) /\ Apart(u, g, t, f)
    BY <2>2, <1>6, ZenonT(30) DEF Apart
  <2>4. stack' \in [Threads -> Seq(FrameType)] /\ Stacked' /\ Turned(t, {f})
    BY <1>1, <2>1, <2>2, <2>3, Becomes, ZenonT(30) DEF IInv
  <2> HIDE DEF f
  <2>5. ListTyped' /\ Linked' /\ (\A d \in Objects : Listed(d)' <=> Listed(d)) /\ prev' = prev /\ order' = order
    BY <2>1, ListSame DEF IInv, Typed
  <2>6. ValuesTyped' /\ \A d \in Objects : calls'[d] = IF d = c THEN 1 ELSE calls[d]
    BY <1>3, <1>5, <2>1 DEF IInv, Typed, ValuesTyped
  <2>7. FramesOK'
    <3> SUFFICES ASSUME NEW u \in Threads, NEW g \in Frames(u)' PROVE FrameOK(u, g)'
      BY DEF FramesOK
    <3>1. CASE u = t /\ g = f
      BY <3>1, <1>3, <1>5, <1>7, <2>1, <2>2, <2>6 DEF FrameOK
    <3>2. CASE Rest(t, u, g)
      <4>1. FrameOK(u, g) /\ (g.at \in Building \cup Detaching \cup {"call"} => g.cb # c)
        BY <3>2, <1>6
      <4> QED
        BY <4>1, <1>5, <2>1, <2>5, <2>6, ZenonT(30) DEF FrameOK
    <3> QED
      BY <3>1, <3>2, <2>4 DEF Turned
  <2>8. ObjectsOK'
    <3> SUFFICES ASSUME NEW d \in Objects PROVE ObjectOK(d)'
      BY DEF ObjectsOK
    <3>1. ObjectOK(d)
      BY DEF IInv, ObjectsOK
    <3>2. Uncalled(d) => Uncalled(d)'
      BY <1>1, <1>5, <2>4, <2>5, UncalledTurned, ZenonT(30)
    <3> QED
      BY <3>1, <3>2, <1>3, <1>4, <2>1, <2>5, <2>6, ZenonT(30) DEF ObjectOK
  <2>9. Requested'
    BY <1>1, <1>5, <2>4, <2>5, ZenonT(30) DEF IInv, Requested, Turned
  <2>10. Counted'
    <3>1. Sourced' <=> Sourced
      BY <1>1, <1>5, <2>2, <2>4, SourcedTurned
    <3> QED
      BY <3>1, <1>5, <2>1, CountedSame DEF IInv
  <2> QED
    BY <2>4, <2>5, <2>6, <2>7, <2>8, <2>9, <2>10 DEF IInv, Typed
<1>8. CASE ~Stop_requested
  <2>1. /\ object' = [object EXCEPT ![c] = "live"] /\ calls' = calls /\ Pop(t)
        /\ \/ Stop_sources # 0 /\ Insert(t, c)
           \/ Stop_sources = 0 /\ UNCHANGED <<Stop_tokens, listVars, Parent, token>>
    BY <1>8, <1>9 DEF Attach
  <2>2. stack' \in [Threads -> Seq(FrameType)] /\ Stacked' /\ Turned(t, {})
    BY <1>1, <2>1, Pops, ZenonT(30) DEF IInv
  <2>3. Sourced' <=> Sourced
    BY <1>1, <1>5, <2>2, SourcedTurned
  <2>4. /\ object' \in [Objects -> {"none", "constructing", "live", "destroying"}]
        /\ \A d \in Objects : object'[d] = IF d = c THEN "live" ELSE object[d]
    BY <1>3, <2>1 DEF IInv, Typed, ValuesTyped
  <2>5. Requested'
    BY <1>5, <1>8 DEF Requested
  <2>6. \A u \in Threads : \A g \in Frames(u)' :
          /\ FrameOK(u, g)
          /\ u = t => g.at \in Below
          /\ g.at \in Building \cup Detaching \cup {"call"} => g.cb # c
          /\ g.at \notin Calling
    <3>1. \A u \in Threads : \A g \in Frames(u)' : Rest(t, u, g)
      BY <2>2 DEF Turned
    <3> SUFFICES ASSUME NEW u \in Threads, NEW g \in Frames(u)'
                 PROVE  /\ FrameOK(u, g)
                        /\ u = t => g.at \in Below
                        /\ g.at \in Building \cup Detaching \cup {"call"} => g.cb # c
                        /\ g.at \notin Calling
      OBVIOUS
    <3>2. /\ FrameOK(u, g) /\ (u = t => g.at \in Below)
          /\ g.at \in Building \cup Detaching \cup {"call"} => g.cb # c
      BY <3>1, <1>6
    <3> QED
      BY <3>2, <1>8, ZenonT(30) DEF FrameOK
  <2>7. \A d \in Objects : Uncalled(d) /\ (Listed(d) => Listed(d)') => Uncalled(d)'
    BY <1>1, <1>5, <2>2, UncalledTurned, ZenonT(30)
  <2>8. CASE Stop_sources = 0 /\ UNCHANGED <<Stop_tokens, listVars, Parent, token>>
    <3>1. ListTyped' /\ Linked' /\ (\A d \in Objects : Listed(d)' <=> Listed(d)) /\ prev' = prev /\ order' = order
      BY <2>8, ListSame DEF IInv, Typed
    <3>2. ValuesTyped'
      BY <1>5, <2>1, <2>4, <2>8 DEF IInv, Typed, ValuesTyped
    <3>3. FramesOK'
      <4> SUFFICES ASSUME NEW u \in Threads, NEW g \in Frames(u)' PROVE FrameOK(u, g)'
        BY DEF FramesOK
      <4>1. FrameOK(u, g) /\ g.at \notin Calling
            /\ (g.at \in Building \cup Detaching \cup {"call"} => g.cb # c)
        BY <2>6
      <4> QED
        BY <4>1, <1>5, <2>1, <2>4, <2>8, <3>1, ZenonT(30) DEF FrameOK
    <3>4. ObjectsOK'
      <4> SUFFICES ASSUME NEW d \in Objects PROVE ObjectOK(d)'
        BY DEF ObjectsOK
      <4>1. ObjectOK(d)
        BY DEF IInv, ObjectsOK
      <4>2. Uncalled(d)'
        BY <1>5, <2>8 DEF Uncalled
      <4> QED
        BY <4>1, <4>2, <1>3, <1>4, <2>1, <2>4, <2>8, <3>1, ZenonT(30) DEF ObjectOK
    <3>5. Counted'
      BY <1>5, <2>3, <2>8, CountedSame DEF IInv
    <3> QED
      BY <2>2, <2>5, <3>1, <3>2, <3>3, <3>4, <3>5 DEF IInv, Typed
  <2>9. CASE Stop_sources # 0 /\ Insert(t, c)
    <3>1. /\ ListTyped' /\ Linked' /\ Listed(c)'
          /\ \A d \in Objects : d # c => (Listed(d)' <=> Listed(d))
          /\ \A d \in Objects : ~Listed(d) => prev'[d] = prev[d]
      <4>1. /\ next' = [next EXCEPT ![c] = Callbacks]
            /\ prev' = Assign(prev, Callbacks, c)
            /\ Callbacks' = c
            /\ order' = <<c>> \o order
        BY <2>9 DEF Insert
      <4> QED
        BY <4>1, <1>3, <1>4, Inserted, ZenonT(30) DEF IInv, Typed
    <3>2. /\ Parent' = [Parent EXCEPT ![c] = TRUE]
          /\ \/ Stop_tokens' = Stop_tokens + 1 /\ token' = token
             \/ Stop_tokens' = Stop_tokens /\ token' = [token EXCEPT ![t] = FALSE]
      BY <2>9 DEF Insert
    <3>3. Parent \in [Objects -> BOOLEAN] /\ token \in [Threads -> BOOLEAN] /\ Stop_tokens \in Nat
      BY DEF IInv, Typed, ValuesTyped
    <3>4. Parent' \in [Objects -> BOOLEAN] /\ token' \in [Threads -> BOOLEAN] /\ Stop_tokens' \in Nat
      <4>1. Parent' \in [Objects -> BOOLEAN]
        BY <3>2, <3>3, ZenonT(30)
      <4>2. token' \in [Threads -> BOOLEAN]
        BY <3>2, <3>3, ZenonT(30)
      <4> QED
        BY <4>1, <4>2, <3>2, <3>3
    <3>5. ValuesTyped'
      BY <1>5, <2>1, <2>4, <3>4 DEF IInv, Typed, ValuesTyped
    <3>6. /\ Parent'[c] /\ \A d \in Objects : d # c => Parent'[d] = Parent[d]
          /\ \A u \in Threads : u # t => token'[u] = token[u]
      BY <1>3, <3>2, <3>3
    <3>7. FramesOK'
      <4> SUFFICES ASSUME NEW u \in Threads, NEW g \in Frames(u)' PROVE FrameOK(u, g)'
        BY DEF FramesOK
      <4>1. /\ FrameOK(u, g)
            /\ u = t => g.at \in Below
            /\ g.at \in Building \cup Detaching \cup {"call"} => g.cb # c
            /\ g.at \notin Calling
        BY <2>6
      <4>2. g.at \in {"attach", "attach_move"} => token'[u] = token[u]
        BY <4>1, <3>6 DEF Below
      <4>3. g.at \in Building \cup Detaching =>
                /\ object'[g.cb] = object[g.cb] /\ Parent'[g.cb] = Parent[g.cb]
                /\ Listed(g.cb)' <=> Listed(g.cb)
        BY <4>1, <2>4, <3>1, <3>6, ZenonT(30) DEF FrameOK
      <4> QED
        BY <4>1, <4>2, <4>3, <1>5, <2>1, <3>1, ZenonT(30) DEF FrameOK
    <3>8. ObjectsOK'
      <4> SUFFICES ASSUME NEW d \in Objects PROVE ObjectOK(d)'
        BY DEF ObjectsOK
      <4>1. ObjectOK(d)
        BY DEF IInv, ObjectsOK
      <4>2. CASE d # c
        BY <4>1, <4>2, <2>1, <2>4, <2>7, <3>1, <3>6, ZenonT(30) DEF ObjectOK
      <4>3. CASE d = c
        <5>1. Uncalled(c)'
          BY <3>1, ZenonT(30) DEF Uncalled
        <5> QED
          BY <5>1, <4>3, <1>3, <2>1, <2>4, <3>1, <3>6, ZenonT(30) DEF ObjectOK
      <4> QED
        BY <4>2, <4>3
    <3>9. Counted'
      <4> DEFINE A == Cardinality({u \in Threads : token[u]})
                 B == Cardinality({d \in Objects : Parent[d]})
      <4>1. B \in Nat /\ Cardinality({d \in Objects : Parent'[d]}) = B + 1
        <5>1. /\ Parent \in [Objects -> BOOLEAN] /\ c \in Objects /\ ~Parent[c]
              /\ Parent' = [Parent EXCEPT ![c] = TRUE]
          BY <1>3, <1>4, <3>2, <3>3
        <5> QED
          BY <5>1, CountUp
      <4>2. A \in Nat /\ A # 0
        BY <1>3, <3>3, CountSome
      <4>3. /\ Stop_tokens = A + B + (IF Sourced THEN 1 ELSE 0) /\ (deleted <=> Stop_tokens = 0)
            /\ Stop_sources \div 2 = Cardinality({u \in Threads : source[u]})
        BY DEF IInv, Counted
      <4>4. CASE Stop_tokens' = Stop_tokens + 1 /\ token' = token
        <5> HIDE DEF A, B
        <5>1. Stop_tokens' = A + (B + 1) + (IF Sourced THEN 1 ELSE 0) /\ (deleted <=> Stop_tokens' = 0)
          BY <4>1, <4>2, <4>3, <4>4
        <5> QED
          BY <5>1, <4>1, <4>3, <4>4, <1>5, <2>3 DEF Counted, A
      <4>5. CASE Stop_tokens' = Stop_tokens /\ token' = [token EXCEPT ![t] = FALSE]
        <5>1. Cardinality({u \in Threads : token'[u]}) = A - 1
          <6>1. /\ token \in [Threads -> BOOLEAN] /\ token[t]
                /\ token' = [token EXCEPT ![t] = FALSE]
            BY <4>5, <1>3, <3>3
          <6> QED
            BY <6>1, CountDown
        <5> HIDE DEF A, B
        <5>2. Stop_tokens' = (A - 1) + (B + 1) + (IF Sourced THEN 1 ELSE 0)
          BY <4>1, <4>2, <4>3, <4>5
        <5> QED
          BY <5>1, <5>2, <4>1, <4>3, <4>5, <1>5, <2>3 DEF Counted
      <4> QED
        BY <4>4, <4>5, <3>2
    <3> QED
      BY <2>2, <2>5, <3>1, <3>5, <3>7, <3>8, <3>9 DEF IInv, Typed
  <2> QED
    BY <2>1, <2>8, <2>9
<1> QED
  BY <1>7, <1>8

=============================================================================
