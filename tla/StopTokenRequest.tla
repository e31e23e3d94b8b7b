--------------------------- MODULE StopTokenRequest ---------------------------
(***************************************************************************)
(* Proofs about StopToken, for any finite sets of threads and callbacks,   *)
(* any number of calls, and functions that call back to any depth: the     *)
(* list is sound, every callback is called once and none is forgotten, a   *)
(* destructor outwaits a call on another thread, and the state is deleted  *)
(* by its last owner.                                                      *)
(***************************************************************************)
EXTENDS StopToken, TLAPS

Requesting == {"claimed", "loop", "call"}
Calling == {"call", "called"}
Building == {"attach", "attach_move", "inline"}
Detaching == {"detach", "wait", "drop"}

USE DEF Requesting, Calling, Building, Detaching, StateLabels, FunctionLabels

(* Each leaf is tried with SMT, then with Zenon, then with more time. *)
USE SMTT(10), ZenonT(10), SMTT(30)

FrameType == [at : StateLabels \cup FunctionLabels, cb : Objects \cup {Null}]

ListTyped ==
    /\ Callbacks \in Objects \cup {Null}
    /\ next \in [Objects -> Objects \cup {Null}]
    /\ prev \in [Objects -> Objects \cup {Null}]
    /\ order \in Seq(Objects)

ValuesTyped ==
    /\ Stop_tokens \in Nat
    /\ Stop_sources \in Nat
    /\ deleted \in BOOLEAN
    /\ Current_callback \in Objects \cup {Null}
    /\ Stopping_thread \in Threads \cup {Null}
    /\ object \in [Objects -> {"none", "constructing", "live", "destroying"}]
    /\ Parent \in [Objects -> BOOLEAN]
    /\ source \in [Threads -> BOOLEAN]
    /\ token \in [Threads -> BOOLEAN]
    /\ ops \in 0..MaxOps
    /\ calls \in [Objects -> 0..1]

Typed == ListTyped /\ ValuesTyped /\ stack \in [Threads -> Seq(FrameType)]

Top(t) == stack[t][1]

(* What a call can be suspended in, below the call that is running. *)
Below == {"loop", "called", "inline"}

(* A function that _Request_stop calls returns to its loop. *)
Nested(s) ==
    \A i \in 1..Len(s) :
        /\ i > 1 => s[i].at \in Below
        /\ s[i].at = "called" => i < Len(s) /\ s[i + 1].at = "loop"

(* Two calls in progress do not get into each other's way: there is one    *)
(* request, one call that builds or destroys an object, and one last       *)
(* source, and no destructor that is done outruns a call of its callback   *)
(* on another thread.                                                      *)
Apart(t, f, u, g) ==
    /\ ~(f.at \in Requesting /\ g.at \in Requesting)
    /\ ~(/\ f.at \in Building \cup Detaching
         /\ g.at \in Building \cup Detaching
         /\ f.cb = g.cb)
    /\ ~(f.at = "last_source" /\ g.at = "last_source")
    /\ f.at = "drop" /\ g.at \in Calling /\ f.cb = g.cb => t = u

Stacked ==
    /\ \A t \in Threads : Nested(stack[t])
    /\ \A t, u \in Threads : \A i \in 1..Len(stack[t]) : \A j \in 1..Len(stack[u]) :
        t # u \/ i # j => Apart(t, stack[t][i], u, stack[u][j])

Listed(c) == \E i \in 1..Len(order) : order[i] = c

(* What a call of thread t in progress relies on. *)
FrameOK(t, f) ==
    /\ f.at \in Requesting => source[t] /\ Stop_requested
    /\ f.at \in Calling \cup {"loop"} => Stopping_thread = t /\ Stop_requested
    /\ f.at \in Calling => /\ f.cb \in Objects
                           /\ Current_callback = f.cb
                           /\ ~Listed(f.cb)
    /\ f.at = "call" => /\ calls[f.cb] = 0
                        /\ Parent[f.cb]
                        /\ object[f.cb] \in {"live", "destroying"}
    /\ f.at \in {"attach", "attach_move"} => token[t] /\ calls[f.cb] = 0
    /\ f.at = "inline" => Stop_requested /\ calls[f.cb] = 1
    /\ f.at \in Building => f.cb \in Objects /\ object[f.cb] = "constructing"
    /\ f.at \in Detaching => /\ f.cb \in Objects
                             /\ object[f.cb] = "destroying"
                             /\ Parent[f.cb]
    /\ f.at = "detach" /\ ~Listed(f.cb) => prev[f.cb] = Null
    /\ f.at \in {"wait", "drop"} => ~Listed(f.cb)
    /\ f.at = "last_source" => \A u \in Threads : ~source[u]

FramesOK == \A t \in Threads : \A f \in Frames(t) : FrameOK(t, f)

(* The pointers spell the list of the registered callbacks. *)
Linked ==
    /\ \A i, j \in 1..Len(order) : order[i] = order[j] => i = j
    /\ Callbacks = Nth(1)
    /\ \A i \in 1..Len(order) :
        next[order[i]] = Nth(i + 1) /\ prev[order[i]] = Nth(i - 1)

(* A callback that was not called is in the list, or is the one that       *)
(* _Request_stop has taken from it, or there is nobody to request a stop.  *)
Uncalled(c) ==
    \/ Listed(c)
    \/ Stop_sources = 0
    \/ \E t \in Threads : Frame("call", c) \in Frames(t)

ObjectOK(c) ==
    /\ Listed(c) => Parent[c] /\ calls[c] = 0 /\ object[c] \in {"live", "destroying"}
    /\ object[c] \in {"none", "constructing"} => ~Parent[c]
    /\ object[c] \in {"constructing", "live"} /\ ~Listed(c) => prev[c] = Null
    /\ object[c] = "live" /\ calls[c] = 0 => Uncalled(c)

ObjectsOK == \A c \in Objects : ObjectOK(c)

(* A request ends only when the list is empty. *)
Requested ==
    Stop_requested /\ order # <<>> =>
        \E t \in Threads : \E f \in Frames(t) : f.at \in Requesting

Sourced == \E t \in Threads : source[t] \/ \E f \in Frames(t) : f.at = "last_source"

Counted ==
    /\ Stop_sources \div 2 = Cardinality({t \in Threads : source[t]})
    /\ Stop_tokens = Cardinality({t \in Threads : token[t]})
                   + Cardinality({c \in Objects : Parent[c]})
                   + (IF Sourced THEN 1 ELSE 0)
    /\ deleted <=> Stop_tokens = 0

IInv == Typed /\ Stacked /\ FramesOK /\ Linked /\ ObjectsOK /\ Requested /\ Counted

-----------------------------------------------------------------------------
(* The stacks                                                              *)

(* A sequence with one element before it. *)
LEMMA PushSeq ==
    ASSUME NEW S, NEW s \in Seq(S), NEW x \in S
    PROVE  /\ <<x>> \o s \in Seq(S)
           /\ Len(<<x>> \o s) = Len(s) + 1
           /\ (<<x>> \o s)[1] = x
           /\ \A i \in 1..Len(s) : (<<x>> \o s)[i + 1] = s[i]
  OBVIOUS

(* And without its first. *)
LEMMA PopSeq ==
    ASSUME NEW S, NEW s \in Seq(S), s # <<>>
    PROVE  /\ Tail(s) \in Seq(S)
           /\ Len(s) \in Nat \ {0}
           /\ Len(Tail(s)) = Len(s) - 1
           /\ Head(s) = s[1]
           /\ s[1] \in S
           /\ \A i \in 1..Len(s) - 1 : Tail(s)[i] = s[i + 1]
  OBVIOUS

(* Two sequences in one. *)
LEMMA JoinSeq ==
    ASSUME NEW S, NEW a \in Seq(S), NEW b \in Seq(S)
    PROVE  /\ a \o b \in Seq(S)
           /\ Len(a) \in Nat /\ Len(b) \in Nat
           /\ Len(a \o b) = Len(a) + Len(b)
           /\ \A i \in 1..Len(a) : (a \o b)[i] = a[i]
           /\ \A i \in 1..Len(b) : (a \o b)[Len(a) + i] = b[i]
  OBVIOUS

(* The innermost call of a thread. *)
LEMMA TopFrame ==
    ASSUME Typed, NEW t \in Threads, NEW label, At(t, label)
    PROVE  /\ stack[t] \in Seq(FrameType)
           /\ stack[t] # <<>>
           /\ Len(stack[t]) \in Nat \ {0}
           /\ Cb(t) = Top(t).cb
           /\ Top(t).at = label
           /\ Top(t) = Frame(label, Cb(t))
           /\ Top(t) \in Frames(t)
           /\ Top(t) \in FrameType
           /\ Cb(t) \in Objects \cup {Null}
<1>1. stack[t] \in Seq(FrameType) /\ stack[t] # <<>>
  BY DEF Typed, At
<1>2. Len(stack[t]) \in Nat \ {0} /\ Head(stack[t]) = stack[t][1] /\ stack[t][1] \in FrameType
  BY <1>1, PopSeq
<1>3. Top(t) = Frame(label, Cb(t)) /\ Cb(t) = Top(t).cb /\ Top(t).at = label
  BY <1>2 DEF At, Cb, Top, Frame, FrameType
<1>4. Top(t) \in Frames(t)
  BY <1>2 DEF Frames, Top
<1> QED
  BY <1>1, <1>2, <1>3, <1>4 DEF FrameType, Top

(* What a step does to the calls in progress: one more, *)
Grown(t, f) ==
    /\ \A u \in Threads : \A g \in Frames(u)' : g \in Frames(u) \/ (u = t /\ g = f)
    /\ \A u \in Threads : Frames(u) \subseteq Frames(u)'
    /\ f \in Frames(t)'

(* or the innermost gone, and new ones in its place. *)
Rest(t, u, g) ==
    /\ g \in Frames(u)
    /\ Apart(t, Top(t), u, g)
    /\ Apart(u, g, t, Top(t))
    /\ u = t => g.at \in Below

Turned(t, new) ==
    /\ \A u \in Threads : \A g \in Frames(u)' : (u = t /\ g \in new) \/ Rest(t, u, g)
    /\ \A u \in Threads : \A g \in Frames(u) : g \in Frames(u)' \/ (u = t /\ g = Top(t))
    /\ new \subseteq Frames(t)'

(* A call that gets in nobody's way is begun by the program. *)
LEMMA Pushes ==
    ASSUME Typed, Stacked, NEW t \in Threads, InProgram(t),
           NEW label \in StateLabels \cup FunctionLabels, label # "called",
           NEW c \in Objects \cup {Null}, Push(t, label, c),
           \A u \in Threads : \A g \in Frames(u) :
                Apart(t, Frame(label, c), u, g) /\ Apart(u, g, t, Frame(label, c))
    PROVE  /\ stack' \in [Threads -> Seq(FrameType)]
           /\ Stacked'
           /\ Grown(t, Frame(label, c))
<1> DEFINE f == Frame(label, c)
<1>1. f \in FrameType /\ f.at = label
  BY DEF Frame, FrameType
<1>2. stack[t] \in Seq(FrameType) /\ stack'[t] = <<f>> \o stack[t]
  BY DEF Typed, Push
<1> HIDE DEF f
<1>3. /\ stack'[t] \in Seq(FrameType)
      /\ Len(stack'[t]) = Len(stack[t]) + 1
      /\ stack'[t][1] = f
      /\ \A i \in 1..Len(stack[t]) : stack'[t][i + 1] = stack[t][i]
  BY <1>1, <1>2, PushSeq
<1>4. /\ stack' \in [Threads -> Seq(FrameType)]
      /\ \A u \in Threads : u # t => stack'[u] = stack[u]
  BY <1>3 DEF Typed, Push
<1>5. Len(stack[t]) \in Nat
  BY <1>2
<1>6. \A i \in 1..Len(stack'[t]) :
        i = 1 \/ (i - 1 \in 1..Len(stack[t]) /\ stack'[t][i] = stack[t][i - 1])
  BY <1>3, <1>5
<1>7. Grown(t, f)
  <2>1. ASSUME NEW u \in Threads, NEW g \in Frames(u)'
        PROVE  g \in Frames(u) \/ (u = t /\ g = f)
    <3>1. PICK i \in 1..Len(stack'[u]) : g = stack'[u][i]
      BY <2>1 DEF Frames
    <3>2. CASE u # t
      BY <3>1, <3>2, <1>4 DEF Frames
    <3>3. CASE u = t
      BY <3>1, <3>3, <1>3, <1>6, ZenonT(30) DEF Frames
    <3> QED
      BY <3>2, <3>3
  <2>2. ASSUME NEW u \in Threads, NEW g \in Frames(u)
        PROVE  g \in Frames(u)'
    <3>1. PICK i \in 1..Len(stack[u]) : g = stack[u][i]
      BY <2>2 DEF Frames
    <3>2. CASE u # t
      BY <3>1, <3>2, <1>4 DEF Frames
    <3>3. CASE u = t
      <4>1. i + 1 \in 1..Len(stack'[t]) /\ stack'[t][i + 1] = g
        BY <3>1, <3>3, <1>3, <1>5
      <4> QED
        BY <4>1, <3>3 DEF Frames
    <3> QED
      BY <3>2, <3>3
  <2>3. f \in Frames(t)'
    BY <1>3, <1>5 DEF Frames
  <2> QED
    BY <2>1, <2>2, <2>3 DEF Grown
<1>8. \A u \in Threads : Nested(stack'[u])
  <2>1. \A i \in 1..Len(stack[t]) : i = 1 => stack[t][i].at \in FunctionLabels
    BY <1>2, PopSeq DEF InProgram
  <2>2. Nested(stack[t])
    BY DEF Stacked
  <2>3. ASSUME NEW i \in 1..Len(stack'[t]), i # 1
        PROVE  /\ stack'[t][i].at \in Below
               /\ stack'[t][i].at = "called" => i < Len(stack'[t]) /\ stack'[t][i + 1].at = "loop"
    <3>1. i - 1 \in 1..Len(stack[t]) /\ stack'[t][i] = stack[t][i - 1]
      BY <2>3, <1>6
    <3>2. stack'[t][i].at \in Below
      BY <3>1, <2>1, <2>2 DEF Nested, Below
    <3>3. ASSUME stack'[t][i].at = "called"
          PROVE  i < Len(stack'[t]) /\ stack'[t][i + 1].at = "loop"
      <4>1. i - 1 < Len(stack[t]) /\ stack[t][i - 1 + 1].at = "loop"
        BY <3>1, <3>3, <2>2 DEF Nested
      <4>2. i \in 1..Len(stack[t])
        BY <4>1, <3>1, <1>5
      <4> QED
        BY <4>1, <4>2, <1>3, <1>5
    <3> QED
      BY <3>2, <3>3
  <2>4. Nested(stack'[t])
    BY <2>3, <1>1, <1>3 DEF Nested
  <2> QED
    BY <2>4, <1>4 DEF Stacked
<1>9. ASSUME NEW u \in Threads, NEW v \in Threads,
             NEW i \in 1..Len(stack'[u]), NEW j \in 1..Len(stack'[v]), u # v \/ i # j
      PROVE  Apart(u, stack'[u][i], v, stack'[v][j])
  <2>1. \A x \in Threads : \A k \in 1..Len(stack[x]) : stack[x][k] \in Frames(x)
    BY DEF Frames
  <2>2. CASE u # t /\ v # t
    BY <2>2, <1>4, <1>9 DEF Stacked
  <2>3. CASE u = t /\ i = 1
    <3>1. stack'[v][j] \in Frames(v)
      <4>1. CASE v # t
        BY <4>1, <2>1, <1>4
      <4>2. CASE v = t
        BY <4>2, <2>1, <2>3, <1>6, <1>9
      <4> QED
        BY <4>1, <4>2
    <3> QED
      BY <3>1, <2>3, <1>3 DEF f
  <2>4. CASE v = t /\ j = 1
    <3>1. stack'[u][i] \in Frames(u)
      <4>1. CASE u # t
        BY <4>1, <2>1, <1>4
      <4>2. CASE u = t
        BY <4>2, <2>1, <2>4, <1>6, <1>9
      <4> QED
        BY <4>1, <4>2
    <3> QED
      BY <3>1, <2>4, <1>3 DEF f
  <2>5. CASE u = t /\ i # 1 /\ v = t /\ j # 1
    <3>1. /\ i - 1 \in 1..Len(stack[t]) /\ stack'[t][i] = stack[t][i - 1]
          /\ j - 1 \in 1..Len(stack[t]) /\ stack'[t][j] = stack[t][j - 1]
      BY <2>5, <1>6
    <3>2. i - 1 # j - 1
      BY <2>5, <1>9
    <3> QED
      BY <3>1, <3>2, <2>5 DEF Stacked
  <2>6. CASE u = t /\ i # 1 /\ v # t
    BY <2>6, <1>4, <1>6, <1>9 DEF Stacked
  <2>7. CASE v = t /\ j # 1 /\ u # t
    BY <2>7, <1>4, <1>6, <1>9 DEF Stacked
  <2> QED
    BY <2>2, <2>3, <2>4, <2>5, <2>6, <2>7
<1> QED
  BY <1>4, <1>7, <1>8, <1>9 DEF Stacked, f

(* The innermost call of a thread gives way to new ones. *)
LEMMA Turns ==
    ASSUME Typed, Stacked, NEW t \in Threads, stack[t] # <<>>,
           NEW n \in Seq(FrameType), stack' = [stack EXCEPT ![t] = n \o Tail(@)],
           Nested(n \o Tail(stack[t])),
           \A i, j \in 1..Len(n) : i # j => Apart(t, n[i], t, n[j]),
           \A i \in 1..Len(n) : \A u \in Threads : \A g \in Frames(u) :
                Rest(t, u, g) => Apart(t, n[i], u, g) /\ Apart(u, g, t, n[i])
    PROVE  /\ stack' \in [Threads -> Seq(FrameType)]
           /\ Stacked'
           /\ Turned(t, {n[i] : i \in 1..Len(n)})
<1> DEFINE s == stack[t]
           k == Len(n)
<1>1. /\ s \in Seq(FrameType)
      /\ Len(s) \in Nat \ {0}
      /\ Tail(s) \in Seq(FrameType)
      /\ Len(Tail(s)) = Len(s) - 1
      /\ \A i \in 1..Len(s) - 1 : Tail(s)[i] = s[i + 1]
  BY PopSeq DEF Typed
<1>2. stack'[t] = n \o Tail(s) /\ \A u \in Threads : u # t => stack'[u] = stack[u]
  BY DEF Typed
<1>3. /\ k \in Nat
      /\ stack'[t] \in Seq(FrameType)
      /\ Len(stack'[t]) = k + Len(s) - 1
      /\ \A i \in 1..k : stack'[t][i] = n[i]
      /\ \A i \in 1..Len(Tail(s)) : stack'[t][k + i] = Tail(s)[i]
  BY <1>1, <1>2
<1>4. \A i \in 1..Len(stack'[t]) :
        \/ i \in 1..k /\ stack'[t][i] = n[i]
        \/ i - k + 1 \in 2..Len(s) /\ stack'[t][i] = s[i - k + 1]
  <2> SUFFICES ASSUME NEW i \in 1..Len(stack'[t]), i \notin 1..k
               PROVE  i - k + 1 \in 2..Len(s) /\ stack'[t][i] = s[i - k + 1]
    BY <1>3
  <2>1. i - k \in 1..Len(s) - 1 /\ k + (i - k) = i
    BY <1>1, <1>3
  <2> QED
    BY <2>1, <1>1, <1>3
<1>5. \A j \in 2..Len(s) : j + k - 1 \in 1..Len(stack'[t]) /\ stack'[t][j + k - 1] = s[j]
  <2> SUFFICES ASSUME NEW j \in 2..Len(s)
               PROVE  j + k - 1 \in 1..Len(stack'[t]) /\ stack'[t][j + k - 1] = s[j]
    OBVIOUS
  <2>1. j - 1 \in 1..Len(s) - 1 /\ k + (j - 1) = j + k - 1 /\ (j - 1) + 1 = j
    BY <1>1, <1>3
  <2> QED
    BY <2>1, <1>1, <1>3
<1>6. stack' \in [Threads -> Seq(FrameType)]
  BY <1>2, <1>3 DEF Typed
<1> HIDE DEF k
<1>7. ASSUME NEW u \in Threads, NEW j \in 1..Len(stack[u]), u # t \/ j # 1
      PROVE  Rest(t, u, stack[u][j])
  <2>1. stack[u][j] \in Frames(u)
    BY DEF Frames
  <2>2. Apart(t, Top(t), u, stack[u][j]) /\ Apart(u, stack[u][j], t, Top(t))
    BY <1>1, <1>7 DEF Stacked, Top
  <2>3. u = t => stack[u][j].at \in Below
    BY <1>1, <1>7 DEF Stacked, Nested
  <2> QED
    BY <2>1, <2>2, <2>3 DEF Rest
<1>8. Turned(t, {n[i] : i \in 1..k})
  <2>1. ASSUME NEW u \in Threads, NEW g \in Frames(u)'
        PROVE  (u = t /\ g \in {n[i] : i \in 1..k}) \/ Rest(t, u, g)
    <3>1. PICK i \in 1..Len(stack'[u]) : g = stack'[u][i]
      BY <2>1 DEF Frames
    <3>2. CASE u # t
      BY <3>1, <3>2, <1>2, <1>7
    <3>3. CASE u = t /\ i \in 1..k
      BY <3>1, <3>3, <1>3
    <3>4. CASE u = t /\ i \notin 1..k
      <4>1. i - k + 1 \in 2..Len(s) /\ g = s[i - k + 1]
        BY <3>1, <3>4, <1>4
      <4>2. i - k + 1 \in 1..Len(stack[t]) /\ i - k + 1 # 1
        BY <4>1, <1>1, <1>3
      <4> QED
        BY <4>1, <4>2, <3>4, <1>7
    <3> QED
      BY <3>2, <3>3, <3>4
  <2>2. ASSUME NEW u \in Threads, NEW g \in Frames(u)
        PROVE  g \in Frames(u)' \/ (u = t /\ g = Top(t))
    <3>1. PICK j \in 1..Len(stack[u]) : g = stack[u][j]
      BY <2>2 DEF Frames
    <3>2. CASE u # t
      BY <3>1, <3>2, <1>2 DEF Frames
    <3>3. CASE u = t /\ j # 1
      <4>1. j \in 2..Len(s)
        BY <3>1, <3>3, <1>1
      <4>2. j + k - 1 \in 1..Len(stack'[t]) /\ stack'[t][j + k - 1] = g
        BY <4>1, <3>1, <3>3, <1>5
      <4> QED
        BY <4>2, <3>3 DEF Frames
    <3> QED
      BY <3>1, <3>2, <3>3 DEF Top
  <2>3. \A i \in 1..k : n[i] \in Frames(t)'
    <3> SUFFICES ASSUME NEW i \in 1..k PROVE n[i] \in Frames(t)'
      OBVIOUS
    <3>1. i \in 1..Len(stack'[t]) /\ stack'[t][i] = n[i]
      BY <1>1, <1>3
    <3> QED
      BY <3>1 DEF Frames
  <2> QED
    BY <2>1, <2>2, <2>3 DEF Turned
<1>9. \A u \in Threads : Nested(stack'[u])
  BY <1>2 DEF Stacked
<1>10. ASSUME NEW u \in Threads, NEW v \in Threads,
              NEW i \in 1..Len(stack'[u]), NEW j \in 1..Len(stack'[v]), u # v \/ i # j
       PROVE  Apart(u, stack'[u][i], v, stack'[v][j])
  <2>1. \A x \in Threads : \A g : Rest(t, x, g) => g \in Frames(x)
    BY DEF Rest
  <2>2. (u = t /\ i \in 1..k) \/ \E x \in 1..Len(stack[u]) :
            /\ u # t \/ x # 1
            /\ stack'[u][i] = stack[u][x]
            /\ IF u = t THEN x = i - k + 1 ELSE x = i
    <3>1. CASE u # t
      BY <3>1, <1>2
    <3>2. CASE u = t /\ i \notin 1..k
      <4>1. i - k + 1 \in 2..Len(s) /\ stack'[t][i] = s[i - k + 1]
        BY <3>2, <1>4
      <4>2. i - k + 1 \in 1..Len(stack[t]) /\ i - k + 1 # 1
        BY <4>1, <1>1, <1>3
      <4> QED
        BY <4>1, <4>2, <3>2
    <3> QED
      BY <3>1, <3>2
  <2>3. (v = t /\ j \in 1..k) \/ \E y \in 1..Len(stack[v]) :
            /\ v # t \/ y # 1
            /\ stack'[v][j] = stack[v][y]
            /\ IF v = t THEN y = j - k + 1 ELSE y = j
    <3>1. CASE v # t
      BY <3>1, <1>2
    <3>2. CASE v = t /\ j \notin 1..k
      <4>1. j - k + 1 \in 2..Len(s) /\ stack'[t][j] = s[j - k + 1]
        BY <3>2, <1>4
      <4>2. j - k + 1 \in 1..Len(stack[t]) /\ j - k + 1 # 1
        BY <4>1, <1>1, <1>3
      <4> QED
        BY <4>1, <4>2, <3>2
    <3> QED
      BY <3>1, <3>2
  <2>4. CASE u = t /\ i \in 1..k /\ v = t /\ j \in 1..k
    BY <2>4, <1>3, <1>10 DEF k
  <2>5. CASE u = t /\ i \in 1..k /\ ~(v = t /\ j \in 1..k)
    <3>1. PICK y \in 1..Len(stack[v]) : (v # t \/ y # 1) /\ stack'[v][j] = stack[v][y]
      BY <2>3, <2>5
    <3>2. Rest(t, v, stack[v][y]) /\ stack[v][y] \in Frames(v)
      BY <3>1, <1>7, <2>1
    <3> QED
      BY <3>1, <3>2, <2>5, <1>3 DEF k
  <2>6. CASE v = t /\ j \in 1..k /\ ~(u = t /\ i \in 1..k)
    <3>1. PICK x \in 1..Len(stack[u]) : (u # t \/ x # 1) /\ stack'[u][i] = stack[u][x]
      BY <2>2, <2>6
    <3>2. Rest(t, u, stack[u][x]) /\ stack[u][x] \in Frames(u)
      BY <3>1, <1>7, <2>1
    <3> QED
      BY <3>1, <3>2, <2>6, <1>3 DEF k
  <2>7. CASE ~(u = t /\ i \in 1..k) /\ ~(v = t /\ j \in 1..k)
    <3>1. PICK x \in 1..Len(stack[u]) :
            stack'[u][i] = stack[u][x] /\ IF u = t THEN x = i - k + 1 ELSE x = i
      BY <2>2, <2>7
    <3>2. PICK y \in 1..Len(stack[v]) :
            stack'[v][j] = stack[v][y] /\ IF v = t THEN y = j - k + 1 ELSE y = j
      BY <2>3, <2>7
    <3>3. u # v \/ x # y
      BY <3>1, <3>2, <1>3, <1>10
    <3> QED
      BY <3>1, <3>2, <3>3 DEF Stacked
  <2> QED
    BY <2>4, <2>5, <2>6, <2>7
<1> QED
  BY <1>6, <1>8, <1>9, <1>10, ZenonT(30) DEF Stacked, k

(* One call in the place of another. *)
LEMMA Becomes ==
    ASSUME Typed, Stacked, NEW t \in Threads, stack[t] # <<>>,
           NEW f \in FrameType, f.at # "called",
           stack' = [stack EXCEPT ![t] = <<f>> \o Tail(@)],
           \A u \in Threads : \A g \in Frames(u) :
                Rest(t, u, g) => Apart(t, f, u, g) /\ Apart(u, g, t, f)
    PROVE  /\ stack' \in [Threads -> Seq(FrameType)]
           /\ Stacked'
           /\ Turned(t, {f})
<1> DEFINE n == <<f>>
           s == stack[t]
           q == n \o Tail(s)
<1>1. n \in Seq(FrameType) /\ Len(n) = 1 /\ n[1] = f
  OBVIOUS
<1>2. {n[i] : i \in 1..Len(n)} = {f}
  BY <1>1
<1>3. /\ s \in Seq(FrameType)
      /\ Len(s) \in Nat \ {0}
      /\ Tail(s) \in Seq(FrameType)
      /\ Len(Tail(s)) = Len(s) - 1
      /\ \A i \in 1..Len(s) - 1 : Tail(s)[i] = s[i + 1]
  BY PopSeq DEF Typed
<1>4. /\ Len(q) = Len(s)
      /\ q[1] = f
      /\ \A i \in 1..Len(Tail(s)) : q[i + 1] = Tail(s)[i]
  BY <1>3, PushSeq
<1>5. \A i \in 2..Len(s) : q[i] = s[i]
  <2> SUFFICES ASSUME NEW i \in 2..Len(s) PROVE q[i] = s[i]
    OBVIOUS
  <2>1. i - 1 \in 1..Len(s) - 1 /\ (i - 1) + 1 = i
    BY <1>3
  <2> QED
    BY <2>1, <1>3, <1>4
<1>6. Nested(s)
  BY DEF Stacked
<1> HIDE DEF q, s
<1>7. Nested(q)
  BY <1>3, <1>4, <1>5, <1>6 DEF Nested
<1>8. /\ \A i, j \in 1..Len(n) : i # j => Apart(t, n[i], t, n[j])
      /\ \A i \in 1..Len(n) : \A u \in Threads : \A g \in Frames(u) :
            Rest(t, u, g) => Apart(t, n[i], u, g) /\ Apart(u, g, t, n[i])
  BY <1>1
<1>9. stack' = [stack EXCEPT ![t] = n \o Tail(@)] /\ Nested(n \o Tail(stack[t]))
  BY <1>7 DEF q, s
<1> HIDE DEF n
<1>10. /\ stack' \in [Threads -> Seq(FrameType)]
       /\ Stacked'
       /\ Turned(t, {n[i] : i \in 1..Len(n)})
  BY <1>1, <1>8, <1>9, Turns, ZenonT(30)
<1> QED
  BY <1>2, <1>10, ZenonT(30)

(* A call that returns. *)
LEMMA Pops ==
    ASSUME Typed, Stacked, NEW t \in Threads, stack[t] # <<>>, Pop(t)
    PROVE  /\ stack' \in [Threads -> Seq(FrameType)]
           /\ Stacked'
           /\ Turned(t, {})
<1> DEFINE n == <<>>
           s == stack[t]
<1>1. n \in Seq(FrameType) /\ Len(n) = 0 /\ 1..Len(n) = {}
  OBVIOUS
<1>2. /\ s \in Seq(FrameType)
      /\ Len(s) \in Nat \ {0}
      /\ Tail(s) \in Seq(FrameType)
      /\ Len(Tail(s)) = Len(s) - 1
      /\ \A i \in 1..Len(s) - 1 : Tail(s)[i] = s[i + 1]
  BY PopSeq DEF Typed
<1>3. n \o Tail(s) = Tail(s)
  BY <1>2
<1>4. Nested(s)
  BY DEF Stacked
<1>5. Nested(n \o Tail(s))
  <2> SUFFICES ASSUME NEW i \in 1..Len(s) - 1
               PROVE  /\ i > 1 => Tail(s)[i].at \in Below
                      /\ Tail(s)[i].at = "called" =>
                            i < Len(s) - 1 /\ Tail(s)[i + 1].at = "loop"
    BY <1>2, <1>3 DEF Nested
  <2>1. Tail(s)[i] = s[i + 1] /\ i + 1 \in 1..Len(s)
    BY <1>2
  <2>2. i > 1 => Tail(s)[i].at \in Below
    BY <2>1, <1>4 DEF Nested
  <2>3. ASSUME Tail(s)[i].at = "called" PROVE i < Len(s) - 1 /\ Tail(s)[i + 1].at = "loop"
    <3>1. i + 1 < Len(s) /\ s[i + 1 + 1].at = "loop"
      BY <2>1, <2>3, <1>4 DEF Nested
    <3>2. i + 1 \in 1..Len(s) - 1
      BY <3>1, <1>2
    <3> QED
      BY <3>1, <3>2, <1>2
  <2> QED
    BY <2>2, <2>3
<1>6. stack' = [stack EXCEPT ![t] = n \o Tail(@)]
  BY <1>3 DEF Pop, Typed
<1>7. {n[i] : i \in 1..Len(n)} = {}
  BY <1>1
<1> HIDE DEF n
<1>8. /\ stack' \in [Threads -> Seq(FrameType)]
      /\ Stacked'
      /\ Turned(t, {n[i] : i \in 1..Len(n)})
  BY <1>1, <1>5, <1>6, Turns, ZenonT(30)
<1> QED
  BY <1>7, <1>8, ZenonT(30)

(* Nobody is in a function called by _Request_stop while that is at work   *)
(* itself.                                                                 *)
LEMMA NoneCalled ==
    ASSUME Typed, Stacked, NEW t \in Threads, stack[t] # <<>>, Top(t).at \in Requesting
    PROVE  \A u \in Threads : \A g \in Frames(u) : g.at # "called"
<1> SUFFICES ASSUME NEW u \in Threads, NEW g \in Frames(u), g.at = "called" PROVE FALSE
  OBVIOUS
<1>1. PICK j \in 1..Len(stack[u]) : g = stack[u][j]
  BY DEF Frames
<1>2. /\ stack[u] \in Seq(FrameType)
      /\ stack[t] \in Seq(FrameType)
      /\ Len(stack[t]) \in Nat \ {0}
  BY PopSeq DEF Typed
<1>3. j < Len(stack[u]) /\ stack[u][j + 1].at = "loop"
  BY <1>1 DEF Stacked, Nested
<1>4. j + 1 \in 1..Len(stack[u]) /\ j + 1 # 1
  BY <1>2, <1>3
<1>5. Apart(t, stack[t][1], u, stack[u][j + 1])
  BY <1>2, <1>4 DEF Stacked
<1> QED
  BY <1>3, <1>5 DEF Apart, Top

(* A thread in the program is in no other call than those that the         *)
(* functions were called from.                                             *)
LEMMA ProgramFrames ==
    ASSUME Typed, Stacked, NEW t \in Threads, InProgram(t)
    PROVE  \A f \in Frames(t) : f.at \in Below
<1> SUFFICES ASSUME NEW f \in Frames(t) PROVE f.at \in Below
  OBVIOUS
<1>1. PICK i \in 1..Len(stack[t]) : f = stack[t][i]
  BY DEF Frames
<1>2. stack[t] \in Seq(FrameType) /\ stack[t] # <<>>
  BY <1>1 DEF Typed
<1>3. CASE i = 1
  BY <1>1, <1>2, <1>3, PopSeq DEF InProgram, Below
<1>4. CASE i > 1
  BY <1>1, <1>4 DEF Stacked, Nested
<1> QED
  BY <1>3, <1>4

(* _Request_stop calls the function of a callback, and will go on. *)
LEMMA Calls ==
    ASSUME Typed, Stacked, NEW t \in Threads, At(t, "call"), Cb(t) \in Objects,
           stack' = [stack EXCEPT ![t] =
                        <<Frame("called", Cb(t)), Frame("loop", Null)>> \o Tail(@)]
    PROVE  /\ stack' \in [Threads -> Seq(FrameType)]
           /\ Stacked'
           /\ Turned(t, {Frame("called", Cb(t)), Frame("loop", Null)})
<1> DEFINE n == <<Frame("called", Cb(t)), Frame("loop", Null)>>
           s == stack[t]
           q == n \o Tail(s)
<1>1. /\ n \in Seq(FrameType) /\ Len(n) = 2
      /\ n[1] = Frame("called", Cb(t)) /\ n[2] = Frame("loop", Null)
  BY DEF FrameType, Frame
<1>2. {n[i] : i \in 1..Len(n)} = {Frame("called", Cb(t)), Frame("loop", Null)}
  BY <1>1
<1>3. /\ s # <<>> /\ s \in Seq(FrameType)
      /\ Top(t) = Frame("call", Cb(t))
  BY TopFrame
<1>4. /\ Len(s) \in Nat \ {0}
      /\ Tail(s) \in Seq(FrameType)
      /\ Len(Tail(s)) = Len(s) - 1
      /\ \A i \in 1..Len(s) - 1 : Tail(s)[i] = s[i + 1]
  BY <1>3, PopSeq
<1> HIDE DEF n
<1>5. /\ Len(q) = Len(s) + 1
      /\ q[1] = n[1] /\ q[2] = n[2]
      /\ \A i \in 1..Len(Tail(s)) : q[2 + i] = Tail(s)[i]
  <2>1. /\ Len(q) = 2 + Len(Tail(s))
        /\ \A i \in 1..2 : q[i] = n[i]
        /\ \A i \in 1..Len(Tail(s)) : q[2 + i] = Tail(s)[i]
    <3>1. /\ Len(q) = Len(n) + Len(Tail(s))
          /\ \A i \in 1..Len(n) : q[i] = n[i]
          /\ \A i \in 1..Len(Tail(s)) : q[Len(n) + i] = Tail(s)[i]
      BY <1>1, <1>4, JoinSeq
    <3>2. Len(n) = 2
      BY <1>1
    <3> HIDE DEF q, s
    <3> QED
      BY <3>1, <3>2, Zenon
  <2>2. 2 + Len(Tail(s)) = Len(s) + 1 /\ 1 \in 1..2 /\ 2 \in 1..2
    BY <1>4
  <2> HIDE DEF q, s
  <2> QED
    BY <2>1, <2>2
<1>6. \A i \in 3..Len(s) + 1 : q[i] = s[i - 1]
  <2> SUFFICES ASSUME NEW i \in 3..Len(s) + 1 PROVE q[i] = s[i - 1]
    BY ZenonT(30)
  <2>1. i - 2 \in 1..Len(s) - 1 /\ 2 + (i - 2) = i /\ (i - 2) + 1 = i - 1
    BY <1>4
  <2> QED
    BY <2>1, <1>4, <1>5
<1>7. Nested(s)
  BY DEF Stacked
<1>8. n[1].at = "called" /\ n[2].at = "loop"
  BY <1>1 DEF Frame
<1> HIDE DEF q, s
<1>9. Nested(q)
  <2> SUFFICES ASSUME NEW i \in 1..Len(q)
               PROVE  /\ i > 1 => q[i].at \in Below
                      /\ q[i].at = "called" => i < Len(q) /\ q[i + 1].at = "loop"
    BY DEF Nested
  <2>1. CASE i \in {1, 2}
    BY <2>1, <1>4, <1>5, <1>8 DEF Below
  <2>2. CASE i \notin {1, 2}
    <3>1. i - 1 \in 2..Len(s) /\ q[i] = s[i - 1] /\ (i - 1) + 1 = i
      BY <2>2, <1>4, <1>5, <1>6
    <3>2. i - 1 \in 1..Len(s) /\ i - 1 > 1
      BY <3>1, <1>4
    <3>3. q[i].at \in Below
      BY <3>1, <3>2, <1>7 DEF Nested
    <3>4. ASSUME q[i].at = "called" PROVE i < Len(q) /\ q[i + 1].at = "loop"
      <4>1. i - 1 < Len(s) /\ s[i].at = "loop"
        BY <3>1, <3>2, <3>4, <1>7 DEF Nested
      <4>2. i + 1 \in 3..Len(s) + 1 /\ (i + 1) - 1 = i
        BY <4>1, <3>2, <1>4
      <4> QED
        BY <4>1, <4>2, <1>4, <1>5, <1>6
    <3> QED
      BY <3>3, <3>4
  <2> QED
    BY <2>1, <2>2
<1>10. /\ \A i, j \in 1..Len(n) : i # j => Apart(t, n[i], t, n[j])
       /\ \A i \in 1..Len(n) : \A u \in Threads : \A g \in Frames(u) :
             Rest(t, u, g) => Apart(t, n[i], u, g) /\ Apart(u, g, t, n[i])
  <2>1. n[1].at = "called" /\ n[1].cb = Cb(t) /\ n[2].at = "loop"
    BY <1>1 DEF Frame
  <2>2. Top(t).at = "call" /\ Top(t).cb = Cb(t)
    BY TopFrame
  <2>3. \A i \in 1..Len(n) : i = 1 \/ i = 2
    BY <1>1
  <2>4. Apart(t, n[1], t, n[2]) /\ Apart(t, n[2], t, n[1])
    BY <2>1 DEF Apart
  <2>5. ASSUME NEW u \in Threads, NEW g \in Frames(u), Rest(t, u, g)
        PROVE  /\ Apart(t, n[1], u, g) /\ Apart(u, g, t, n[1])
               /\ Apart(t, n[2], u, g) /\ Apart(u, g, t, n[2])
    <3>1. g.at \notin Requesting /\ (g.at = "drop" /\ g.cb = Cb(t) => t = u)
      BY <2>2, <2>5 DEF Rest, Apart
    <3> QED
      BY <3>1, <2>1 DEF Apart
  <2> QED
    BY <2>3, <2>4, <2>5
<1>11. stack' = [stack EXCEPT ![t] = n \o Tail(@)] /\ Nested(n \o Tail(stack[t]))
  BY <1>9 DEF q, s, n
<1>12. /\ stack' \in [Threads -> Seq(FrameType)]
       /\ Stacked'
       /\ Turned(t, {n[i] : i \in 1..Len(n)})
  BY <1>1, <1>3, <1>10, <1>11, Turns, ZenonT(30) DEF s
<1> QED
  BY <1>2, <1>12, ZenonT(30)

-----------------------------------------------------------------------------
(* The list of callbacks                                                   *)

(* A place in the list, or none. *)
LEMMA NthType ==
    ASSUME ListTyped, NEW i \in Int
    PROVE  /\ Nth(i) \in Objects \cup {Null}
           /\ Nth(i) = Null <=> i \notin 1..Len(order)
           /\ i \in 1..Len(order) => Nth(i) = order[i] /\ order[i] \in Objects
  BY NullAssumption DEF ListTyped, Nth

(* p->field = v for the neighbours of a callback. *)
LEMMA AssignType ==
    ASSUME NEW field \in [Objects -> Objects \cup {Null}], NEW p, NEW v \in Objects \cup {Null}
    PROVE  /\ Assign(field, p, v) \in [Objects -> Objects \cup {Null}]
           /\ \A c \in Objects : Assign(field, p, v)[c] = IF c = p THEN v ELSE field[c]
  BY DEF Assign

(* _Request_stop takes the head off the list. *)
LEMMA HeadTaken ==
    ASSUME ListTyped, Linked, NEW h, h = Callbacks, h # Null,
           Callbacks' = next[h],
           next' = [next EXCEPT ![h] = Null],
           prev' = Assign(prev, next[h], Null),
           order' = Tail(order)
    PROVE  /\ ListTyped'
           /\ Linked'
           /\ h \in Objects
           /\ Listed(h)
           /\ ~Listed(h)'
           /\ prev[h] = Null
           /\ \A c \in Objects : c # h => (Listed(c)' <=> Listed(c))
           /\ \A c \in Objects : prev'[c] = prev[c] \/ prev'[c] = Null
<1> DEFINE n == Len(order)
<1>1. h \in Objects /\ order \in Seq(Objects) /\ order # <<>>
  BY DEF ListTyped, Linked, Nth
<1>2. /\ n \in Nat \ {0}
      /\ order' \in Seq(Objects)
      /\ Len(order') = n - 1
      /\ \A i \in 1..n - 1 : order'[i] = order[i + 1]
  BY <1>1, PopSeq
<1> HIDE DEF n
<1>3. \A i \in 1..n : order[i] \in Objects
  BY <1>1 DEF n
<1>4. /\ h = order[1] /\ prev[h] = Null
      /\ next[h] = IF n > 1 THEN order[2] ELSE Null
  BY <1>2 DEF Linked, Nth, n
<1>5. /\ ListTyped'
      /\ \A c \in Objects : next'[c] = IF c = h THEN Null ELSE next[c]
      /\ \A c \in Objects : prev'[c] = IF c = next[h] THEN Null ELSE prev[c]
  BY <1>1, <1>2, AssignType DEF ListTyped
<1>6. \A i, j \in 1..n : order[i] = order[j] => i = j
  BY DEF Linked, n
<1>7. \A i, j \in 1..Len(order') : order'[i] = order'[j] => i = j
  <2> SUFFICES ASSUME NEW i \in 1..n - 1, NEW j \in 1..n - 1, order'[i] = order'[j]
               PROVE  i = j
    BY <1>2
  <2>1. i + 1 \in 1..n /\ j + 1 \in 1..n /\ order[i + 1] = order[j + 1]
    BY <1>2
  <2> QED
    BY <2>1, <1>6
<1>8. \A i \in 1..n : order[i] # Null
  BY <1>3, NullAssumption
<1>9. Callbacks' = Nth(1)'
  BY <1>2, <1>4 DEF Nth
<1>10. ASSUME NEW i \in 1..Len(order')
       PROVE  next'[order'[i]] = Nth(i + 1)' /\ prev'[order'[i]] = Nth(i - 1)'
  <2>1. /\ i \in 1..n - 1 /\ i + 1 \in 1..n /\ order'[i] = order[i + 1]
        /\ order[i + 1] \in Objects /\ order[i + 1] # h
    BY <1>2, <1>3, <1>4, <1>6
  <2>2. next[order[i + 1]] = Nth(i + 1 + 1) /\ prev[order[i + 1]] = Nth(i + 1 - 1)
    BY <2>1 DEF Linked, n
  <2>3. next'[order'[i]] = Nth(i + 1)'
    <3>1. next'[order'[i]] = Nth(i + 2)
      BY <2>1, <2>2, <1>5
    <3> QED
      BY <3>1, <2>1, <1>2 DEF Nth, n
  <2>4. CASE i = 1
    <3>1. order'[i] = next[h] /\ order'[i] \in Objects
      BY <2>1, <2>4, <1>2, <1>4
    <3>2. prev'[order'[i]] = Null
      BY <3>1, <1>5
    <3>3. Nth(i - 1)' = Null
      BY <2>4 DEF Nth
    <3> QED
      BY <3>2, <3>3, <2>3
  <2>5. CASE i # 1
    <3>1. order[i + 1] # next[h]
      BY <2>1, <2>5, <1>4, <1>6, <1>8, <1>2
    <3>2. prev'[order'[i]] = order[i]
      BY <3>1, <2>1, <2>2, <1>5 DEF Nth, n
    <3>3. i - 1 \in 1..n - 1 /\ order'[i - 1] = order[i]
      BY <2>1, <2>5, <1>2
    <3> QED
      BY <3>2, <3>3, <2>3, <1>2 DEF Nth
  <2> QED
    BY <2>4, <2>5
<1>11. Linked'
  BY <1>7, <1>9, <1>10 DEF Linked
<1>12. Listed(h)
  BY <1>2, <1>4 DEF Listed, n
<1>13. ~Listed(h)'
  <2> SUFFICES ASSUME NEW i \in 1..n - 1, order'[i] = h PROVE FALSE
    BY <1>2 DEF Listed
  <2>1. i + 1 \in 1..n /\ order[i + 1] = order[1] /\ 1 \in 1..n
    BY <1>2, <1>4
  <2> QED
    BY <2>1, <1>6
<1>14. ASSUME NEW c \in Objects, c # h PROVE Listed(c)' <=> Listed(c)
  <2>1. ASSUME Listed(c)' PROVE Listed(c)
    <3>1. PICK i \in 1..n - 1 : order'[i] = c
      BY <2>1, <1>2 DEF Listed
    <3>2. i + 1 \in 1..n /\ order[i + 1] = c
      BY <3>1, <1>2
    <3> QED
      BY <3>2 DEF Listed, n
  <2>2. ASSUME Listed(c) PROVE Listed(c)'
    <3>1. PICK i \in 1..n : order[i] = c
      BY <2>2 DEF Listed, n
    <3>2. i # 1
      BY <3>1, <1>4, <1>14
    <3>3. i - 1 \in 1..n - 1 /\ (i - 1) + 1 = i
      BY <3>2, <1>2
    <3>4. order'[i - 1] = c
      BY <3>1, <3>3, <1>2
    <3> QED
      BY <3>3, <3>4, <1>2 DEF Listed
  <2> QED
    BY <2>1, <2>2
<1> QED
  BY <1>1, <1>4, <1>5, <1>11, <1>12, <1>13, <1>14

(* The constructor of a callback puts it before the head. *)
LEMMA Inserted ==
    ASSUME ListTyped, Linked, NEW c \in Objects, ~Listed(c), prev[c] = Null,
           next' = [next EXCEPT ![c] = Callbacks],
           prev' = Assign(prev, Callbacks, c),
           Callbacks' = c,
           order' = <<c>> \o order
    PROVE  /\ ListTyped'
           /\ Linked'
           /\ Listed(c)'
           /\ \A d \in Objects : d # c => (Listed(d)' <=> Listed(d))
           /\ \A d \in Objects : ~Listed(d) => prev'[d] = prev[d]
<1> DEFINE n == Len(order)
<1>1. /\ n \in Nat
      /\ order' \in Seq(Objects)
      /\ Len(order') = n + 1
      /\ order'[1] = c
      /\ \A i \in 1..n : order'[i + 1] = order[i]
  BY PushSeq DEF ListTyped
<1>2. \A i \in 1..n : order[i] \in Objects /\ order[i] # c /\ order[i] # Null
  BY NullAssumption DEF ListTyped, Listed
<1> HIDE DEF n
<1>3. /\ Callbacks = IF n > 0 THEN order[1] ELSE Null
      /\ Callbacks # c
  BY <1>1, <1>2, NullAssumption DEF Linked, Nth, n
<1>4. /\ ListTyped'
      /\ \A d \in Objects : next'[d] = IF d = c THEN Callbacks ELSE next[d]
      /\ \A d \in Objects : prev'[d] = IF d = Callbacks THEN c ELSE prev[d]
  <2>1. /\ prev' \in [Objects -> Objects \cup {Null}]
        /\ \A d \in Objects : prev'[d] = IF d = Callbacks THEN c ELSE prev[d]
    BY AssignType DEF ListTyped
  <2>2. /\ next' \in [Objects -> Objects \cup {Null}]
        /\ \A d \in Objects : next'[d] = IF d = c THEN Callbacks ELSE next[d]
    BY DEF ListTyped
  <2> QED
    BY <2>1, <2>2, <1>1 DEF ListTyped
<1>5. \A i, j \in 1..n : order[i] = order[j] => i = j
  BY DEF Linked, n
<1>6. \A i \in 1..n + 1 : i # 1 => i - 1 \in 1..n /\ order'[i] = order[i - 1]
  <2> SUFFICES ASSUME NEW i \in 1..n + 1, i # 1
               PROVE  i - 1 \in 1..n /\ order'[i] = order[i - 1]
    BY ZenonT(30)
  <2>1. i - 1 \in 1..n /\ (i - 1) + 1 = i
    BY <1>1
  <2> QED
    BY <2>1, <1>1
<1>7. \A i, j \in 1..Len(order') : order'[i] = order'[j] => i = j
  <2> SUFFICES ASSUME NEW i \in 1..n + 1, NEW j \in 1..n + 1, order'[i] = order'[j]
               PROVE  i = j
    BY <1>1
  <2>1. i = 1 <=> j = 1
    BY <1>1, <1>2, <1>6
  <2>2. CASE i # 1 /\ j # 1
    <3>1. i - 1 = j - 1
      BY <2>2, <1>5, <1>6, ZenonT(30)
    <3> QED
      BY <3>1, <1>1
  <2> QED
    BY <2>1, <2>2
<1>8. Callbacks' = Nth(1)'
  BY <1>1 DEF Nth
<1>9. ASSUME NEW i \in 1..Len(order')
      PROVE  next'[order'[i]] = Nth(i + 1)' /\ prev'[order'[i]] = Nth(i - 1)'
  <2>1. CASE i = 1
    <3>1. next'[c] = Callbacks /\ prev'[c] = Null
      BY <1>3, <1>4
    <3>2. Nth(2)' = Callbacks /\ Nth(0)' = Null
      BY <1>1, <1>3, <1>6 DEF Nth
    <3> QED
      BY <3>1, <3>2, <2>1, <1>1
  <2>2. CASE i # 1
    <3>1. i - 1 \in 1..n /\ order'[i] = order[i - 1] /\ i \in 1..n + 1
      BY <2>2, <1>1, <1>6
    <3>2. next[order[i - 1]] = Nth(i - 1 + 1) /\ prev[order[i - 1]] = Nth(i - 1 - 1)
      BY <3>1 DEF Linked, n
    <3>3. next'[order'[i]] = Nth(i)
      BY <3>1, <3>2, <1>2, <1>4
    <3>4. Nth(i) = Nth(i + 1)'
      <4>1. CASE i \in 1..n
        BY <4>1, <1>1 DEF Nth, n
      <4>2. CASE i = n + 1
        BY <4>2, <1>1 DEF Nth, n
      <4> QED
        BY <4>1, <4>2, <3>1, <1>1
    <3>5. prev'[order'[i]] = Nth(i - 1)'
      <4>1. CASE i = 2
        BY <4>1, <3>1, <1>1, <1>2, <1>3, <1>4 DEF Nth
      <4>2. CASE i # 2
        <5>1. order[i - 1] # Callbacks
          BY <4>2, <3>1, <1>1, <1>2, <1>3, <1>5
        <5>2. prev'[order'[i]] = Nth(i - 2)
          BY <5>1, <3>1, <3>2, <1>2, <1>4
        <5>3. i - 2 \in 1..n /\ order'[i - 1] = order[i - 2] /\ i - 1 \in 1..n + 1
          BY <4>2, <2>2, <3>1, <1>1, <1>6
        <5> QED
          BY <5>2, <5>3, <1>1 DEF Nth, n
      <4> QED
        BY <4>1, <4>2
    <3> QED
      BY <3>3, <3>4, <3>5
  <2> QED
    BY <2>1, <2>2
<1>10. Linked'
  BY <1>7, <1>8, <1>9 DEF Linked
<1>11. Listed(c)'
  BY <1>1 DEF Listed
<1>12. ASSUME NEW d \in Objects, d # c PROVE Listed(d)' <=> Listed(d)
  <2>1. ASSUME Listed(d)' PROVE Listed(d)
    BY <2>1, <1>12, <1>1, <1>6 DEF Listed, n
  <2>2. ASSUME Listed(d) PROVE Listed(d)'
    <3>1. PICK i \in 1..n : order[i] = d
      BY <2>2 DEF Listed, n
    <3>2. i + 1 \in 1..n + 1 /\ order'[i + 1] = d
      BY <3>1, <1>1
    <3> QED
      BY <3>2, <1>1 DEF Listed
  <2> QED
    BY <2>1, <2>2
<1>13. \A d \in Objects : ~Listed(d) => prev'[d] = prev[d]
  <2>1. Callbacks # Null => Listed(Callbacks)
    BY <1>1, <1>3 DEF Listed, n
  <2> QED
    BY <2>1, <1>4, NullAssumption
<1> QED
  BY <1>4, <1>10, <1>11, <1>12, <1>13

(* A sequence without one of its elements. *)
Without(s, k) == SubSeq(s, 1, k - 1) \o SubSeq(s, k + 1, Len(s))

LEMMA WithoutOne ==
    ASSUME NEW S, NEW s \in Seq(S), NEW k \in 1..Len(s)
    PROVE  /\ Without(s, k) \in Seq(S)
           /\ Len(Without(s, k)) = Len(s) - 1
           /\ \A i \in 1..Len(s) - 1 : Without(s, k)[i] = IF i < k THEN s[i] ELSE s[i + 1]
<1> DEFINE q == Without(s, k)
           a == SubSeq(s, 1, k - 1)
           b == SubSeq(s, k + 1, Len(s))
<1>1. a \in Seq(S) /\ Len(a) = k - 1 /\ \A i \in 1..k - 1 : a[i] = s[i]
  OBVIOUS
<1>2. b \in Seq(S) /\ Len(b) = Len(s) - k /\ \A i \in 1..Len(s) - k : b[i] = s[k + i]
  OBVIOUS
<1>3. q = a \o b
  BY DEF Without
<1> HIDE DEF a, b, q
<1>4. /\ q \in Seq(S)
      /\ Len(q) = Len(s) - 1
      /\ \A i \in 1..k - 1 : q[i] = a[i]
      /\ \A i \in 1..Len(s) - k : q[(k - 1) + i] = b[i]
  <2>1. /\ q \in Seq(S)
        /\ Len(q) = (k - 1) + (Len(s) - k)
        /\ \A i \in 1..k - 1 : q[i] = a[i]
        /\ \A i \in 1..Len(s) - k : q[(k - 1) + i] = b[i]
    <3>1. /\ a \o b \in Seq(S)
          /\ Len(a \o b) = Len(a) + Len(b)
          /\ \A i \in 1..Len(a) : (a \o b)[i] = a[i]
          /\ \A i \in 1..Len(b) : (a \o b)[Len(a) + i] = b[i]
      <4>1. a \in Seq(S) /\ b \in Seq(S)
        BY <1>1, <1>2
      <4> QED
        BY <4>1, JoinSeq
    <3>2. Len(a) = k - 1 /\ Len(b) = Len(s) - k
      BY <1>1, <1>2
    <3> QED
      BY <3>1, <3>2, <1>3, Zenon
  <2>2. (k - 1) + (Len(s) - k) = Len(s) - 1
    OBVIOUS
  <2> QED
    BY <2>1, <2>2
<1>5. ASSUME NEW i \in 1..Len(s) - 1 PROVE q[i] = IF i < k THEN s[i] ELSE s[i + 1]
  <2>1. CASE i < k
    <3>1. i \in 1..k - 1
      BY <2>1
    <3> QED
      BY <3>1, <2>1, <1>1, <1>4
  <2>2. CASE ~(i < k)
    <3>1. /\ i - (k - 1) \in 1..Len(s) - k
          /\ (k - 1) + (i - (k - 1)) = i
          /\ k + (i - (k - 1)) = i + 1
      BY <2>2
    <3>2. q[i] = b[i - (k - 1)]
      BY <3>1, <1>4
    <3>3. b[i - (k - 1)] = s[i + 1]
      BY <3>1, <1>2
    <3> QED
      BY <3>2, <3>3, <2>2
  <2> QED
    BY <2>1, <2>2
<1> QED
  BY <1>4, <1>5 DEF q

(* _Detach takes a callback out, wherever it is. *)
LEMMA Unlinked ==
    ASSUME ListTyped, Linked, NEW c \in Objects, Listed(c), Unlink(c)
    PROVE  /\ ListTyped'
           /\ Linked'
           /\ ~Listed(c)'
           /\ \A d \in Objects : d # c => (Listed(d)' <=> Listed(d))
           /\ \A d \in Objects : ~Listed(d) => prev'[d] = prev[d]
<1> DEFINE n == Len(order)
<1>1. PICK k \in 1..n :
        order[k] = c /\ order' = SubSeq(order, 1, k - 1) \o SubSeq(order, k + 1, n)
  BY ZenonT(30) DEF Unlink, Unlisted
<1>2. /\ n \in Nat
      /\ order' \in Seq(Objects)
      /\ Len(order') = n - 1
      /\ \A i \in 1..n - 1 : order'[i] = IF i < k THEN order[i] ELSE order[i + 1]
  <2>1. /\ order \in Seq(Objects) /\ n \in Nat /\ k \in 1..Len(order)
        /\ order' = Without(order, k)
    BY <1>1 DEF ListTyped, Without
  <2> QED
    BY <2>1, WithoutOne
<1>3. \A i \in 1..n : order[i] \in Objects /\ order[i] # Null
  BY NullAssumption DEF ListTyped
<1>4. /\ \A i, j \in 1..n : order[i] = order[j] => i = j
      /\ \A i \in 1..n : next[order[i]] = Nth(i + 1) /\ prev[order[i]] = Nth(i - 1)
      /\ Callbacks = Nth(1)
  BY DEF Linked
<1>5. \A i \in Int : Nth(i) = IF i \in 1..n THEN order[i] ELSE Null
  BY DEF Nth
<1>6. \A i \in Int : Nth(i)' = IF i \in 1..n - 1 THEN order'[i] ELSE Null
  BY <1>2 DEF Nth
<1>7. c = Callbacks <=> k = 1
  <2>1. 1 \in 1..n /\ Callbacks = order[1]
    <3>1. 1 \in 1..n
      BY <1>1, <1>2
    <3>2. Nth(1) = order[1]
      BY <3>1, <1>5
    <3> QED
      BY <3>1, <3>2, <1>4
  <2> QED
    BY <2>1, <1>1, <1>4, ZenonT(30)
<1>8. next[c] = Nth(k + 1) /\ prev[c] = Nth(k - 1)
  BY <1>1, <1>4
<1> HIDE DEF n
<1>16. \A i \in 1..n - 1 :
        /\ i < k => i \in 1..n /\ order'[i] = order[i]
        /\ ~(i < k) => i + 1 \in 1..n /\ order'[i] = order[i + 1]
  BY <1>1, <1>2
<1>17. \A i \in Int : Nth(i)' = IF i < k THEN Nth(i) ELSE Nth(i + 1)
  <2> SUFFICES ASSUME NEW i \in Int PROVE Nth(i)' = IF i < k THEN Nth(i) ELSE Nth(i + 1)
    OBVIOUS
  <2>1. CASE i \in 1..n - 1
    <3>1. i \in 1..n /\ i + 1 \in 1..n
      BY <2>1, <1>2
    <3>2. Nth(i) = order[i] /\ Nth(i + 1) = order[i + 1] /\ Nth(i)' = order'[i]
      BY <2>1, <3>1, <1>5, <1>6
    <3> QED
      BY <3>2, <2>1, <1>2
  <2>2. CASE i \notin 1..n - 1
    <3>1. IF i < k THEN i \notin 1..n ELSE i + 1 \notin 1..n
      BY <2>2, <1>1, <1>2
    <3> QED
      BY <3>1, <2>2, <1>5, <1>6
  <2> QED
    BY <2>1, <2>2
<1>18. \A i \in Int : Nth(i) \in Objects \cup {Null}
  BY <1>3, <1>5
<1>9. \A i, j \in 1..n - 1 : order'[i] = order'[j] => i = j
  <2> SUFFICES ASSUME NEW i \in 1..n - 1, NEW j \in 1..n - 1, order'[i] = order'[j]
               PROVE  i = j
    OBVIOUS
  <2>1. CASE i < k /\ j < k
    BY <2>1, <1>4, <1>16
  <2>2. CASE ~(i < k) /\ ~(j < k)
    <3>1. i + 1 = j + 1
      BY <2>2, <1>4, <1>16
    <3> QED
      BY <3>1
  <2>3. CASE i < k /\ ~(j < k)
    <3>1. i = j + 1
      BY <2>3, <1>4, <1>16
    <3> QED
      BY <3>1, <2>3, <1>1
  <2>4. CASE ~(i < k) /\ j < k
    <3>1. i + 1 = j
      BY <2>4, <1>4, <1>16
    <3> QED
      BY <3>1, <2>4, <1>1
  <2> QED
    BY <2>1, <2>2, <2>3, <2>4
<1>10. ~Listed(c)'
  <2> SUFFICES ASSUME NEW i \in 1..n - 1, order'[i] = c PROVE FALSE
    BY <1>2 DEF Listed
  <2>1. CASE i < k
    BY <2>1, <1>1, <1>4, <1>16
  <2>2. CASE ~(i < k)
    <3>1. i + 1 \in 1..n /\ order[i + 1] = c /\ order[k] = c
      BY <2>2, <1>1, <1>16, ZenonT(30)
    <3>2. i + 1 = k
      BY <3>1, <1>4
    <3> QED
      BY <3>2, <2>2, <1>1
  <2> QED
    BY <2>1, <2>2
<1>11. ASSUME NEW d \in Objects, d # c PROVE Listed(d)' <=> Listed(d)
  <2>1. ASSUME Listed(d)' PROVE Listed(d)
    <3>1. PICK i \in 1..n - 1 : order'[i] = d
      BY <2>1, <1>2 DEF Listed
    <3>2. \E j \in 1..n : order[j] = d
      <4>1. i \in 1..n /\ i + 1 \in 1..n
        BY <1>2
      <4> QED
        BY <4>1, <3>1, <1>2
    <3> QED
      BY <3>2 DEF Listed, n
  <2>2. ASSUME Listed(d) PROVE Listed(d)'
    <3>1. PICK j \in 1..n : order[j] = d
      BY <2>2 DEF Listed, n
    <3>2. j # k
      BY <3>1, <1>1, <1>11
    <3>3. CASE j < k
      BY <3>1, <3>3, <1>1, <1>2 DEF Listed
    <3>4. CASE j > k
      <4>1. j - 1 \in 1..n - 1 /\ ~(j - 1 < k) /\ (j - 1) + 1 = j
        BY <3>4, <1>1, <1>2
      <4>2. order'[j - 1] = d
        BY <4>1, <3>1, <1>2
      <4> QED
        BY <4>1, <4>2, <1>2 DEF Listed
    <3> QED
      BY <3>2, <3>3, <3>4, <1>2
  <2> QED
    BY <2>1, <2>2
<1>12. Nth(k + 1) \in Objects \cup {Null} /\ Nth(k - 1) \in Objects \cup {Null}
  BY <1>1, <1>18
<1>13. ASSUME NEW d \in Objects, ~Listed(d) PROVE d # Nth(k + 1)
  BY <1>13, <1>5, <1>1, NullAssumption DEF Listed, n
<1>14. CASE k = 1
  <2>1. /\ Callbacks' = Nth(2)
        /\ prev' = Assign(prev, Nth(2), Null)
        /\ next' = next
    BY <1>14, <1>7, <1>8 DEF Unlink
  <2>2. ListTyped' /\ \A d \in Objects : prev'[d] = IF d = Nth(2) THEN Null ELSE prev[d]
    BY <2>1, <1>2, <1>12, <1>14, AssignType DEF ListTyped
  <2>3. Callbacks' = Nth(1)'
    BY <2>1, <1>2, <1>5, <1>6, <1>14
  <2>4. ASSUME NEW i \in 1..n - 1
        PROVE  next'[order'[i]] = Nth(i + 1)' /\ prev'[order'[i]] = Nth(i - 1)'
    <3>1. i + 1 \in 1..n /\ order'[i] = order[i + 1] /\ order[i + 1] \in Objects
      BY <1>2, <1>3, <1>14
    <3>2. next[order[i + 1]] = Nth(i + 2) /\ prev[order[i + 1]] = Nth(i)
      BY <3>1, <1>4
    <3>3. Nth(i + 2) = Nth(i + 1)'
      BY <1>2, <1>5, <1>6, <1>14
    <3>4. CASE i = 1
      BY <3>1, <3>2, <3>3, <3>4, <2>1, <2>2, <1>5, <1>6
    <3>5. CASE i # 1
      <4>1. order[i + 1] # Nth(2)
        BY <3>1, <3>5, <1>3, <1>4, <1>5
      <4>2. Nth(i) = Nth(i - 1)'
        BY <3>5, <1>2, <1>5, <1>6, <1>14
      <4> QED
        BY <4>1, <4>2, <3>1, <3>2, <3>3, <2>1, <2>2
    <3> QED
      BY <3>4, <3>5
  <2>5. Linked'
    BY <2>3, <2>4, <1>2, <1>9 DEF Linked
  <2> QED
    BY <2>2, <2>5, <1>10, <1>11, <1>13, <1>14
<1>15. CASE k # 1
  <2>1. /\ Callbacks' = Callbacks
        /\ next' = Assign(next, Nth(k - 1), Nth(k + 1))
        /\ prev' = Assign(prev, Nth(k + 1), Nth(k - 1))
    BY <1>15, <1>7, <1>8 DEF Unlink
  <2>2. /\ ListTyped'
        /\ \A d \in Objects : next'[d] = IF d = Nth(k - 1) THEN Nth(k + 1) ELSE next[d]
        /\ \A d \in Objects : prev'[d] = IF d = Nth(k + 1) THEN Nth(k - 1) ELSE prev[d]
    BY <2>1, <1>2, <1>12, AssignType DEF ListTyped
  <2>3. Callbacks' = Nth(1)'
    <3>1. 1 < k
      BY <1>1, <1>2, <1>15
    <3> QED
      BY <3>1, <2>1, <1>4, <1>17
  <2>4. k - 1 \in 1..n /\ Nth(k - 1) = order[k - 1]
    BY <1>1, <1>5, <1>15, <1>2
  <2>5. ASSUME NEW i \in 1..n - 1
        PROVE  next'[order'[i]] = Nth(i + 1)' /\ prev'[order'[i]] = Nth(i - 1)'
    <3>1. CASE i < k
      <4>1. i \in 1..n /\ order'[i] = order[i] /\ order[i] \in Objects
        BY <3>1, <1>2, <1>3
      <4>2. next[order[i]] = Nth(i + 1) /\ prev[order[i]] = Nth(i - 1)
        BY <4>1, <1>4
      <4>3. order[i] # Nth(k + 1)
        BY <4>1, <3>1, <1>1, <1>3, <1>4, <1>5
      <4>4. Nth(i - 1) = Nth(i - 1)'
        BY <3>1, <1>1, <1>2, <1>5, <1>6
      <4>5. CASE i = k - 1
        <5>1. Nth(k + 1) = Nth(k)'
          BY <1>1, <1>17
        <5> QED
          BY <5>1, <4>1, <4>2, <4>3, <4>4, <4>5, <2>2, <2>4, <1>1, <1>2
      <4>6. CASE i # k - 1
        <5>1. order[i] # Nth(k - 1)
          BY <4>1, <4>6, <2>4, <1>4
        <5>2. Nth(i + 1) = Nth(i + 1)'
          BY <4>6, <3>1, <1>1, <1>2, <1>5, <1>6
        <5> QED
          BY <5>1, <5>2, <4>1, <4>2, <4>3, <4>4, <2>2
      <4> QED
        BY <4>5, <4>6
    <3>2. CASE ~(i < k)
      <4>1. i + 1 \in 1..n /\ order'[i] = order[i + 1] /\ order[i + 1] \in Objects
        BY <3>2, <1>2, <1>3
      <4>2. next[order[i + 1]] = Nth(i + 2) /\ prev[order[i + 1]] = Nth(i)
        BY <4>1, <1>4
      <4>3. order[i + 1] # Nth(k - 1)
        BY <4>1, <3>2, <2>4, <1>1, <1>4
      <4>4. Nth(i + 2) = Nth(i + 1)'
        <5>1. i + 1 \in Int /\ ~(i + 1 < k) /\ (i + 1) + 1 = i + 2
          BY <3>2, <1>1
        <5> QED
          BY <5>1, <1>17
      <4>5. CASE i = k
        <5>1. order[i + 1] = Nth(k + 1) /\ Nth(k - 1) = Nth(k - 1)'
          BY <4>1, <4>5, <2>4, <1>1, <1>2, <1>5, <1>6
        <5> QED
          <6>1. next'[order[i + 1]] = Nth(i + 1)'
            BY <4>1, <4>2, <4>3, <4>4, <2>2
          <6>2. prev'[order[i + 1]] = Nth(k - 1)
            BY <5>1, <4>1, <2>2
          <6> QED
            BY <6>1, <6>2, <5>1, <4>1, <4>5
      <4>6. CASE i # k
        <5>1. order[i + 1] # Nth(k + 1)
          <6>1. CASE k + 1 \in 1..n
            <7>1. Nth(k + 1) = order[k + 1]
              BY <6>1, <1>1, <1>5
            <7>2. i + 1 # k + 1
              BY <4>6, <1>1
            <7> QED
              BY <7>1, <7>2, <6>1, <4>1, <1>4
          <6>2. CASE k + 1 \notin 1..n
            BY <6>2, <4>1, <1>1, <1>3, <1>5
          <6> QED
            BY <6>1, <6>2
        <5>2. Nth(i) = Nth(i - 1)'
          <6>1. i - 1 \in Int /\ ~(i - 1 < k) /\ (i - 1) + 1 = i
            BY <4>6, <3>2, <1>1
          <6> QED
            BY <6>1, <1>17
        <5> QED
          BY <5>1, <5>2, <4>1, <4>2, <4>3, <4>4, <2>2
      <4> QED
        BY <4>5, <4>6
    <3> QED
      BY <3>1, <3>2
  <2>6. Linked'
    BY <2>3, <2>5, <1>2, <1>9 DEF Linked
  <2> QED
    BY <2>2, <2>6, <1>10, <1>11, <1>13
<1> QED
  BY <1>14, <1>15

(* The constructor clears the links of an object that is not in the list. *)
LEMMA Cleared ==
    ASSUME ListTyped, Linked, NEW c \in Objects, ~Listed(c),
           next' = [next EXCEPT ![c] = Null], prev' = [prev EXCEPT ![c] = Null],
           UNCHANGED <<Callbacks, order>>
    PROVE  /\ ListTyped' /\ Linked'
           /\ \A d \in Objects : Listed(d)' <=> Listed(d)
           /\ \A d \in Objects : prev'[d] = prev[d] \/ prev'[d] = Null
<1>1. \A i \in 1..Len(order) : order[i] \in Objects /\ order[i] # c
  BY DEF ListTyped, Listed
<1>2. ListTyped' /\ \A d \in Objects : prev'[d] = prev[d] \/ prev'[d] = Null
  BY DEF ListTyped
<1>3. \A i \in 1..Len(order) : next'[order[i]] = next[order[i]] /\ prev'[order[i]] = prev[order[i]]
  BY <1>1 DEF ListTyped
<1>4. \A i \in Int : Nth(i)' = Nth(i)
  BY DEF Nth
<1>5. Linked'
  BY <1>3, <1>4 DEF Linked
<1> QED
  BY <1>2, <1>5 DEF Listed

(* The steps that leave the list alone. *)
LEMMA ListSame ==
    ASSUME ListTyped, Linked, UNCHANGED listVars
    PROVE  /\ ListTyped' /\ Linked'
           /\ \A d \in Objects : Listed(d)' <=> Listed(d)
           /\ prev' = prev /\ order' = order
  BY DEF ListTyped, Linked, Nth, listVars, Listed

-----------------------------------------------------------------------------
(* The counts                                                              *)

(* _Stop_sources is a number above a bit. *)
LEMMA Halves ==
    ASSUME NEW n \in Nat
    PROVE  /\ n \div 2 \in Nat
           /\ n % 2 \in {0, 1}
           /\ (n + 2) % 2 = n % 2 /\ (n + 2) \div 2 = n \div 2 + 1
           /\ n \div 2 # 0 => /\ n - 2 \in Nat
                              /\ (n - 2) % 2 = n % 2
                              /\ (n - 2) \div 2 = n \div 2 - 1
           /\ n % 2 = 0 => (n + 1) % 2 = 1 /\ (n + 1) \div 2 = n \div 2
           /\ n = 0 => n % 2 = 0 /\ n \div 2 = 0
  OBVIOUS

(* The steps that change no owner. *)
LEMMA CountedSame ==
    ASSUME Counted, UNCHANGED <<countVars, ownerVars, Parent>>, Sourced' <=> Sourced
    PROVE  Counted'
  BY DEF Counted, countVars, ownerVars

LEMMA SourcedGrown ==
    ASSUME NEW t \in Threads, NEW f, Grown(t, f), f.at # "last_source", UNCHANGED source
    PROVE  Sourced' <=> Sourced
  BY DEF Sourced, Grown

LEMMA SourcedTurned ==
    ASSUME NEW t \in Threads, NEW new, Turned(t, new), Top(t).at # "last_source",
           \A f \in new : f.at # "last_source", UNCHANGED source
    PROVE  Sourced' <=> Sourced
  BY DEF Sourced, Turned, Rest

-----------------------------------------------------------------------------
(* The steps                                                               *)

(* The calls in progress stay where they are. *)
LEMMA Unmoved ==
    ASSUME Typed, Stacked, UNCHANGED stack
    PROVE  /\ stack' \in [Threads -> Seq(FrameType)]
           /\ Stacked'
           /\ \A u \in Threads : Frames(u)' = Frames(u)
  BY DEF Typed, Stacked, Frames

(* A callback that was not called stays accounted for. *)
LEMMA UncalledTurned ==
    ASSUME NEW t \in Threads, NEW new, Turned(t, new), NEW d, Uncalled(d),
           Top(t).at # "call" \/ Top(t).cb # d,
           Listed(d) => Listed(d)', Stop_sources = 0 => Stop_sources' = 0
    PROVE  Uncalled(d)'
<1>1. ASSUME NEW u \in Threads, Frame("call", d) \in Frames(u) PROVE Uncalled(d)'
  <2>1. Frame("call", d) # Top(t)
    BY DEF Frame
  <2>2. Frame("call", d) \in Frames(u)'
    BY <1>1, <2>1 DEF Turned
  <2> QED
    BY <2>2 DEF Uncalled
<1> QED
  BY <1>1 DEF Uncalled

(* A call is begun. *)
LEMMA Begins ==
    ASSUME Typed, NEW t \in Threads, Begin(t)
    PROVE  ops' \in 0..MaxOps /\ InProgram(t)
  BY OpsAssumption DEF Begin, Typed, ValuesTyped

(* Nothing but the number of calls changes. *)
LEMMA Stutters ==
    ASSUME IInv, ops' \in 0..MaxOps,
           UNCHANGED <<countVars, listVars, stopVars, objectVars, ownerVars, stack>>
    PROVE  IInv'
<1> USE DEF countVars, stopVars, objectVars, ownerVars
<1>1. stack' \in [Threads -> Seq(FrameType)] /\ Stacked' /\ \A u \in Threads : Frames(u)' = Frames(u)
  BY Unmoved DEF IInv
<1>2. ListTyped' /\ Linked' /\ (\A d \in Objects : Listed(d)' <=> Listed(d)) /\ prev' = prev /\ order' = order
  BY ListSame DEF IInv, Typed
<1>3. ValuesTyped'
  BY DEF IInv, Typed, ValuesTyped
<1>4. Stop_requested' <=> Stop_requested
  BY DEF Stop_requested
<1>5. FramesOK'
  <2> SUFFICES ASSUME NEW u \in Threads, NEW g \in Frames(u) PROVE FrameOK(u, g)'
    BY <1>1 DEF FramesOK
  <2>1. FrameOK(u, g)
    BY DEF IInv, FramesOK
  <2> QED
    BY <2>1, <1>2, <1>4 DEF FrameOK
<1>6. ObjectsOK'
  BY <1>1, <1>2, ZenonT(30) DEF IInv, ObjectsOK, ObjectOK, Uncalled
<1>7. Requested'
  BY <1>1, <1>2, <1>4 DEF IInv, Requested
<1>8. Counted'
  <2>1. Sourced' <=> Sourced
    BY <1>1 DEF Sourced
  <2> QED
    BY <2>1, CountedSame DEF IInv
<1> QED
  BY <1>1, <1>2, <1>3, <1>5, <1>6, <1>7, <1>8 DEF IInv, Typed

(* _Request_stop announces its thread. *)
LEMMA ClaimedKeeps ==
    ASSUME IInv, NEW t \in Threads, Request_claimed(t)
    PROVE  IInv'
<1> USE DEF countVars, stopVars, objectVars, ownerVars
<1>14. PICK f : f = Frame("loop", Cb(t))
  OBVIOUS
<1>1. /\ stack[t] # <<>>
      /\ Top(t) \in Frames(t) /\ Top(t).at = "claimed"
      /\ Cb(t) \in Objects \cup {Null}
  BY TopFrame DEF IInv, Request_claimed
<1>2. f \in FrameType /\ f.at = "loop"
  BY <1>1, <1>14 DEF Frame, FrameType
<1>3. \A u \in Threads : \A g \in Frames(u) :
        Rest(t, u, g) => Apart(t, f, u, g) /\ Apart(u, g, t, f)
  BY <1>1, <1>2, ZenonT(30) DEF Rest, Apart
<1>4. stack' \in [Threads -> Seq(FrameType)] /\ Stacked' /\ Turned(t, {f})
  BY <1>1, <1>2, <1>3, <1>14, Becomes, ZenonT(30) DEF IInv, Request_claimed, Become
<1>5. \A u \in Threads : \A g \in Frames(u) : g.at # "called"
  BY <1>1, NoneCalled DEF IInv
<1>6. /\ Stopping_thread' = t
      /\ UNCHANGED <<countVars, listVars, Current_callback, objectVars, ownerVars, ops>>
  BY DEF Request_claimed
<1>7. ListTyped' /\ Linked' /\ (\A d \in Objects : Listed(d)' <=> Listed(d)) /\ prev' = prev /\ order' = order
  BY <1>6, ListSame DEF IInv, Typed
<1>8. ValuesTyped'
  BY <1>6 DEF IInv, Typed, ValuesTyped
<1>9. Stop_requested /\ source[t] /\ (Stop_requested' <=> Stop_requested)
  BY <1>1, <1>6 DEF IInv, FramesOK, FrameOK, Stop_requested
<1>10. FramesOK'
  <2> SUFFICES ASSUME NEW u \in Threads, NEW g \in Frames(u)' PROVE FrameOK(u, g)'
    BY DEF FramesOK
  <2>1. CASE u = t /\ g = f
    BY <2>1, <1>2, <1>6, <1>9 DEF FrameOK
  <2>2. CASE Rest(t, u, g)
    <3>1. g.at \notin Requesting \cup Calling /\ FrameOK(u, g)
      BY <2>2, <1>1, <1>5, ZenonT(30) DEF Rest, Apart, IInv, FramesOK
    <3> QED
      BY <3>1, <1>6, <1>7, <1>9, ZenonT(30) DEF FrameOK
  <2> QED
    BY <2>1, <2>2, <1>4 DEF Turned
<1>11. ObjectsOK'
  <2> SUFFICES ASSUME NEW d \in Objects PROVE ObjectOK(d)'
    BY DEF ObjectsOK
  <2>1. ObjectOK(d)
    BY DEF IInv, ObjectsOK
  <2>2. Uncalled(d) => Uncalled(d)'
    BY <1>1, <1>4, <1>6, <1>7, UncalledTurned, ZenonT(30)
  <2> QED
    BY <2>1, <2>2, <1>6, <1>7, ZenonT(30) DEF ObjectOK
<1>12. Requested'
  BY <1>2, <1>4 DEF Requested, Turned
<1>13. Counted'
  <2>1. Sourced' <=> Sourced
    BY <1>1, <1>2, <1>4, <1>6, SourcedTurned
  <2> QED
    BY <2>1, <1>6, CountedSame DEF IInv
<1> QED
  BY <1>4, <1>7, <1>8, <1>10, <1>11, <1>12, <1>13 DEF IInv, Typed

(* _Request_stop takes the next callback, or returns. *)
LEMMA NextKeeps ==
    ASSUME IInv, NEW t \in Threads, Request_next(t)
    PROVE  IInv'
<1> USE DEF countVars, stopVars, objectVars, ownerVars
<1>8. PICK c : c = Callbacks
  OBVIOUS
<1> DEFINE f == Frame("call", c)
<1>1. stack[t] # <<>> /\ Top(t) \in Frames(t) /\ Top(t).at = "loop"
  BY TopFrame DEF IInv, Request_next
<1>2. \A u \in Threads : \A g \in Frames(u) : g.at # "called"
  BY <1>1, NoneCalled DEF IInv
<1>3. /\ Current_callback' = c
      /\ UNCHANGED <<countVars, Stopping_thread, objectVars, ownerVars, ops>>
  BY <1>8 DEF Request_next
<1>4. source[t] /\ Stop_requested /\ Stopping_thread = t
  BY <1>1 DEF IInv, FramesOK, FrameOK
<1>5. (Stop_requested' <=> Stop_requested) /\ ValuesTyped'
  BY <1>3, <1>8 DEF IInv, Typed, ListTyped, ValuesTyped, Stop_requested
<1>6. CASE c = Null
  <2>1. Pop(t) /\ UNCHANGED listVars
    BY <1>6, <1>8 DEF Request_next
  <2>2. stack' \in [Threads -> Seq(FrameType)] /\ Stacked' /\ Turned(t, {})
    BY <1>1, <2>1, Pops DEF IInv
  <2>3. ListTyped' /\ Linked' /\ (\A d \in Objects : Listed(d)' <=> Listed(d)) /\ prev' = prev /\ order' = order
    BY <2>1, ListSame DEF IInv, Typed
  <2>4. FramesOK'
    <3> SUFFICES ASSUME NEW u \in Threads, NEW g \in Frames(u)' PROVE FrameOK(u, g)'
      BY DEF FramesOK
    <3>1. Rest(t, u, g) /\ FrameOK(u, g)
      BY <2>2 DEF Turned, Rest, IInv, FramesOK
    <3>2. g.at \notin Requesting \cup Calling
      BY <3>1, <1>1, <1>2 DEF Rest, Apart
    <3> QED
      BY <3>1, <3>2, <1>3, <1>5, <2>3, ZenonT(30) DEF FrameOK
  <2>5. ObjectsOK'
    <3> SUFFICES ASSUME NEW d \in Objects PROVE ObjectOK(d)'
      BY DEF ObjectsOK
    <3>1. ObjectOK(d)
      BY DEF IInv, ObjectsOK
    <3>2. Uncalled(d) => Uncalled(d)'
      BY <1>1, <1>3, <2>2, <2>3, UncalledTurned, ZenonT(30)
    <3> QED
      BY <3>1, <3>2, <1>3, <2>3, ZenonT(30) DEF ObjectOK
  <2>6. Requested'
    <3>1. order \in Seq(Objects) /\ Nth(1) = Null
      BY <1>6, <1>8 DEF IInv, Typed, ListTyped, Linked
    <3>2. order = <<>>
      BY <3>1, NthType DEF IInv, Typed
    <3> QED
      BY <3>2, <2>3 DEF Requested
  <2>7. Counted'
    <3>1. Sourced' <=> Sourced
      BY <1>1, <1>3, <2>2, SourcedTurned
    <3> QED
      BY <3>1, <1>3, CountedSame DEF IInv
  <2> QED
    BY <1>5, <2>2, <2>3, <2>4, <2>5, <2>6, <2>7 DEF IInv, Typed
<1>7. CASE c # Null
  <2>1. /\ Callbacks' = next[c]
        /\ next' = [next EXCEPT ![c] = Null]
        /\ prev' = Assign(prev, next[c], Null)
        /\ order' = Tail(order)
        /\ stack' = [stack EXCEPT ![t] = <<f>> \o Tail(@)]
    BY <1>7, <1>8 DEF Request_next
  <2>2. /\ ListTyped' /\ Linked'
        /\ c \in Objects /\ Listed(c) /\ ~Listed(c)' /\ prev[c] = Null
        /\ \A d \in Objects : d # c => (Listed(d)' <=> Listed(d))
        /\ \A d \in Objects : prev'[d] = prev[d] \/ prev'[d] = Null
    BY <1>7, <1>8, <2>1, HeadTaken, ZenonT(30) DEF IInv, Typed
  <2>3. f \in FrameType /\ f.at = "call" /\ f.cb = c
    BY <2>2 DEF Frame, FrameType
  <2>4. Parent[c] /\ calls[c] = 0 /\ object[c] \in {"live", "destroying"}
    BY <2>2 DEF IInv, ObjectsOK, ObjectOK
  <2>5. \A u \in Threads : \A g \in Frames(u) :
          Rest(t, u, g) => Apart(t, f, u, g) /\ Apart(u, g, t, f)
    <3> SUFFICES ASSUME NEW u \in Threads, NEW g \in Frames(u), Rest(t, u, g)
                 PROVE  Apart(t, f, u, g) /\ Apart(u, g, t, f)
      OBVIOUS
    <3>1. g.at \notin Requesting
      BY <1>1 DEF Rest, Apart
    <3>2. ~(g.at = "drop" /\ g.cb = c)
      <4>1. FrameOK(u, g)
        BY DEF IInv, FramesOK
      <4> QED
        BY <4>1, <2>2 DEF FrameOK
    <3> QED
      BY <3>1, <3>2, <2>3, ZenonT(30) DEF Apart
  <2>6. stack' \in [Threads -> Seq(FrameType)] /\ Stacked' /\ Turned(t, {f})
    BY <1>1, <2>1, <2>3, <2>5, Becomes, ZenonT(30) DEF IInv
  <2> HIDE DEF f
  <2>7. FramesOK'
    <3> SUFFICES ASSUME NEW u \in Threads, NEW g \in Frames(u)' PROVE FrameOK(u, g)'
      BY DEF FramesOK
    <3>1. CASE u = t /\ g = f
      BY <3>1, <1>3, <1>4, <1>5, <2>2, <2>3, <2>4, ZenonT(30) DEF FrameOK
    <3>2. CASE Rest(t, u, g)
      <4>1. g.at \notin Requesting \cup Calling /\ FrameOK(u, g)
        BY <3>2, <1>1, <1>2, ZenonT(30) DEF Rest, Apart, IInv, FramesOK
      <4>2. g.at \in Detaching /\ ~Listed(g.cb)' => ~Listed(g.cb) \/ g.cb = c
        BY <4>1, <2>2, ZenonT(30) DEF FrameOK
      <4>3. g.at \in {"wait", "drop"} => ~Listed(g.cb)'
        BY <4>1, <2>2, ZenonT(30) DEF FrameOK
      <4>4. g.at = "detach" /\ ~Listed(g.cb)' => prev'[g.cb] = Null
        BY <4>1, <4>2, <2>2, ZenonT(30) DEF FrameOK
      <4> QED
        BY <4>1, <4>3, <4>4, <1>3, <1>5, ZenonT(30) DEF FrameOK
    <3> QED
      BY <3>1, <3>2, <2>6 DEF Turned
  <2>8. ObjectsOK'
    <3> SUFFICES ASSUME NEW d \in Objects PROVE ObjectOK(d)'
      BY DEF ObjectsOK
    <3>1. ObjectOK(d)
      BY DEF IInv, ObjectsOK
    <3>2. CASE d = c
      <4>1. Uncalled(c)'
        BY <2>6 DEF Uncalled, Turned, f
      <4> QED
        BY <4>1, <3>1, <3>2, <2>2, <2>4, <1>3, ZenonT(30) DEF ObjectOK
    <3>3. CASE d # c
      <4>1. Uncalled(d) => Uncalled(d)'
        BY <3>3, <1>1, <1>3, <2>2, <2>6, UncalledTurned
      <4> QED
        BY <4>1, <3>1, <3>3, <2>2, <1>3, ZenonT(30) DEF ObjectOK
    <3> QED
      BY <3>2, <3>3
  <2>9. Requested'
    BY <2>3, <2>6 DEF Requested, Turned
  <2>10. Counted'
    <3>1. Sourced' <=> Sourced
      BY <1>1, <1>3, <2>3, <2>6, SourcedTurned, ZenonT(30)
    <3> QED
      BY <3>1, <1>3, CountedSame DEF IInv
  <2> QED
    BY <1>5, <2>2, <2>6, <2>7, <2>8, <2>9, <2>10 DEF IInv, Typed
<1> QED
  BY <1>6, <1>7

(* It calls the callback's function. *)
LEMMA CallKeeps ==
    ASSUME IInv, NEW t \in Threads, Request_call(t)
    PROVE  IInv'
<1> USE DEF countVars, stopVars, objectVars, ownerVars
<1>13. PICK c : c = Cb(t)
  OBVIOUS
<1> DEFINE f == Frame("called", c)
           l == Frame("loop", Null)
<1>1. /\ stack[t] # <<>> /\ Top(t) \in Frames(t)
      /\ Top(t).at = "call" /\ Top(t).cb = c /\ Top(t) = Frame("call", c)
  BY <1>13, TopFrame DEF IInv, Request_call
<1>2. FrameOK(t, Top(t))
  BY <1>1 DEF IInv, FramesOK
<1>3. /\ c \in Objects /\ calls[c] = 0 /\ object[c] \in {"live", "destroying"} /\ ~Listed(c)
      /\ source[t] /\ Stop_requested /\ Stopping_thread = t /\ Current_callback = c
  BY <1>1, <1>2, ZenonT(30) DEF FrameOK
<1>4. /\ calls' = [calls EXCEPT ![c] = 1]
      /\ UNCHANGED <<countVars, listVars, stopVars, object, Parent, ownerVars, ops>>
  <2>1. /\ calls' = [calls EXCEPT ![c] = calls[c] + 1]
        /\ UNCHANGED <<countVars, listVars, stopVars, object, Parent, ownerVars, ops>>
    BY <1>13 DEF Request_call
  <2>2. calls[c] + 1 = 1
    BY <1>3
  <2> QED
    BY <2>1, <2>2, ZenonT(30)
<1>5. stack' \in [Threads -> Seq(FrameType)] /\ Stacked' /\ Turned(t, {f, l})
  BY <1>3, <1>13, Calls, ZenonT(30) DEF IInv, Request_call
<1>6. f.at = "called" /\ f.cb = c /\ l.at = "loop"
  BY DEF Frame
<1> HIDE DEF f, l
<1>7. ListTyped' /\ Linked' /\ (\A d \in Objects : Listed(d)' <=> Listed(d)) /\ prev' = prev /\ order' = order
  BY <1>4, ListSame DEF IInv, Typed
<1>8. /\ ValuesTyped' /\ (Stop_requested' <=> Stop_requested)
      /\ \A d \in Objects : calls'[d] = IF d = c THEN 1 ELSE calls[d]
  BY <1>3, <1>4 DEF IInv, Typed, ValuesTyped, Stop_requested
<1>9. FramesOK'
  <2> SUFFICES ASSUME NEW u \in Threads, NEW g \in Frames(u)' PROVE FrameOK(u, g)'
    BY DEF FramesOK
  <2>1. CASE u = t /\ g \in {f, l}
    BY <2>1, <1>3, <1>4, <1>6, <1>7, <1>8, ZenonT(30) DEF FrameOK
  <2>2. CASE Rest(t, u, g)
    <3>1. g.at # "call" /\ FrameOK(u, g)
      BY <2>2, <1>1, ZenonT(30) DEF Rest, Apart, IInv, FramesOK
    <3> QED
      BY <3>1, <1>3, <1>4, <1>7, <1>8, ZenonT(30) DEF FrameOK
  <2> QED
    BY <2>1, <2>2, <1>5 DEF Turned
<1>10. ObjectsOK'
  <2> SUFFICES ASSUME NEW d \in Objects PROVE ObjectOK(d)'
    BY DEF ObjectsOK
  <2>1. ObjectOK(d)
    BY DEF IInv, ObjectsOK
  <2>2. ASSUME d # c, Uncalled(d) PROVE Uncalled(d)'
    <3>1. /\ Top(t).at # "call" \/ Top(t).cb # d
          /\ Listed(d) => Listed(d)'
          /\ Stop_sources = 0 => Stop_sources' = 0
      BY <2>2, <1>1, <1>4, <1>7
    <3> QED
      BY <3>1, <2>2, <1>5, UncalledTurned
  <2>3. CASE d = c
    <3>1. ~Listed(d)' /\ calls'[d] = 1 /\ object'[d] \in {"live", "destroying"}
      BY <2>3, <1>3, <1>4, <1>7, <1>8
    <3>2. object'[d] = "live" => prev'[d] = Null
      BY <2>1, <2>3, <1>3, <1>4, <1>7, ZenonT(30) DEF ObjectOK
    <3> QED
      BY <3>1, <3>2 DEF ObjectOK
  <2>4. CASE d # c
    BY <2>1, <2>2, <2>4, <1>4, <1>7, <1>8, ZenonT(30) DEF ObjectOK
  <2> QED
    BY <2>3, <2>4
<1>11. Requested'
  BY <1>5, <1>6 DEF Requested, Turned
<1>12. Counted'
  <2>1. Sourced' <=> Sourced
    BY <1>1, <1>4, <1>5, <1>6, SourcedTurned
  <2> QED
    BY <2>1, <1>4, CountedSame DEF IInv
<1> QED
  BY <1>5, <1>7, <1>8, <1>9, <1>10, <1>11, <1>12 DEF IInv, Typed

(* The function of a callback returns. *)
LEMMA ReturnKeeps ==
    ASSUME IInv, NEW t \in Threads, Return(t)
    PROVE  IInv'
<1> USE DEF countVars, stopVars, objectVars, ownerVars
<1>12. PICK c : c = Cb(t)
  OBVIOUS
<1>1. /\ stack[t] # <<>> /\ Top(t) \in Frames(t) /\ Top(t).cb = c
      /\ \/ Top(t).at = "called" /\ object' = object
         \/ Top(t).at = "inline" /\ object' = [object EXCEPT ![c] = "live"]
  BY <1>12, TopFrame DEF IInv, Return
<1>2. FrameOK(t, Top(t))
  BY <1>1 DEF IInv, FramesOK
<1>3. UNCHANGED <<countVars, listVars, stopVars, Parent, calls, ownerVars, ops>>
  BY DEF Return
<1>4. stack' \in [Threads -> Seq(FrameType)] /\ Stacked' /\ Turned(t, {})
  BY <1>1, Pops, ZenonT(30) DEF IInv, Return
<1>5. ListTyped' /\ Linked' /\ (\A d \in Objects : Listed(d)' <=> Listed(d)) /\ prev' = prev /\ order' = order
  BY <1>3, ListSame DEF IInv, Typed
<1>6. ValuesTyped' /\ (Stop_requested' <=> Stop_requested)
  BY <1>1, <1>3 DEF IInv, Typed, ValuesTyped, Stop_requested
<1>7. \A d \in Objects :
        \/ object'[d] = object[d]
        \/ d = c /\ Top(t).at = "inline" /\ object'[d] = "live"
  BY <1>1 DEF IInv, Typed, ValuesTyped
<1>8. FramesOK'
  <2> SUFFICES ASSUME NEW u \in Threads, NEW g \in Frames(u)' PROVE FrameOK(u, g)'
    BY DEF FramesOK
  <2>1. Rest(t, u, g) /\ FrameOK(u, g)
    BY <1>4 DEF Turned, Rest, IInv, FramesOK
  <2>2. g.at \in Building \cup Detaching => object'[g.cb] = object[g.cb]
    BY <2>1, <1>1, <1>7, ZenonT(30) DEF Rest, Apart, FrameOK
  <2>3. g.at = "call" => object'[g.cb] \in {"live", "destroying"}
    BY <2>1, <1>7, ZenonT(30) DEF FrameOK
  <2> QED
    BY <2>1, <2>2, <2>3, <1>3, <1>5, <1>6, ZenonT(30) DEF FrameOK
<1>9. ObjectsOK'
  <2> SUFFICES ASSUME NEW d \in Objects PROVE ObjectOK(d)'
    BY DEF ObjectsOK
  <2>1. ObjectOK(d)
    BY DEF IInv, ObjectsOK
  <2>2. Uncalled(d) => Uncalled(d)'
    BY <1>1, <1>3, <1>4, <1>5, UncalledTurned, ZenonT(30)
  <2>3. CASE object'[d] = object[d]
    BY <2>1, <2>2, <2>3, <1>3, <1>5 DEF ObjectOK
  <2>4. CASE d = c /\ Top(t).at = "inline" /\ object'[d] = "live"
    <3>1. object[d] = "constructing" /\ calls[d] = 1
      BY <2>4, <1>1, <1>2, ZenonT(30) DEF FrameOK
    <3> QED
      BY <3>1, <2>1, <2>4, <1>3, <1>5 DEF ObjectOK
  <2> QED
    BY <2>3, <2>4, <1>7, ZenonT(30)
<1>10. Requested'
  BY <1>1, <1>4, <1>5, <1>6, ZenonT(30) DEF IInv, Requested, Turned
<1>11. Counted'
  <2>1. Sourced' <=> Sourced
    BY <1>1, <1>3, <1>4, SourcedTurned
  <2> QED
    BY <2>1, <1>3, CountedSame DEF IInv
<1> QED
  BY <1>4, <1>5, <1>6, <1>8, <1>9, <1>10, <1>11 DEF IInv, Typed

=============================================================================
