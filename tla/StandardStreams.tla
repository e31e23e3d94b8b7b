---------------------------- MODULE StandardStreams ----------------------------
(***************************************************************************)
(* cin.cpp, cout.cpp, cerr.cpp, clog.cpp, their wide counterparts, and     *)
(* iostream.cpp and wiostrea.cpp.  Each stream has its own static          *)
(* initializer, and nothing orders them: whichever of an input and the     *)
(* output stream comes second ties the two.  The last ios_base::Init       *)
(* object of a program flushes what was written.                           *)
(***************************************************************************)
EXTENDS Integers

CONSTANT MaxObjects     \* bound: Init objects of the program's units

VARIABLES
    wide,           \* the family of streams at hand
    ptr,            \* streams whose _Ptr_ is set
    tie,            \* of each stream: the one it is tied to
    Init_cnt,
    objects,        \* Init objects alive
    unflushed       \* streams with output in their buffers

vars == <<wide, ptr, tie, Init_cnt, objects, unflushed>>

None == "none"
Tied == {"in", "err", "log"}
Streams == Tied \cup {"out"}

Init ==
    /\ wide \in BOOLEAN /\ ptr = {} /\ tie = [s \in Streams |-> None]
    /\ Init_cnt = -1 /\ objects = 0 /\ unflushed = {}

-----------------------------------------------------------------------------
(* A stream other than the output ties itself to what is there. *)
Ties_itself(s) ==
    /\ s \notin ptr /\ ptr' = ptr \cup {s}
    /\ tie' = [tie EXCEPT ![s] = IF "out" \in ptr THEN "out" ELSE None]
    /\ UNCHANGED <<wide, Init_cnt, objects, unflushed>>

Ties_others ==
    /\ "out" \notin ptr /\ ptr' = ptr \cup {"out"}
    /\ tie' = [s \in Streams |-> IF s \in ptr \cap Tied THEN "out" ELSE tie[s]]
    /\ UNCHANGED <<wide, Init_cnt, objects, unflushed>>

Init_cin == ~wide /\ Ties_itself("in")
Init_cerr == ~wide /\ Ties_itself("err")
Init_clog == ~wide /\ Ties_itself("log")
Init_cout == ~wide /\ Ties_others
Init_wcin == wide /\ Ties_itself("in")
Init_wcerr == wide /\ Ties_itself("err")
Init_wclog == wide /\ Ties_itself("log")
Init_wcout == wide /\ Ties_others

-----------------------------------------------------------------------------
Counts == Init_cnt' = (IF 0 <= Init_cnt THEN Init_cnt + 1 ELSE 1) /\ objects' = objects + 1
Init_ctor == ~wide /\ objects < MaxObjects /\ Counts /\ UNCHANGED <<wide, ptr, tie, unflushed>>
Winit_ctor == wide /\ objects < MaxObjects /\ Counts /\ UNCHANGED <<wide, ptr, tie, unflushed>>

(* The last object flushes the streams that exist. *)
Flushes ==
    /\ objects > 0 /\ objects' = objects - 1 /\ Init_cnt' = Init_cnt - 1
    /\ unflushed' = IF Init_cnt = 1 THEN unflushed \ (ptr \cap {"err", "log", "out"}) ELSE unflushed
Init_dtor == ~wide /\ Flushes /\ UNCHANGED <<wide, ptr, tie>>
Winit_dtor == wide /\ Flushes /\ UNCHANGED <<wide, ptr, tie>>

(* A program that has an Init object writes and reads: what a stream is    *)
(* tied to is flushed first, and err, which is unitbuf, at once.           *)
Write(s) ==
    /\ objects > 0 /\ s \in ptr \ {"in"}
    /\ unflushed' = (unflushed \ {tie[s]}) \cup ({s} \ {"err"})
    /\ UNCHANGED <<wide, ptr, tie, Init_cnt, objects>>
Read ==
    /\ objects > 0 /\ "in" \in ptr
    /\ unflushed' = unflushed \ {tie["in"]}
    /\ UNCHANGED <<wide, ptr, tie, Init_cnt, objects>>

Next ==
    \/ Init_cin \/ Init_cout \/ Init_cerr \/ Init_clog
    \/ Init_wcin \/ Init_wcout \/ Init_wcerr \/ Init_wclog
    \/ Init_ctor \/ Init_dtor \/ Winit_ctor \/ Winit_dtor
    \/ Read \/ \E s \in Streams : Write(s)

Spec == Init /\ [][Next]_vars

-----------------------------------------------------------------------------
(* In whatever order the streams are initialized, one that exists next to  *)
(* the output stream is tied to it; and nothing that was written stays in  *)
(* a buffer after the last Init object.                                    *)
StreamsFlushed ==
    /\ \A s \in ptr \cap Tied : tie[s] = (IF "out" \in ptr THEN "out" ELSE None)
    /\ objects = 0 => unflushed = {}

=============================================================================
