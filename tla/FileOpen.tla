------------------------------- MODULE FileOpen --------------------------------
(***************************************************************************)
(* fiopen.cpp: opening the file of a basic_filebuf.  The open mode is      *)
(* looked up among the valid ones and the file opened with the mode string *)
(* in the same place; _Noreplace first tries to open the file for reading. *)
(* Other programs create and delete the file in between.                   *)
(***************************************************************************)
EXTENDS Integers, Sequences

CONSTANT MaxOthers      \* bound: changes other programs make

VARIABLES
    mode,       \* the open mode, a set of flags
    file,       \* "none", "empty" or "full"
    others,     \* changes made by other programs
    pc,
    fp,         \* the result: a file was opened
    before,     \* ghost: the file when the call opened it
    lost,       \* ghost: opening it took its contents away
    since,      \* ghost: others have changed the file since the test
    refused     \* ghost: a system call failed on a file that was there

vars == <<mode, file, others, pc, fp, before, lost, since, refused>>

OpenModes == SUBSET {"in", "out", "trunc", "app", "binary", "ate", "nocreate", "noreplace"}

valid ==
    <<{"in"}, {"out"}, {"out", "trunc"}, {"out", "app"},
      {"in", "binary"}, {"out", "binary"}, {"out", "trunc", "binary"}, {"out", "app", "binary"},
      {"in", "out"}, {"in", "out", "trunc"}, {"in", "out", "app"},
      {"in", "out", "binary"}, {"in", "out", "trunc", "binary"}, {"in", "out", "app", "binary"}>>

mods == <<"r", "w", "w", "a", "rb", "wb", "wb", "ab", "r+", "w+", "a+", "r+b", "w+b", "a+b">>

(* The mode without the flags of the library, and with those they imply. *)
Plain(m) ==
    (m \cup (IF "nocreate" \in m THEN {"in"} ELSE {}) \cup (IF "app" \in m THEN {"out"} ELSE {}))
        \ {"ate", "nocreate", "noreplace"}
Found(m) == \E n \in DOMAIN valid : valid[n] = Plain(m)
Row(m) == CHOOSE n \in DOMAIN valid : valid[n] = Plain(m)

Init ==
    /\ mode \in OpenModes /\ file \in {"none", "empty", "full"}
    /\ others = 0 /\ pc = "begin" /\ fp = FALSE /\ before = "unopened"
    /\ lost = FALSE /\ since = FALSE /\ refused = FALSE

Return(opened) == pc' = "done" /\ fp' = opened /\ UNCHANGED <<mode, others, since, before, lost>>
Goto(l) == pc' = l /\ UNCHANGED <<mode, others, since, fp>>

(* The C library's fopen: what its mode string requires and does. *)
Xfsopen(n) ==
    LET m == mods[n]
    IN  CASE m \in {"r", "rb", "r+", "r+b"} -> IF file = "none" THEN {} ELSE {file}
          [] m \in {"w", "wb", "w+", "w+b"} -> {"empty"}
          [] m \in {"a", "ab", "a+", "a+b"} -> {IF file = "none" THEN "empty" ELSE file}

Xfiopen ==
    /\ pc = "begin" /\ UNCHANGED <<file, refused>>
    /\ IF ~Found(mode) THEN Return(FALSE)
       ELSE /\ Goto(IF "noreplace" \in mode /\ "out" \in Plain(mode) THEN "test" ELSE "open")
            /\ UNCHANGED <<before, lost>>

(* A file that is there may still not be readable. *)
Test_open ==
    /\ pc = "test" /\ UNCHANGED file
    /\ \/ Xfsopen(1) # {} /\ Return(FALSE) /\ UNCHANGED refused
       \/ refused' = (refused \/ file # "none") /\ Goto("open")
          /\ UNCHANGED <<before, lost>>

Open ==
    /\ pc = "open"
    /\ \/ \E f \in Xfsopen(Row(mode)) :
             /\ file' = f /\ before' = file /\ lost' = (file # f /\ file = "full") /\ Goto("seek") /\ UNCHANGED refused
       \/ Return(FALSE) /\ refused' = TRUE /\ UNCHANGED file

Seek ==
    /\ pc = "seek" /\ UNCHANGED <<file, refused>>
    /\ Return(TRUE) \/ ("ate" \in mode /\ Return(FALSE))

Others_change ==
    /\ others < MaxOthers /\ pc # "done"
    /\ others' = others + 1 /\ file' \in {"none", "empty", "full"} \ {file}
    /\ since' = (since \/ pc = "open")
    /\ UNCHANGED <<mode, pc, fp, before, lost, refused>>

Next == Xfiopen \/ Test_open \/ Open \/ Seek \/ Others_change

Spec == Init /\ [][Next]_vars

-----------------------------------------------------------------------------
(* A file is opened only in a mode that says what for.  Its contents are   *)
(* lost only to trunc, or to out alone; a file is made only for writing,   *)
(* and where the mode asks for an existing one, by in or _Nocreate, only   *)
(* by trunc or app (for _Nocreate the source says that the "file must      *)
(* exist", but in is all it adds).  With _Noreplace, writing opens a file  *)
(* that exists only if others have made it since the test, or if the test  *)
(* was refused.                                                            *)
OpensAsAsked ==
    /\ fp => "in" \in mode \/ "out" \in mode \/ "app" \in mode \/ "nocreate" \in mode
    /\ lost => "trunc" \in mode \/ ("out" \in mode /\ mode \cap {"in", "app", "nocreate"} = {})
    /\ before = "none" =>
          /\ "out" \in mode \/ "app" \in mode
          /\ mode \cap {"in", "nocreate"} # {} => mode \cap {"trunc", "app"} # {}
    /\ "noreplace" \in mode /\ "out" \in Plain(mode) /\ before \notin {"unopened", "none"} =>
          since \/ refused

=============================================================================
