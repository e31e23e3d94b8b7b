------------------------------ MODULE OutputPipe -------------------------------
(***************************************************************************)
(* output_collecting_pipe of tools/inc/stljobs.h: a pipe read by           *)
(* overlapped reads, one at a time, whose thread-pool callback starts the  *)
(* next; stop() takes running away, cancels the read and waits for the     *)
(* callback, and extract_and_reset() then owns the buffer.  The child is   *)
(* an actor that writes and exits; the pool's CancelIoEx and WaitFor-      *)
(* ThreadpoolIoCallbacks are modelled from their use.                      *)
(***************************************************************************)
EXTENDS Naturals

CONSTANT MaxWrites      \* writes of all the children together

VARIABLES
    running,
    io,             \* "none", "pending", or "done": completed, not yet called back
    bytes,          \* what the completed read brought
    buffered,       \* written and still in the kernel's buffer
    written,        \* by this child
    budget,         \* writes left
    validTill,
    cb,             \* the callback: "none", "check", "read"
    caller,         \* "idle", "cancel", "wait", "extract", "start", "dead"
    child           \* "running", "exited"

vars == <<running, io, bytes, buffered, written, budget, validTill, cb,
          caller, child>>

(* As start() of the constructor leaves it, and begin_execution after it. *)
Init ==
    /\ running = TRUE /\ io = "pending" /\ bytes = 0 /\ buffered = 0
    /\ written = 0 /\ budget = MaxWrites /\ validTill = 0
    /\ cb = "none" /\ caller = "idle" /\ child = "running"

(* The child's WriteFile completes the pending read or stays in the buffer.*)
Write ==
    /\ child = "running" /\ caller # "dead" /\ budget > 0
    /\ written' = written + 1 /\ budget' = budget - 1
    /\ IF io = "pending"
       THEN io' = "done" /\ bytes' = 1 /\ UNCHANGED buffered
       ELSE buffered' = buffered + 1 /\ UNCHANGED <<io, bytes>>
    /\ UNCHANGED <<running, validTill, cb, caller, child>>

Child_exits ==
    /\ child = "running" /\ caller = "idle"
    /\ child' = "exited"
    /\ UNCHANGED <<running, io, bytes, buffered, written, budget, validTill, cb, caller>>

(* read_some: reads that succeed at once are looped over, until one pends. *)
Read_some ==
    /\ validTill' = validTill + buffered
    /\ buffered' = 0
    /\ io' = "pending"
    /\ bytes' = 0

(* The pool calls back; the callback adds the bytes and asks running,      *)
(* reads again or returns.                                                 *)
Callback ==
    /\ io = "done" /\ cb = "none" /\ caller # "dead"
    /\ io' = "none" /\ cb' = "check"
    /\ validTill' = validTill + bytes /\ bytes' = 0
    /\ UNCHANGED <<running, buffered, written, budget, caller, child>>

Callback_check ==
    /\ cb = "check" /\ caller # "dead"
    /\ cb' = IF running THEN "read" ELSE "none"
    /\ UNCHANGED <<running, io, bytes, buffered, written, budget, validTill, caller, child>>

(* stop() may have come in between: read_some asserts running, which ends  *)
(* the tool where assertions are compiled in, and reads where they are not.*)
Callback_reads ==
    /\ cb = "read" /\ caller # "dead"
    /\ cb' = "none"
    /\ \/ Read_some /\ UNCHANGED caller
       \/ ~running /\ caller' = "dead" /\ UNCHANGED <<validTill, buffered, io, bytes>>
    /\ UNCHANGED <<running, written, budget, child>>

(* complete() of the exited child: stop() takes running away ...           *)
Stop ==
    /\ caller = "idle" /\ child = "exited"
    /\ running' = FALSE /\ caller' = "cancel"
    /\ UNCHANGED <<io, bytes, buffered, written, budget, validTill, cb, child>>

(* Mutant of Cancel: a read that is not found is no failure. *)
Cancel_ignored ==
    /\ caller = "cancel"
    /\ IF io = "pending"
       THEN io' = "done" /\ bytes' = 0
       ELSE UNCHANGED <<io, bytes>>
    /\ caller' = "wait"
    /\ UNCHANGED <<running, buffered, written, budget, validTill, cb, child>>

(* ... cancels the read; when none is pending, CancelIoEx fails with       *)
(* ERROR_NOT_FOUND and the api_failure ends the tool ...                   *)
Cancel ==
    /\ caller = "cancel"
    /\ IF io = "pending"
       THEN io' = "done" /\ bytes' = 0 /\ caller' = "wait"
       ELSE caller' = "dead" /\ UNCHANGED <<io, bytes>>
    /\ UNCHANGED <<running, buffered, written, budget, validTill, cb, child>>

(* ... and waits for the callbacks of the reads begun. *)
Wait ==
    /\ caller = "wait" /\ io = "none" /\ cb = "none"
    /\ caller' = "extract"
    /\ UNCHANGED <<running, io, bytes, buffered, written, budget, validTill, cb, child>>

(* extract_and_reset copies the output and empties the buffer. *)
Extract ==
    /\ caller = "extract"
    /\ validTill' = 0 /\ caller' = "start"
    /\ UNCHANGED <<running, io, bytes, buffered, written, budget, cb, child>>

(* start(), and begin_execution of the next command. *)
Start ==
    /\ caller = "start"
    /\ running' = TRUE /\ caller' = "idle"
    /\ Read_some
    /\ written' = 0 /\ child' = "running"
    /\ UNCHANGED <<budget, cb>>

-----------------------------------------------------------------------------
Next ==
    \/ Write \/ Child_exits
    \/ Callback \/ Callback_check \/ Callback_reads
    \/ Stop \/ Cancel \/ Wait \/ Extract \/ Start

Spec == Init /\ [][Next]_vars

-----------------------------------------------------------------------------
(* What extract_and_reset takes is all that the child wrote and nothing of *)
(* another child's, and no thread of the pool uses the buffer then: when   *)
(* the cancelled read was pending, the pipe was empty and no callback on   *)
(* its way.                                                                *)
OutputComplete ==
    caller = "extract" =>
        /\ validTill = written
        /\ io = "none" /\ cb = "none" /\ buffered = 0

=============================================================================
