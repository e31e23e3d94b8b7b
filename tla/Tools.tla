-------------------------------- MODULE Tools ---------------------------------
(***************************************************************************)
(* The tools of the repository.                                            *)
(*                                                                         *)
(* tools/parallelize: a queue of commands run by a fixed number of         *)
(* subprocess entries (subprocess_executive of stljobs.h), each started in *)
(* a job object that kills it when the job is closed; the pool's wait      *)
(* callback of an entry takes the result and the next command.  Everything *)
(* but complete() happens under mtx: add_command and the end of a callback *)
(* are one step each.                                                      *)
(*                                                                         *)
(* Below them two that read text: tools/validate, which scans every file   *)
(* of the repository once, byte by byte and block by block, for what the   *)
(* project does not allow in it; and tools/jobify's search for its         *)
(* subcommand in the command line.  The limits are scaled down.            *)
(***************************************************************************)
EXTENDS Integers, Sequences, FiniteSets, SequencesExt

CONSTANTS
    Entries,        \* availableConcurrency of them
    Found           \* what wmain finds at its roots, in order: "root" for a file
                    \* named itself, and "file", "skipped" (by its extension) or
                    \* "directory" for what is found below a directory

None == -1          \* SIZE_MAX
Accepted(f) == f \in {"root", "file"}
N == Len(SelectSeq(Found, Accepted))
Commands == 0 .. N - 1

VARIABLES
    idx,            \* what wmain has gone through
    failed,         \* commands whose exit code was not 0
    exit,           \* wmain's own exit code
    commands,       \* how many have been added
    nextCommandToRun,
    runningConcurrency,
    commandRunning, \* of each entry
    process,        \* of each entry: "none", "suspended", "running", "exited"
    job,            \* the process is in the entry's job
    completed,      \* entries whose callback has taken its output
    result,         \* commands with a result
    starts,         \* how often each command was started
    main            \* "adding", "waiting", "asleep", "done", "unwinding", "aborted"

vars == <<idx, failed, exit, commands, nextCommandToRun, runningConcurrency, commandRunning,
          process, job, completed, result, starts, main>>

Init ==
    /\ idx = 0 /\ failed = {} /\ exit = None
    /\ commands = 0 /\ nextCommandToRun = 0 /\ runningConcurrency = 0
    /\ commandRunning = [e \in Entries |-> None]
    /\ process = [e \in Entries |-> "none"]
    /\ job = [e \in Entries |-> FALSE]
    /\ completed = {}
    /\ result = {}
    /\ starts = [c \in Commands |-> 0]
    /\ main = "adding"

(* An api_failure is an exception out of a noexcept callback: the program  *)
(* ends, and with it its handles to the jobs.                              *)
Abort(e, p, inJob) ==
    /\ process' = [d \in Entries |->
                    IF d = e THEN (IF inJob THEN "none" ELSE p)
                    ELSE IF job[d] THEN "none" ELSE process[d]]
    /\ job' = [d \in Entries |-> FALSE]
    /\ main' = "aborted"
    /\ UNCHANGED starts

(* In wmain the exception first unwinds the parallelizer. *)
Throw(e, p, inJob) ==
    /\ process' = [process EXCEPT ![e] = p]
    /\ job' = [job EXCEPT ![e] = inJob]
    /\ main' = "unwinding"
    /\ UNCHANGED starts

Fail(e, p, inJob, byMain) == IF byMain THEN Throw(e, p, inJob) ELSE Abort(e, p, inJob)

(* begin_execution: a job, a suspended process, the process into the job,  *)
(* and its thread resumed; each call may fail.                             *)
Begin_execution(e, c, byMain) ==
    \/ /\ process' = [process EXCEPT ![e] = "running"]
       /\ job' = [job EXCEPT ![e] = TRUE]
       /\ starts' = [starts EXCEPT ![c] = @ + 1]
       /\ UNCHANGED main
    \/ Fail(e, "none", FALSE, byMain)       \* no job, or no process
    \/ Fail(e, "suspended", FALSE, byMain)  \* AssignProcessToJobObject
    \/ Fail(e, "suspended", TRUE, byMain)   \* ResumeThread

Schedule(e, c, byMain) ==
    /\ commandRunning' = [commandRunning EXCEPT ![e] = c]
    /\ Begin_execution(e, c, byMain)

Idle == {e \in Entries : commandRunning[e] = None}

(* wmain: what is not a regular file of an accepted extension is skipped.  *)
Skip ==
    /\ main = "adding" /\ idx < Len(Found) /\ ~Accepted(Found[idx + 1])
    /\ idx' = idx + 1
    /\ UNCHANGED <<failed, exit, commands, nextCommandToRun, runningConcurrency, commandRunning,
                   process, job, completed, result, starts, main>>

(* A filesystem_error at a root or on the way through a directory. *)
Filesystem_error ==
    /\ main = "adding"
    /\ main' = "unwinding"
    /\ UNCHANGED <<idx, failed, exit, commands, nextCommandToRun, runningConcurrency,
                   commandRunning, process, job, completed, result, starts>>

add_command ==
    /\ main = "adding" /\ idx < Len(Found) /\ Accepted(Found[idx + 1])
    /\ idx' = idx + 1
    /\ commands' = commands + 1
    /\ IF runningConcurrency = Cardinality(Entries)
       THEN UNCHANGED <<nextCommandToRun, runningConcurrency, commandRunning,
                        process, job, starts, main>>
       ELSE /\ runningConcurrency' = runningConcurrency + 1
            /\ nextCommandToRun' = commands + 1
            /\ Schedule(CHOOSE e \in Idle : TRUE, commands, TRUE)
    /\ UNCHANGED <<failed, exit, completed, result>>

(* The system: a process ends, and the entry's wait is satisfied. *)
Process_exits(e) ==
    /\ process[e] = "running"
    /\ process' = [process EXCEPT ![e] = "exited"]
    /\ failed' \in {failed, failed \union {commandRunning[e]}}
    /\ UNCHANGED <<idx, exit, commands, nextCommandToRun, runningConcurrency,
                   commandRunning, job, completed, result, starts, main>>

(* The callback's executive.complete(): the handles are closed and the     *)
(* output extracted (module OutputPipe), before mtx is locked; it may fail.*)
Complete(e) ==
    /\ process[e] = "exited"
    /\ \/ /\ process' = [process EXCEPT ![e] = "none"]
          /\ job' = [job EXCEPT ![e] = FALSE]
          /\ completed' = completed \union {e}
          /\ UNCHANGED <<starts, main>>
       \/ Abort(e, "none", FALSE) /\ UNCHANGED completed
    /\ UNCHANGED <<idx, failed, exit, commands, nextCommandToRun, runningConcurrency,
                   commandRunning, result>>

Wake_main(m) == IF m = "asleep" THEN "waiting" ELSE m

(* Mutant of Callback: the next command is taken without counting it. *)
Callback_stuck(e) ==
    /\ e \in completed /\ main # "aborted"
    /\ completed' = completed \ {e}
    /\ result' = result \union {commandRunning[e]}
    /\ IF nextCommandToRun = commands
       THEN /\ commandRunning' = [commandRunning EXCEPT ![e] = None]
            /\ runningConcurrency' = runningConcurrency - 1
            /\ main' = IF runningConcurrency = 1 THEN Wake_main(main) ELSE main
            /\ UNCHANGED <<nextCommandToRun, process, job, starts>>
       ELSE /\ Schedule(e, nextCommandToRun, FALSE)
            /\ UNCHANGED <<runningConcurrency, nextCommandToRun>>
    /\ UNCHANGED <<idx, failed, exit, commands>>

(* The rest of the callback, under mtx. *)
Callback(e) ==
    /\ e \in completed /\ main # "aborted"
    /\ completed' = completed \ {e}
    /\ result' = result \union {commandRunning[e]}
    /\ IF nextCommandToRun = commands
       THEN /\ commandRunning' = [commandRunning EXCEPT ![e] = None]
            /\ runningConcurrency' = runningConcurrency - 1
            /\ main' = IF runningConcurrency = 1 THEN Wake_main(main) ELSE main
            /\ UNCHANGED <<nextCommandToRun, process, job, starts>>
       ELSE /\ nextCommandToRun' = nextCommandToRun + 1
            /\ Schedule(e, nextCommandToRun, FALSE)
            /\ UNCHANGED runningConcurrency
    /\ UNCHANGED <<idx, failed, exit, commands>>

(* wait_all: cv.wait until nothing runs. *)
wait_all ==
    /\ \/ main = "adding" /\ idx = Len(Found)
       \/ main = "waiting"
    /\ main' = IF runningConcurrency = 0 THEN "done" ELSE "asleep"
    /\ UNCHANGED <<idx, failed, exit, commands, nextCommandToRun, runningConcurrency,
                   commandRunning, process, job, completed, result, starts>>

(* The entries are destroyed: ~tp_wait waits for the callbacks that run    *)
(* and cancels the others, and the jobs are closed; then abort or give_up. *)
(* What other entries do meanwhile might as well be done before.           *)
Unwind ==
    /\ main = "unwinding" /\ completed = {}
    /\ process' = [e \in Entries |-> IF job[e] THEN "none" ELSE process[e]]
    /\ job' = [e \in Entries |-> FALSE]
    /\ main' = "aborted"
    /\ UNCHANGED <<idx, failed, exit, commands, nextCommandToRun, runningConcurrency,
                   commandRunning, completed, result, starts>>

(* wmain reads the results and reports them. *)
Report ==
    /\ main = "done" /\ exit = None
    /\ exit' = IF result \cap failed = {} THEN 0 ELSE 1
    /\ UNCHANGED <<idx, failed, commands, nextCommandToRun, runningConcurrency,
                   commandRunning, process, job, completed, result, starts, main>>

-----------------------------------------------------------------------------
Progress(e) == Process_exits(e) \/ Complete(e) \/ Callback(e)

Next ==
    \/ Skip \/ Filesystem_error \/ add_command \/ wait_all \/ Unwind \/ Report
    \/ \E e \in Entries : Progress(e)

Spec == Init /\ [][Next]_vars

-----------------------------------------------------------------------------
Busy == Entries \ Idle

(* Every command is started once, in order, and has its result when        *)
(* wait_all returns, so that wmain succeeds only if they all did: an idle  *)
(* entry means that no command waits, and runningConcurrency counts the    *)
(* busy ones, on which the main thread's sleep depends.                    *)
EachCommandOnce ==
    \/ main \in {"unwinding", "aborted"}
    \/ /\ runningConcurrency = Cardinality(Busy)
       /\ runningConcurrency <= nextCommandToRun
       /\ Idle # {} => nextCommandToRun = commands
       /\ \A c \in Commands : starts[c] = IF c < nextCommandToRun THEN 1 ELSE 0
       /\ 0 .. nextCommandToRun - 1 = result \union {commandRunning[e] : e \in Busy}
       /\ main = "asleep" => runningConcurrency > 0
       /\ main = "done" => result = Commands /\ commands = N
       /\ exit = 0 => failed = {}

(* A child left behind by a tool that gives up is one that could not be    *)
(* put into its job; it is suspended and has run nothing.                  *)
ChildrenKilled ==
    main = "aborted" => \A e \in Entries : process[e] \in {"none", "suspended"}

-----------------------------------------------------------------------------
(* validate *)

CR == "cr"
LF == "lf"
Space == " "
Tab == "tab"
Bom == "bom"                \* 0xEF, 0xBB or 0xBF
Control == "ctrl"           \* a disallowed character
max_line_length == 2
BlockSize == 2
Ends(ch) == ch \in {CR, LF}

(* BinaryFile::read_next_block, until it returns nothing. *)
Blocks(text) ==
    [b \in 1 .. (Len(text) + BlockSize - 1) \div BlockSize |->
        SubSeq(text, (b - 1) * BlockSize + 1,
               IF b * BlockSize < Len(text) THEN b * BlockSize ELSE Len(text))]

Start ==
    [cr |-> FALSE, lf |-> FALSE, crlf |-> FALSE, bom |-> FALSE, overlength |-> 0, disallowed |-> 0,
     tabs |-> 0, trailing |-> 0, prev |-> "@", previous2 |-> "@", previous3 |-> "@", columns |-> 0]

Scan_character(s, ch) ==
    [s EXCEPT !.crlf = @ \/ (s.prev = CR /\ ch = LF),
              !.cr = @ \/ (s.prev = CR /\ ch # LF),
              !.lf = @ \/ (s.prev # CR /\ ch = LF),
              !.tabs = IF ch = Tab THEN @ + 1 ELSE @,
              !.bom = @ \/ ch = Bom,
              !.disallowed = IF ch = Control THEN @ + 1 ELSE @,
              !.trailing = IF Ends(ch) /\ s.prev \in {Space, Tab} THEN @ + 1 ELSE @,
              !.overlength = IF Ends(ch) /\ s.columns > max_line_length THEN @ + 1 ELSE @,
              !.columns = IF Ends(ch) THEN 0 ELSE @ + 1,
              !.prev = ch, !.previous2 = s.prev, !.previous3 = s.previous2]

(* What is said of the line endings: one thing, and of LF files two. *)
Line_endings(s) ==
    IF s.cr \/ s.prev = CR THEN {"cr"}
    ELSE IF s.lf /\ s.crlf THEN {"mixed"}
    ELSE IF s.lf THEN {"lf"} \union
        (IF s.prev # LF THEN {"no newline"} ELSE IF s.previous2 = LF THEN {"newlines"} ELSE {})
    ELSE IF s.crlf
    THEN IF s.previous2 # CR \/ s.prev # LF THEN {"no newline"}
         ELSE IF s.previous3 = LF THEN {"newlines"} ELSE {}
    ELSE {"one line"}

scan_file(text, tabsAllowed, lengthChecked) ==
    LET s == FoldLeft(LAMBDA a, block : FoldLeft(Scan_character, a, block), Start, Blocks(text))
    IN  Line_endings(s)
        \union (IF s.bom THEN {"bom"} ELSE {})
        \union (IF s.disallowed # 0 THEN {"disallowed"} ELSE {})
        \union (IF ~tabsAllowed /\ s.tabs # 0 THEN {"tabs"} ELSE {})
        \union (IF s.trailing # 0 THEN {"trailing"} ELSE {})
        \union (IF s.overlength # 0 /\ lengthChecked THEN {"overlength"} ELSE {})

-----------------------------------------------------------------------------
(* main walks a tree, given as the sequence in which it is visited: the    *)
(* entries below a directory follow it, one deeper.  An entry is           *)
(* [depth, kind, skipped].                                                 *)
RECURSIVE Walk(_, _)

(* The files scanned among entries i .. Len(tree), by their number. *)
Walk(tree, i) ==
    IF i > Len(tree) THEN {}
    ELSE LET e == tree[i]
             after == {j \in i + 1 .. Len(tree) : tree[j].depth <= e.depth}
         IN  IF e.kind = "directory" /\ e.skipped        \* disable_recursion_pending
             THEN IF after = {} THEN {} ELSE Walk(tree, CHOOSE j \in after : \A k \in after : j <= k)
             ELSE Walk(tree, i + 1) \union (IF e.kind = "file" /\ ~e.skipped THEN {i} ELSE {})

-----------------------------------------------------------------------------
Find(s, first, Test(_)) ==
    IF \E i \in first .. Len(s) : Test(s[i])
    THEN CHOOSE i \in first .. Len(s) : Test(s[i]) /\ \A j \in first .. i - 1 : ~Test(s[j])
    ELSE Len(s) + 1
IsSpace(c) == c = Space
IsNotSpace(c) == c # Space
IsQuote(c) == c = "\""

(* Where the subcommand begins; a path with spaces is quoted. *)
get_subcommand(s) ==
    LET first == Find(s, 1, IsNotSpace)
        quoted == first <= Len(s) /\ s[first] = "\""
        close == Find(s, first + 1, IsQuote)
        past == IF ~quoted THEN Find(s, first, IsSpace)
                ELSE IF close <= Len(s) THEN close + 1 ELSE close
    IN  Find(s, past, IsNotSpace)

=============================================================================
