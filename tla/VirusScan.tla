----------------------------- MODULE VirusScan -----------------------------
(***************************************************************************)
(* inspect_virus() of lib/inspect_virus.c: the parent forks max_pids       *)
(* children, child k scans every file whose position is k modulo max_pids  *)
(* and writes a triple (virus name, file, infected path) for each infected *)
(* one to its pipe; the parent collects the children as they end and adds  *)
(* a result for each triple.                                               *)
(*                                                                         *)
(* A unit in a pipe is one field of a triple.  Child k is the process k:   *)
(* the table starts empty, so it gets slot k.  A field may be sent again   *)
(* or lost by full_write(), see FullWrite; the parent then reads bytes of  *)
(* one field as another, and what it does with them is not defined.        *)
(***************************************************************************)
EXTENDS Parallel, Sequences

CONSTANTS
    NFiles,         \* the "after" files foreach_peer_file() goes through
    Builds,         \* the builds to inspect, see "kind"
    MaxReports,     \* infections a child reports (4000 in the code)
    MaxTries,       \* how often full_write() sends a field again (3 in the code)
    Texts           \* the texts of the reports, see "four"

Files == 1 .. NFiles
Fields == 3         \* of a triple
Name == 3           \* the fields still to be written when the name is next
Path == 1           \* and when the infected path is

\* What scanning a file finds: an infection, with the severity the security
\* rules give it, nothing, or an error; irregular files are not scanned.
Kinds == {"BAD", "INFO", "SKIP", "clean", "irregular", "error"}

ASSUME ScanAssumption ==
    /\ NFiles \in Nat /\ Builds \subseteq [Files -> Kinds]
    /\ Procs = Slots
    /\ NoProc = -1
    /\ Texts \subseteq [Files -> SUBSET {Name, Path}]
    /\ MaxReports \in Nat /\ MaxTries \in Nat
    /\ Fields * MaxReports + MaxTries <= max_len

VARIABLES
    \* the input: the kind of each file
    kind,
    \* the parent
    stage, child_no, result, added, info, ok,
    \* each child: the file it comes to next, its static counters, the fields of the
    \* current triple still to be written, and the files it has reported
    todo, file_no, virus_countdown, pending, reports,
    \* full_write() in a child: its static counter, and the first of the
    \* reports that the parent need not find (0: it finds them all)
    tries, spoilt,
    \* which texts about a file come to four bytes with their NUL
    four

parent == <<stage, child_no, result, added, info, ok>>
children == <<todo, file_no, virus_countdown, pending, reports, tries, spoilt, four>>
vars == <<parallelVars, kind, parent, children>>

Infected(f) == kind[f] \in {"BAD", "INFO", "SKIP"}

Init ==
    /\ ParallelInit
    /\ kind \in Builds
    /\ stage = "setup"
    /\ child_no = 0
    /\ result = TRUE
    /\ added = [f \in Files |-> 0]
    /\ info = FALSE
    /\ ok = FALSE
    /\ todo = [c \in Procs |-> 1]
    /\ file_no = [c \in Procs |-> -1]
    /\ virus_countdown = [c \in Procs |-> MaxReports]
    /\ pending = [c \in Procs |-> 0]
    /\ reports = [c \in Procs |-> <<>>]
    /\ tries = [c \in Procs |-> 0]
    /\ spoilt = [c \in Procs |-> 0]
    /\ four \in Texts

(***************************************************************************)
(* The parent.                                                             *)
(***************************************************************************)

\* The library, its engine and its databases are there: the result with
\* their versions is added, and the children can be forked.
Setup ==
    /\ stage = "setup" /\ pc = "client"
    /\ stage' = "fork"
    /\ info' = TRUE
    /\ UNCHANGED <<parallelVars, kind, child_no, result, added, ok, children>>

\* cl_init() or cl_cvdhead() fails: false, without any result.
SetupReturnsFalse ==
    /\ stage = "setup" /\ pc = "client"
    /\ stage' = "returned"
    /\ result' = FALSE
    /\ UNCHANGED <<parallelVars, kind, child_no, added, info, ok, children>>

\* err() or errx() of the parent: no database directory, no engine, and
\* further on no pipe, no process.
ParentFails ==
    /\ stage \in {"setup", "fork"} /\ pc = "client"
    /\ pc' = "exited"
    /\ UNCHANGED <<collector, kernel, slot, winch, written, kind, parent, children>>

ForkChild ==
    /\ stage = "fork" /\ child_no < max_pids
    /\ insert_new_pid_and_fd(child_no)
    /\ child_no' = child_no + 1
    /\ UNCHANGED <<kind, stage, result, added, info, ok, children>>

ForkedAll ==
    /\ stage = "fork" /\ child_no = max_pids /\ pc = "client"
    /\ stage' = "collect"
    /\ UNCHANGED <<parallelVars, kind, child_no, result, added, info, ok, children>>

CollectOne ==
    /\ stage = "collect" /\ slot = NoSlot
    /\ collect_one
    /\ UNCHANGED <<kind, parent, children>>

CollectStep == collect_one_steps /\ UNCHANGED <<kind, parent, children>>

Interrupted == WaitInterrupted /\ UNCHANGED <<kind, parent, children>>

\* Faulty variant: only a child that was killed counts as failed.
KilledOnly == exit_status[slot] = "signal"

Unsuccessful == exit_status[slot] # "exit0"

\* collect_one() returned a slot whose child was killed or failed.
ChildHasFailed ==
    /\ stage = "collect" /\ pc = "client" /\ slot # NoSlot
    /\ Unsuccessful
    /\ pc' = "exited"
    /\ UNCHANGED <<collector, kernel, slot, winch, written, kind, parent, children>>

\* collect_one() returned the slot of a child that scanned all its files,
\* with all fields of its triples in place.
ConsumeOutput ==
    /\ stage = "collect" /\ pc = "client" /\ slot # NoSlot
    /\ ~Unsuccessful /\ spoilt[slot] = 0
    /\ LET triples == 1 .. output_len[slot] \div Fields
           reported(f) == Cardinality({n \in triples : reports[slot][n] = f}) IN
          /\ added' = [f \in Files |->
                          IF kind[f] = "SKIP" THEN added[f] ELSE added[f] + reported(f)]
          /\ result' = (result /\ \A f \in Files : kind[f] = "BAD" => reported(f) = 0)
    /\ slot' = NoSlot
    /\ UNCHANGED <<collector, pc, kernel, winch, written, kind, stage, child_no, info, ok, children>>

\* The triples that were sent before the first spoilt one are found.  From
\* there on the loop may end at a NUL byte, or come upon whole triples again.
ConsumeSpoilt ==
    /\ stage = "collect" /\ pc = "client" /\ slot # NoSlot
    /\ ~Unsuccessful /\ spoilt[slot] # 0
    /\ \E S \in SUBSET {f \in Files : \E n \in DOMAIN reports[slot] : reports[slot][n] = f} :
          /\ \A n \in 1 .. spoilt[slot] - 1 : reports[slot][n] \in S
          /\ added' = [f \in Files |->
                          IF f \in S /\ kind[f] # "SKIP" THEN added[f] + 1 ELSE added[f]]
          /\ result' = (result /\ \A f \in S : kind[f] # "BAD")
    /\ slot' = NoSlot
    /\ UNCHANGED <<collector, pc, kernel, winch, written, kind, stage, child_no, info, ok, children>>

\* Or other bytes are taken for the pointer to a file, and the program dies.
BadPointer ==
    /\ stage = "collect" /\ pc = "client" /\ slot # NoSlot
    /\ ~Unsuccessful /\ spoilt[slot] # 0
    /\ pc' = "exited"
    /\ stage' = "crashed"
    /\ UNCHANGED <<collector, kernel, slot, winch, written, kind, child_no, result, added, info,
                   ok, children>>

\* collect_one() returned NULL.
CollectedAll ==
    /\ stage = "collect" /\ slot = NoSlot /\ running = 0
    /\ delete_parallel(FALSE)
    /\ stage' = "delete"
    /\ UNCHANGED <<kind, child_no, result, added, info, ok, children>>

DeleteStep == DeleteSlot /\ UNCHANGED <<kind, parent, children>>

Return ==
    /\ stage = "delete" /\ pc = "deleted"
    /\ stage' = "returned"
    /\ ok' = result
    /\ UNCHANGED <<parallelVars, kind, child_no, result, added, info, children>>

(***************************************************************************)
(* A child.                                                                *)
(***************************************************************************)

\* Faulty variant: the count goes one too far before it starts again.
CyclicOffByOne(n) == IF n > max_pids THEN 0 ELSE n

Cyclic(n) == IF n = max_pids THEN 0 ELSE n

\* The file virus_driver() is called for is this child's to scan.
Scans(c, f) == Cyclic(file_no[c] + 1) = c /\ kind[f] # "irregular"

\* Faulty variant: the number of reports is not limited.
ReportsUncapped(c, f) == Scans(c, f) /\ Infected(f)

\* It finds an infection there that it may still report.
Reports(c, f) == Scans(c, f) /\ Infected(f) /\ virus_countdown[c] # 0

\* virus_driver() on the next file, up to the writes.
NextFile(c) ==
    /\ proc[c] = "alive" /\ c \in wopen
    /\ pending[c] = 0 /\ todo[c] \in Files
    /\ LET f == todo[c] IN
          /\ ~(Scans(c, f) /\ kind[f] = "error")
          /\ todo' = [todo EXCEPT ![c] = f + 1]
          /\ file_no' = [file_no EXCEPT ![c] = Cyclic(@ + 1)]
          /\ IF Reports(c, f)
             THEN /\ virus_countdown' = [virus_countdown EXCEPT ![c] = @ - 1]
                  /\ pending' = [pending EXCEPT ![c] = Fields]
                  /\ reports' = [reports EXCEPT ![c] = Append(@, f)]
             ELSE UNCHANGED <<virus_countdown, pending, reports>>
    /\ UNCHANGED <<parallelVars, kind, parent, tries, spoilt, four>>

\* cl_scanfile() fails, or finds a virus without a name: errx().
ScanError(c) ==
    /\ pending[c] = 0 /\ todo[c] \in Files
    /\ c \in wopen /\ Scans(c, todo[c]) /\ kind[todo[c]] = "error"
    /\ ChildExit(c, "failed")
    /\ UNCHANGED <<kind, parent, children>>

\* Faulty variant: all children hold the read ends of all pipes.
HasReaderAmongAll(c) ==
    \/ pc # "exited" /\ \E i \in Slots : fd[i] = c
    \/ \E d \in Procs : proc[d] = "alive"

\* Who holds the read end of c's pipe: the parent, and the children forked
\* after c, which inherit it and never close it.
HasReader(c) ==
    \/ pc # "exited" /\ \E i \in Slots : fd[i] = c
    \/ \E d \in Procs : d > c /\ proc[d] = "alive"

\* The four bytes written are taken for EINTR, and for a reason to write
\* them again.
Resends(c) ==
    /\ pending[c] \in four[reports[c][Len(reports[c])]]
    /\ tries[c] < MaxTries

\* full_write() of the next field.
WriteField(c) ==
    /\ pending[c] > 0 /\ HasReader(c)
    /\ ~Resends(c)
    /\ ChildWrite(c)
    /\ pending' = [pending EXCEPT ![c] = @ - 1]
    /\ UNCHANGED <<kind, parent, todo, file_no, virus_countdown, reports, tries, spoilt, four>>

\* The fields no longer stand where the parent looks for them: in this
\* triple, or, if its name and pointer are out, from the next one on.
Spoil(c) ==
    spoilt' = [spoilt EXCEPT ![c] =
                  IF @ # 0 THEN @
                  ELSE Len(reports[c]) + IF pending[c] = Path THEN 1 ELSE 0]

ResendField(c) ==
    /\ pending[c] > 0 /\ HasReader(c)
    /\ Resends(c)
    /\ ChildWrite(c)
    /\ tries' = [tries EXCEPT ![c] = @ + 1]
    /\ Spoil(c)
    /\ UNCHANGED <<kind, parent, todo, file_no, virus_countdown, pending, reports, four>>

\* write() blocks on a full pipe and returns -1 when the terminal is
\* resized: full_write() gives up and virus_driver() does not notice.
WriteInterrupted(c) ==
    /\ proc[c] = "alive" /\ pending[c] > 0 /\ HasReader(c)
    /\ chan[c] >= PipeCap /\ winch < MaxWinch
    /\ winch' = winch + 1
    /\ pending' = [pending EXCEPT ![c] = @ - 1]
    /\ Spoil(c)
    /\ UNCHANGED <<collector, pc, slot, kernel, written, kind, parent, todo, file_no,
                   virus_countdown, reports, tries, four>>

BrokenPipe(c) ==
    /\ pending[c] > 0 /\ ~HasReader(c)
    /\ ChildExit(c, "signal")
    /\ UNCHANGED <<kind, parent, children>>

CloseWriteEnd(c) ==
    /\ pending[c] = 0 /\ todo[c] \notin Files
    /\ ChildClose(c)
    /\ UNCHANGED <<kind, parent, children>>

Quit(c) ==
    /\ c \notin wopen
    /\ ChildExit(c, "exit0")
    /\ UNCHANGED <<kind, parent, children>>

\* The scanner crashes, or someone kills it.
Crash(c) == ChildExit(c, "signal") /\ UNCHANGED <<kind, parent, children>>

ChildStep(c) ==
    \/ NextFile(c)
    \/ ScanError(c)
    \/ WriteField(c)
    \/ ResendField(c)
    \/ BrokenPipe(c)
    \/ CloseWriteEnd(c)
    \/ Quit(c)

ParentStep ==
    \/ Setup
    \/ ForkChild
    \/ ForkedAll
    \/ CollectOne
    \/ CollectStep
    \/ ChildHasFailed
    \/ ConsumeOutput
    \/ ConsumeSpoilt
    \/ BadPointer
    \/ CollectedAll
    \/ DeleteStep
    \/ Return

Stopped == stage = "returned" \/ pc = "exited"
Terminated == Stopped /\ UNCHANGED vars

Next ==
    \/ ParentStep
    \/ SetupReturnsFalse
    \/ ParentFails
    \/ Interrupted
    \/ \E c \in Procs : ChildStep(c) \/ WriteInterrupted(c) \/ Crash(c)
    \/ Terminated

\* The processes are scheduled fairly and each scan ends; nothing is assumed
\* of failures, crashes and resizes.
Fairness == WF_vars(ParentStep) /\ \A c \in Procs : WF_vars(ChildStep(c))

Spec == Init /\ [][Next]_vars /\ Fairness

(***************************************************************************)
(* Properties.                                                             *)
(***************************************************************************)

\* How the promise sees the state.
outcome ==
    IF stage = "crashed" THEN "crashed"
    ELSE IF pc = "exited" THEN "aborted"
    ELSE IF stage # "returned" THEN "running"
    ELSE IF ~info THEN "skipped"
    ELSE IF result THEN "passed" ELSE "failed"

Promise == INSTANCE ScanPromise WITH Cap <- MaxReports, resized <- winch > 0

\* The inspection keeps its promise: each infected file is reported once,
\* whichever child scanned it and in whatever order the children end, and
\* the verdict is the worst of what was reported.  Only when full_write()
\* sent a field again or lost it may reports be missing or the program die.
KeepsPromise == Promise!Spec

\* The program ends early while children are collected only if one of them
\* failed or was killed, a system call was interrupted, or a text of four
\* bytes was sent again: the cap keeps the output of each child below the
\* collector's limit (the comment at virus_countdown), and the collector
\* never runs out of slots.
AbortOnlyForCause ==
    pc = "exited" /\ stage \notin {"setup", "fork"}
        => \/ winch > 0
           \/ \E c \in Procs : status[c] # "exit0"
           \/ stage = "crashed" /\ \E f \in Files : Infected(f) /\ four[f] # {}

\* A verdict is given only for a scan that is complete: when it is, each
\* child has gone through all files and has exited with success, no child
\* is left behind and no descriptor is open.
VerdictOnlyOfCompleteScan ==
    stage = "returned" /\ info =>
        /\ \A c \in Procs : proc[c] = "reaped" /\ status[c] = "exit0" /\ todo[c] \notin Files
        /\ \A i \in Slots : fd[i] = NoProc
        /\ (ok <=> result)

\* The inspection returns or aborts; neither a full pipe nor a child that
\* closed its pipe but still runs can hold it up for ever.
Ends == <>Stopped

\* No child outlives the inspection for ever, not even when the parent
\* aborts while a child is blocked on a pipe nobody reads any more but
\* whose read end a later child still holds.
ChildrenEnd == \A c \in Procs : [](proc[c] = "alive" => <>(proc[c] # "alive"))
=============================================================================
