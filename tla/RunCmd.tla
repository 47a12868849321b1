------------------------------- MODULE RunCmd -------------------------------
(***************************************************************************)
(* run_cmd_vp() of lib/runcmd.c: run a command with its output connected   *)
(* to a pipe, read the pipe to its end, wait for the command, and return   *)
(* what it wrote and how it exited.  A line is the unit of output.         *)
(***************************************************************************)
EXTENDS Integers

CONSTANTS
    Codes,          \* exit codes of commands
    EXIT_FAILURE,
    Signaled,       \* the status of a command that was killed
    Given,          \* what *exitcode holds when the function is called
    PipeCap,        \* lines a pipe holds before its writer blocks
    MaxLines,       \* bound: lines a command writes
    MaxWinch        \* bound: how often the terminal is resized

ASSUME RunCmdAssumption ==
    /\ {0, EXIT_FAILURE} \subseteq Codes /\ EXIT_FAILURE # 0
    /\ Signaled \notin Codes
    /\ PipeCap \in Nat \ {0} /\ MaxLines \in Nat /\ MaxWinch \in Nat

VARIABLES
    pc,             \* "start", "read", "close", "wait", "report", "returned"
    exitcode,       \* *exitcode
    output,         \* lines of the command in the returned output
    note,           \* what the function itself put there
    status,         \* what waitpid() stored; 0 from the start
    \* the command: its life, how it ended, the lines it still has to write
    \* and has written, and the two ends of its pipe
    proc, ended, todo, written, chan, ropen, wopen,
    winch

parent == <<exitcode, output, note, status>>
child == <<proc, ended, todo, written, wopen>>
vars == <<pc, parent, child, chan, ropen, winch>>

Init ==
    /\ pc = "start"
    /\ exitcode = Given
    /\ output = 0 /\ note = "none"
    /\ status = 0
    /\ proc = "none" /\ ended = 0
    /\ todo \in 0 .. MaxLines
    /\ written = 0 /\ chan = 0
    /\ ropen = FALSE /\ wopen = FALSE
    /\ winch = 0

Return(code, n) ==
    /\ pc' = "returned"
    /\ exitcode' = code
    /\ note' = n
    /\ UNCHANGED <<output, status, winch>>

\* find_cmd() finds nothing: *exitcode is left alone.
CommandNotFound ==
    /\ pc = "start"
    /\ Return(exitcode, "NOT FOUND")
    /\ UNCHANGED <<child, chan, ropen>>

PipeFails ==
    /\ pc = "start"
    /\ Return(EXIT_FAILURE, "none")
    /\ UNCHANGED <<child, chan, ropen>>

\* fork() fails: *exitcode is left alone.
ForkFails ==
    /\ pc = "start"
    /\ Return(exitcode, "none")
    /\ UNCHANGED <<child, chan, ropen>>

Fork ==
    /\ pc = "start"
    /\ pc' = "read"
    /\ proc' = "alive"
    /\ ropen' = TRUE /\ wopen' = TRUE
    /\ UNCHANGED <<parent, ended, todo, written, chan, winch>>

\* fdopen() fails right after the fork: the child is not waited for.
FdopenFails ==
    /\ pc = "read" /\ output = 0
    /\ Return(EXIT_FAILURE, "none")
    /\ ropen' = FALSE
    /\ UNCHANGED <<child, chan>>

ReadLine ==
    /\ pc = "read" /\ chan > 0
    /\ chan' = chan - 1
    /\ output' = output + 1
    /\ UNCHANGED <<pc, exitcode, note, status, child, ropen, winch>>

\* Faulty variant: the function returns without waiting for the command.
ReadEofReturns ==
    /\ pc = "read" /\ chan = 0 /\ ~wopen
    /\ Return(0, "none")
    /\ ropen' = FALSE
    /\ UNCHANGED <<child, chan>>

\* getline() returns -1 at the end of the pipe.
ReadEof ==
    /\ pc = "read" /\ chan = 0 /\ ~wopen
    /\ pc' = "close"
    /\ UNCHANGED <<parent, child, chan, ropen, winch>>

\* read() returns EINTR when the terminal is resized while the pipe is
\* empty: getline() returns -1 for that too.
ReadInterrupted ==
    /\ pc = "read" /\ chan = 0 /\ wopen /\ winch < MaxWinch
    /\ winch' = winch + 1
    /\ pc' = "close"
    /\ UNCHANGED <<parent, child, chan, ropen>>

\* Faulty variant: the pipe is left open while the command is waited for.
CloseForgotten ==
    /\ pc = "close"
    /\ pc' = "wait"
    /\ UNCHANGED <<parent, child, chan, ropen, winch>>

\* fclose().  Until then a command that was not read to its end can still
\* write into the pipe, and what it wrote is dropped here.
Close ==
    /\ pc = "close"
    /\ pc' = "wait"
    /\ ropen' = FALSE
    /\ UNCHANGED <<parent, child, chan, winch>>

Wait ==
    /\ pc = "wait" /\ proc = "zombie"
    /\ proc' = "reaped"
    /\ status' = ended
    /\ pc' = "report"
    /\ UNCHANGED <<exitcode, output, note, ended, todo, written, wopen, chan, ropen, winch>>

\* waitpid() returns EINTR: EXIT_FAILURE is stored, status stays 0.
WaitInterrupted ==
    /\ pc = "wait" /\ proc = "alive" /\ winch < MaxWinch
    /\ winch' = winch + 1
    /\ exitcode' = EXIT_FAILURE
    /\ pc' = "report"
    /\ UNCHANGED <<output, note, status, child, chan, ropen>>

\* Faulty variant: the exit code of a command that was killed is taken, 0.
ReportKilled ==
    /\ pc = "report"
    /\ Return(IF status = Signaled THEN 0 ELSE status, "none")
    /\ UNCHANGED <<child, chan, ropen>>

Report ==
    /\ pc = "report"
    /\ IF status = Signaled THEN Return(EXIT_FAILURE, "signal") ELSE Return(status, "none")
    /\ UNCHANGED <<child, chan, ropen>>

(***************************************************************************)
(* The command.  Once the reader is gone, writing makes it fail.           *)
(***************************************************************************)

WriteLine ==
    /\ proc = "alive" /\ wopen /\ todo > 0
    /\ ropen /\ chan < PipeCap
    /\ chan' = chan + 1
    /\ written' = written + 1
    /\ todo' = todo - 1
    /\ UNCHANGED <<pc, parent, proc, ended, ropen, wopen, winch>>

End(how) ==
    /\ proc = "alive"
    /\ proc' = "zombie"
    /\ ended' = how
    /\ wopen' = FALSE
    /\ UNCHANGED <<pc, parent, todo, written, chan, ropen, winch>>

\* A command that ignores SIGPIPE sees the failed write and says so.
BrokenPipe ==
    /\ wopen /\ todo > 0 /\ ~ropen
    /\ \E how \in {Signaled} \cup (Codes \ {0}) : End(how)
Exit == todo = 0 /\ \E c \in Codes : End(c)
Killed == End(Signaled)

\* A command may close its output and go on.
CloseOutput ==
    /\ proc = "alive" /\ wopen /\ todo = 0
    /\ wopen' = FALSE
    /\ UNCHANGED <<pc, parent, proc, ended, todo, written, chan, ropen, winch>>

Terminated == pc = "returned" /\ proc # "alive" /\ UNCHANGED vars

ParentStep == Fork \/ ReadLine \/ ReadEof \/ Close \/ Wait \/ Report
ChildStep == WriteLine \/ BrokenPipe \/ Exit

Next ==
    \/ ParentStep
    \/ ChildStep
    \/ CommandNotFound \/ PipeFails \/ ForkFails \/ FdopenFails
    \/ ReadInterrupted \/ WaitInterrupted
    \/ Killed \/ CloseOutput
    \/ Terminated

\* Both processes are scheduled, and the command ends by itself.
Spec == Init /\ [][Next]_vars /\ WF_vars(ParentStep) /\ WF_vars(ChildStep)

(***************************************************************************)
(* Properties.                                                             *)
(***************************************************************************)

\* If no signal interferes, a command that was forked and read is reported
\* as it was: all of its output, in full, and its own exit code.
ReportedAsItWas ==
    pc = "returned" /\ winch = 0 /\ proc = "reaped" =>
        /\ output = written /\ chan = 0
        /\ exitcode = IF ended = Signaled THEN EXIT_FAILURE ELSE ended
        /\ (note = "signal") <=> (ended = Signaled)
        /\ ended # Signaled => todo = 0

\* A command that was forked is waited for before the function returns,
\* unless its output could not be read or waitpid() was interrupted.
NoZombieLeft ==
    pc = "returned" /\ proc \in {"alive", "zombie"} =>
        \/ winch > 0
        \/ output = 0 /\ exitcode = EXIT_FAILURE /\ note = "none"

\* The success of a command that was waited for means that it has written
\* all it had to say.  What the output lacks of that is no more than a pipe
\* holds, written between an interrupted getline() and fclose(); a command
\* that had more to say failed on the closed pipe, and the caller is told.
TruncationShows ==
    pc = "returned" /\ proc = "reaped" /\ exitcode = 0 =>
        /\ todo = 0
        /\ written <= output + IF winch = 0 THEN 0 ELSE PipeCap

\* The function returns and the command ends: a command blocked on a pipe
\* that nobody reads any more cannot hold up either.
BothEnd == <>(pc = "returned") /\ [](proc = "alive" => <>(proc # "alive"))

\* "return the output of the process and the exit code" (runcmd.c:128): a
\* command that is reported as a success has ended as one.
ExitCodeIsReported ==
    pc = "returned" /\ exitcode = 0 => proc = "reaped" /\ ended = 0
=============================================================================
