---------------------------- MODULE RunCmdProofs ----------------------------
(***************************************************************************)
(* Proofs about RunCmd: what run_cmd_vp() reports of a command it waited   *)
(* for, for all exit codes, amounts of output, sizes of the pipe and any   *)
(* number of signals.                                                      *)
(***************************************************************************)
EXTENDS RunCmd, TLAPS

TypeOK ==
    /\ pc \in {"start", "read", "close", "wait", "report", "returned"}
    /\ exitcode \in Codes \cup {Given}
    /\ note \in {"none", "signal", "NOT FOUND"}
    /\ proc \in {"none", "alive", "zombie", "reaped"}
    /\ status \in Codes \cup {Signaled} /\ ended \in Codes \cup {Signaled}
    /\ output \in Nat /\ todo \in Nat /\ written \in Nat /\ chan \in Nat
    /\ winch \in Nat

\* Nothing is lost in the pipe, which never holds more than it can.
PipeIsFifo ==
    /\ written = output + chan
    /\ chan <= PipeCap

\* The read end is open from the fork to fclose().
ReaderReads == ropen <=> pc \in {"read", "close"}

\* Who holds the write end, and when there is a command at all.
Forked ==
    /\ proc = "none" => pc \in {"start", "returned"}
    /\ pc = "start" => proc = "none"
    /\ wopen => proc = "alive"

\* Without a signal the function stops reading only when the command has
\* closed its end, at an empty pipe, which stays empty.
ReadToTheEnd ==
    winch = 0 =>
        /\ (pc \in {"close", "wait", "report"} \/ proc = "reaped") => chan = 0
        /\ pc \in {"close", "wait", "report"} => ~wopen

\* The status is the command's if the command was waited for, and the only
\* other way past waitpid() is a signal.
StatusIsTheCommands ==
    /\ proc = "reaped" => pc \in {"report", "returned"} /\ status = ended
    /\ pc = "report" /\ proc # "reaped" => winch > 0

\* A command that stopped early did not succeed; without a signal to the
\* function, one that it waits for was killed.
StoppedEarly ==
    /\ proc \in {"zombie", "reaped"} /\ todo > 0 => ended # 0
    /\ /\ winch = 0 /\ ended # Signaled
       /\ proc = "reaped" \/ (proc = "zombie" /\ pc # "returned")
       => todo = 0

\* What is returned of a command that was waited for.
ReportedFromStatus ==
    /\ pc = "report" => note = "none"
    /\ pc = "returned" /\ proc = "reaped" =>
            /\ exitcode = IF ended = Signaled THEN EXIT_FAILURE ELSE ended
            /\ (note = "signal") <=> (ended = Signaled)

\* note is set on the way out only.
NoteIsLast == pc # "returned" => note = "none"

IInv ==
    /\ TypeOK
    /\ PipeIsFifo
    /\ ReaderReads
    /\ Forked
    /\ ReadToTheEnd
    /\ StatusIsTheCommands
    /\ StoppedEarly
    /\ ReportedFromStatus
    /\ NoteIsLast
    /\ NoZombieLeft

USE DEF TypeOK, PipeIsFifo, ReaderReads, Forked, ReadToTheEnd,
        StatusIsTheCommands, StoppedEarly, ReportedFromStatus, NoteIsLast,
        NoZombieLeft

-----------------------------------------------------------------------------

\* What the proofs use of the constants.
LEMMA CodesAssumed ==
    /\ 0 \in Codes /\ EXIT_FAILURE \in Codes /\ EXIT_FAILURE # 0
    /\ Signaled \notin Codes /\ Signaled # 0
    /\ MaxLines \in Nat /\ PipeCap \in Nat
<1>1. 0 \in {0, EXIT_FAILURE} /\ EXIT_FAILURE \in {0, EXIT_FAILURE}
  OBVIOUS
<1> QED
  BY <1>1, RunCmdAssumption

\* Before the command is started nothing has been read or written.
LEMMA InitHolds == Init => IInv
<1> SUFFICES ASSUME Init
             PROVE  IInv
  OBVIOUS
<1>1. TypeOK
  BY CodesAssumed DEF Init
<1>2. PipeIsFifo /\ ReaderReads /\ Forked /\ ReadToTheEnd
  BY CodesAssumed DEF Init
<1>3. /\ StatusIsTheCommands /\ StoppedEarly /\ ReportedFromStatus
      /\ NoteIsLast /\ NoZombieLeft
  BY DEF Init
<1> QED
  BY <1>1, <1>2, <1>3 DEF IInv

(***************************************************************************)
(* The steps of the function.                                              *)
(***************************************************************************)

\* The function gives up before there is a command.
LEMMA NotStartedKeeps ==
    ASSUME IInv, CommandNotFound \/ PipeFails \/ ForkFails
    PROVE  IInv'
<1>1. CASE CommandNotFound
  BY <1>1 DEF IInv, CommandNotFound, Return, parent, child
<1>2. CASE PipeFails
  BY <1>2, CodesAssumed DEF IInv, PipeFails, Return, parent, child
<1>3. CASE ForkFails
  BY <1>3 DEF IInv, ForkFails, Return, parent, child
<1> QED
  BY <1>1, <1>2, <1>3

\* The command is started, with both ends of its pipe.
LEMMA ForkKeeps ==
    ASSUME IInv, Fork
    PROVE  IInv'
BY DEF IInv, Fork, parent, child

\* The command is abandoned: it is not waited for, now or later.
LEMMA FdopenFailsKeeps ==
    ASSUME IInv, FdopenFails
    PROVE  IInv'
BY CodesAssumed DEF IInv, FdopenFails, Return, parent, child

\* A line moves from the pipe to the output.
LEMMA ReadLineKeeps ==
    ASSUME IInv, ReadLine
    PROVE  IInv'
BY CodesAssumed DEF IInv, ReadLine, parent, child

\* Reading ends, at the end of the pipe or by a signal, and the pipe is
\* closed; after a signal the command may have written in between.
LEMMA ReadEndKeeps ==
    ASSUME IInv, ReadEof \/ ReadInterrupted \/ Close
    PROVE  IInv'
<1>1. CASE ReadEof
  BY <1>1 DEF IInv, ReadEof, parent, child
<1>2. CASE ReadInterrupted
  BY <1>2, CodesAssumed DEF IInv, ReadInterrupted, parent, child
<1>3. CASE Close
  BY <1>3 DEF IInv, Close, parent, child
<1> QED
  BY <1>1, <1>2, <1>3

\* The command is waited for, or the wait is interrupted.
LEMMA WaitKeeps ==
    ASSUME IInv, Wait \/ WaitInterrupted
    PROVE  IInv'
<1>1. CASE Wait
  BY <1>1 DEF IInv, Wait
<1>2. CASE WaitInterrupted
  BY <1>2, CodesAssumed DEF IInv, WaitInterrupted, parent, child
<1> QED
  BY <1>1, <1>2

\* The status becomes the exit code and the note.
LEMMA ReportKeeps ==
    ASSUME IInv, Report
    PROVE  IInv'
BY CodesAssumed DEF IInv, Report, Return, parent, child

(***************************************************************************)
(* The steps of the command.                                               *)
(***************************************************************************)

\* A line moves from the command to the pipe, while its reader is open.
LEMMA WriteLineKeeps ==
    ASSUME IInv, WriteLine
    PROVE  IInv'
<1>1. /\ proc = "alive" /\ wopen /\ todo > 0 /\ ropen /\ chan < PipeCap
      /\ chan' = chan + 1 /\ written' = written + 1 /\ todo' = todo - 1
      /\ UNCHANGED <<pc, exitcode, output, note, status, proc, ended, ropen,
                     wopen, winch>>
  BY DEF WriteLine, parent
<1>2. TypeOK /\ PipeIsFifo
  BY DEF IInv
<1>3. /\ todo' \in Nat /\ written' \in Nat /\ chan' \in Nat
      /\ written' = output' + chan' /\ chan' <= PipeCap
  <2>1. /\ todo \in Nat /\ written \in Nat /\ chan \in Nat /\ output \in Nat
        /\ written = output + chan
    BY <1>2
  <2> QED
    BY <1>1, <2>1, CodesAssumed
<1>4. TypeOK' /\ PipeIsFifo'
  BY <1>1, <1>2, <1>3
<1>5. ReaderReads' /\ Forked' /\ ReadToTheEnd'
  BY <1>1 DEF IInv
<1>6. StatusIsTheCommands' /\ StoppedEarly' /\ ReportedFromStatus'
  BY <1>1 DEF IInv
<1>7. NoteIsLast' /\ NoZombieLeft'
  BY <1>1 DEF IInv
<1> QED
  BY <1>5, <1>6, <1>7, <1>4 DEF IInv

\* The command ends: if it had more to write, not in success, and only
\* because it was killed or the function no longer reads.
LEMMA EndKeeps ==
    ASSUME IInv, NEW how \in Codes \cup {Signaled}, End(how),
           todo > 0 => how # 0,
           todo > 0 /\ how # Signaled => wopen /\ ~ropen
    PROVE  IInv'
<1>1. /\ proc = "alive" /\ proc' = "zombie" /\ ended' = how /\ ~wopen'
      /\ UNCHANGED <<pc, exitcode, output, note, status, todo, written,
                     chan, ropen, winch>>
  BY DEF End, parent
<1>2. TypeOK' /\ PipeIsFifo'
  BY <1>1 DEF IInv
<1>3. ReaderReads' /\ Forked' /\ ReadToTheEnd'
  BY <1>1 DEF IInv
<1>4. StatusIsTheCommands' /\ ReportedFromStatus' /\ NoteIsLast'
  BY <1>1 DEF IInv
<1>5. winch = 0 /\ pc # "returned" /\ how # Signaled => todo = 0
  BY <1>1 DEF IInv
<1>6. StoppedEarly'
  BY <1>1, <1>5 DEF IInv
<1>7. NoZombieLeft'
  BY <1>1 DEF IInv
<1> QED
  BY <1>2, <1>3, <1>4, <1>6, <1>7 DEF IInv

\* The ways in which a command ends.
LEMMA CommandEndKeeps ==
    ASSUME IInv, BrokenPipe \/ Exit \/ Killed
    PROVE  IInv'
<1>1. CASE BrokenPipe
  <2>1. PICK how \in {Signaled} \cup (Codes \ {0}) : End(how)
    BY <1>1 DEF BrokenPipe
  <2>2. wopen /\ ~ropen /\ how # 0
    BY <1>1, CodesAssumed DEF BrokenPipe
  <2> QED
    BY <2>1, <2>2, EndKeeps
<1>2. CASE Exit
  <2>1. PICK how \in Codes : End(how)
    BY <1>2 DEF Exit
  <2>2. ~(todo > 0)
    BY <1>2 DEF Exit
  <2> QED
    BY <2>1, <2>2, EndKeeps
<1>3. CASE Killed
  BY <1>3, CodesAssumed, EndKeeps DEF Killed
<1> QED
  BY <1>1, <1>2, <1>3

\* The command closes its output when it has no more to write.
LEMMA CloseOutputKeeps ==
    ASSUME IInv, CloseOutput
    PROVE  IInv'
BY DEF IInv, CloseOutput, parent

\* Every step of the function and of the command keeps the invariant.
LEMMA NextKeeps == IInv /\ [Next]_vars => IInv'
<1> SUFFICES ASSUME IInv, [Next]_vars
             PROVE  IInv'
  OBVIOUS
<1>1. CASE ParentStep
  BY <1>1, ForkKeeps, ReadLineKeeps, ReadEndKeeps, WaitKeeps, ReportKeeps
     DEF ParentStep
<1>2. CASE ChildStep
  BY <1>2, WriteLineKeeps, CommandEndKeeps DEF ChildStep
<1>3. CASE CommandNotFound \/ PipeFails \/ ForkFails \/ FdopenFails
  BY <1>3, NotStartedKeeps, FdopenFailsKeeps
<1>4. CASE ReadInterrupted \/ WaitInterrupted
  BY <1>4, ReadEndKeeps, WaitKeeps
<1>5. CASE Killed \/ CloseOutput
  BY <1>5, CommandEndKeeps, CloseOutputKeeps
<1>6. CASE Terminated \/ UNCHANGED vars
  <2>1. UNCHANGED <<pc, exitcode, output, note, status, winch>>
        /\ UNCHANGED <<proc, ended, todo, written, wopen, chan, ropen>>
    BY <1>6 DEF Terminated, vars, parent, child
  <2>2. TypeOK' /\ PipeIsFifo'
    BY <2>1 DEF IInv
  <2>3. ReaderReads' /\ Forked' /\ ReadToTheEnd'
    BY <2>1 DEF IInv
  <2>4. StatusIsTheCommands' /\ StoppedEarly' /\ ReportedFromStatus'
    BY <2>1 DEF IInv
  <2>5. NoteIsLast' /\ NoZombieLeft'
    BY <2>1 DEF IInv
  <2> QED
    BY <2>2, <2>3, <2>4, <2>5 DEF IInv
<1> QED
  BY <1>1, <1>2, <1>3, <1>4, <1>5, <1>6 DEF Next

HIDE DEF TypeOK, PipeIsFifo, ReaderReads, Forked, ReadToTheEnd,
         StatusIsTheCommands, StoppedEarly, ReportedFromStatus, NoteIsLast,
         NoZombieLeft

-----------------------------------------------------------------------------

\* The function, its command and the pipe keep within their types.
THEOREM TypeCorrect == Spec => []TypeOK
<1>1. IInv => TypeOK
  BY DEF IInv
<1> QED
  BY InitHolds, NextKeeps, <1>1, PTL DEF Spec

\* All that a command wrote was read if it was waited for and no signal
\* came.
LEMMA AllWasRead ==
    ASSUME IInv, proc = "reaped", winch = 0
    PROVE  output = written /\ chan = 0
<1>1. chan = 0
  BY DEF IInv, ReadToTheEnd
<1>2. output \in Nat /\ written = output + chan
  BY DEF IInv, TypeOK, PipeIsFifo
<1> QED
  BY <1>1, <1>2

\* Without a signal, the output and the exit code that run_cmd_vp()
\* returns are those of the command.
THEOREM Faithful == Spec => []ReportedAsItWas
<1>1. IInv => ReportedAsItWas
  <2> SUFFICES ASSUME IInv, pc = "returned", winch = 0, proc = "reaped"
               PROVE  /\ output = written /\ chan = 0
                      /\ exitcode = IF ended = Signaled THEN EXIT_FAILURE
                                                        ELSE ended
                      /\ (note = "signal") <=> (ended = Signaled)
                      /\ ended # Signaled => todo = 0
    BY DEF ReportedAsItWas
  <2>1. output = written /\ chan = 0
    BY AllWasRead
  <2>2. /\ exitcode = IF ended = Signaled THEN EXIT_FAILURE ELSE ended
        /\ (note = "signal") <=> (ended = Signaled)
    BY DEF IInv, ReportedFromStatus
  <2>3. ended # Signaled => todo = 0
    BY DEF IInv, StoppedEarly
  <2> QED
    BY <2>1, <2>2, <2>3
<1> QED
  BY InitHolds, NextKeeps, <1>1, PTL DEF Spec

\* Only a failed fdopen() or a signal leaves a command behind.
THEOREM CommandIsReaped == Spec => []NoZombieLeft
<1>1. IInv => NoZombieLeft
  BY DEF IInv
<1> QED
  BY InitHolds, NextKeeps, <1>1, PTL DEF Spec

\* Whatever signals arrive, a command that was cut short while it had more
\* to write is never reported with success, and of one that is, no more
\* than a pipe holds is missing.
THEOREM TruncationIsShown == Spec => []TruncationShows
<1>1. IInv => TruncationShows
  <2> SUFFICES ASSUME IInv, pc = "returned", proc = "reaped", exitcode = 0
               PROVE  /\ todo = 0
                      /\ written <= output + IF winch = 0 THEN 0 ELSE PipeCap
    BY DEF TruncationShows
  <2>1. exitcode = IF ended = Signaled THEN EXIT_FAILURE ELSE ended
    BY DEF IInv, ReportedFromStatus
  <2>2. ended = 0
    BY <2>1, CodesAssumed
  <2>3. ~(todo > 0)
    BY <2>2 DEF IInv, StoppedEarly
  <2>4. todo = 0
    <3>1. todo \in Nat
      BY DEF IInv, TypeOK
    <3> QED
      BY <2>3, <3>1
  <2>5. CASE winch = 0
    <3>1. output = written /\ output \in Nat
      BY <2>5, AllWasRead DEF IInv, TypeOK
    <3> QED
      BY <2>4, <2>5, <3>1
  <2>6. CASE winch # 0
    <3>1. /\ written = output + chan /\ chan <= PipeCap
          /\ output \in Nat /\ chan \in Nat
      BY DEF IInv, PipeIsFifo, TypeOK
    <3> QED
      BY <2>4, <2>6, <3>1, CodesAssumed
  <2> QED
    BY <2>5, <2>6
<1> QED
  BY InitHolds, NextKeeps, <1>1, PTL DEF Spec
=============================================================================
