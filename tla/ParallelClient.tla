--------------------------- MODULE ParallelClient ---------------------------
(***************************************************************************)
(* A client of the collector that uses it in every order the interface     *)
(* allows: it forks a child while fewer than max_pids run, collects one    *)
(* when any runs, and deletes the collector at any time in between.  Each  *)
(* child writes some output, which blocks while its pipe is full, closes   *)
(* the pipe and exits, or fails or is killed at any point.  The children   *)
(* are followed until the parent exits (VirusScan follows them further).   *)
(***************************************************************************)
EXTENDS Parallel

CONSTANT MaxWrites      \* bound: what one child writes

ASSUME ClientAssumption == MaxWrites \in Nat

VARIABLE todo           \* what each child still has to write

vars == <<parallelVars, todo>>

Init == ParallelInit /\ todo = [p \in Procs |-> 0]

\* A caller may insert a child as long as the table is not full: the test
\* collect_until_have_free_slot() makes.  Children that were not forked yet
\* are interchangeable: the next one is any of them.
Fork(p) ==
    /\ proc[p] = "none" /\ p = CHOOSE q \in Procs : proc[q] = "none"
    /\ running < max_pids
    /\ insert_new_pid_and_fd(p)
    /\ \E n \in 0 .. MaxWrites : todo' = [todo EXCEPT ![p] = n]

Collect == collect_one /\ UNCHANGED todo
CollectStep == collect_one_steps /\ UNCHANGED todo
Interrupted == WaitInterrupted /\ UNCHANGED todo

\* Without a signal to send, only an idle collector is deleted (as
\* inspect_virus() does): waiting for a child that is itself blocked on a
\* full pipe would never end.
Delete ==
    /\ \E kill_sig \in BOOLEAN : (kill_sig \/ running = 0) /\ delete_parallel(kill_sig)
    /\ UNCHANGED todo
DeleteStep == DeleteSlot /\ UNCHANGED todo

Write(p) == todo[p] > 0 /\ ChildWrite(p) /\ todo' = [todo EXCEPT ![p] = @ - 1]
Close(p) == todo[p] = 0 /\ ChildClose(p) /\ UNCHANGED todo
Exit(p) == todo[p] = 0 /\ ChildExit(p, "exit0") /\ UNCHANGED todo
\* A child that fails or is killed, at any point; to the collector it is
\* all the same.
Fail(p) == ChildExit(p, "failed") /\ UNCHANGED todo

Terminated == pc \in {"deleted", "exited"} /\ UNCHANGED vars

Next ==
    \/ \E p \in Procs : Fork(p)
    \/ Collect
    \/ CollectStep
    \/ Interrupted
    \/ Delete
    \/ DeleteStep
    \/ pc # "exited" /\ \E p \in Procs : Write(p) \/ Close(p) \/ Exit(p) \/ Fail(p)
    \/ Terminated

\* The parent runs on, and collects or deletes what it forked; a child that
\* is not blocked runs on.  Nothing is assumed of failures or resizes.
Fairness ==
    /\ WF_vars(Collect \/ Delete)
    /\ WF_vars(CollectStep)
    /\ WF_vars(DeleteStep)
    /\ \A p \in Procs : WF_vars(pc # "exited" /\ (Write(p) \/ Exit(p)))

Spec == Init /\ [][Next]_vars /\ Fairness

(***************************************************************************)
(* Properties.                                                             *)
(***************************************************************************)

\* Every variable holds a value of its type.
TypeOK ==
    /\ running \in Nat /\ ready_fds \in Nat
    /\ fd \in [Slots -> Procs \cup {NoProc}]
    /\ pid \in [Slots -> Procs \cup {NoProc}]
    /\ revents \in SUBSET Slots
    /\ output_len \in [Slots -> 0 .. max_len]
    /\ exit_status \in [Slots -> Statuses]
    /\ pc \in {"client", "poll", "scan", "wait", "kill", "delete", "deleted", "exited"}
    /\ slot \in Slots \cup {NoSlot}
    /\ chan \in [Procs -> 0 .. PipeCap]
    /\ wopen \in SUBSET Procs
    /\ proc \in [Procs -> {"none", "alive", "zombie", "reaped"}]
    /\ status \in [Procs -> Statuses]
    /\ winch \in 0 .. MaxWinch
    /\ written \in [Procs -> Nat]
    /\ todo \in [Procs -> 0 .. MaxWrites]

\* col->running counts the occupied slots: collect_one() returns NULL, and a
\* caller stops collecting, exactly when no child is left in the table.
RunningCount == running = Cardinality({i \in Slots : pid[i] # NoProc})

\* read() never blocks in collect_one(): a slot marked by an earlier poll()
\* has an open pipe with data or at its end, whatever was forked, read and
\* reaped since that poll().
ReadNeverBlocks ==
    pc \in {"client", "scan", "wait"} => \A i \in revents : Readable(i)

\* What a child wrote is in its slot or still in its pipe, in the slot the
\* child was given; the slot collect_one() returns holds all of it.
OutputExact ==
    pc # "exited" =>
        /\ \A i \in Slots : fd[i] # NoProc =>
              output_len[i] + chan[fd[i]] = written[fd[i]]
        /\ pc = "wait" =>
              output_len[slot] = written[pid[slot]] /\ pid[slot] \notin wopen

\* A child that was forked and not waited for is in exactly one slot of the
\* table, so none is ever lost or waited for twice; delete_parallel() leaves
\* none behind unless a signal interrupts it.
OneSlotPerChild ==
    pc \in {"client", "poll", "scan", "wait"} \/ (pc = "deleted" /\ winch = 0) =>
        \A p \in Procs :
            Cardinality({i \in Slots : pid[i] = p /\ pc # "deleted"})
                = IF proc[p] \in {"alive", "zombie"} THEN 1 ELSE 0

\* The collector gives up only when a child's output exceeds the limit, or
\* when waitpid() was interrupted: never for want of a slot.
ExitOnlyForCause ==
    pc = "exited" => winch > 0 \/ \E p \in Procs : written[p] > max_len

\* Every child that is forked ends and is waited for, by collect_one() or
\* by delete_parallel(), unless the parent has given up or the terminal was
\* resized while delete_parallel() waited.
EveryChildReaped ==
    \A p \in Procs :
        proc[p] \in {"alive", "zombie"} ~>
            proc[p] = "reaped" \/ pc = "exited" \/ (pc = "deleted" /\ winch > 0)
=============================================================================
