------------------------------ MODULE Parallel ------------------------------
(***************************************************************************)
(* The child-process collector of lib/parallel.c: a table of slots, each   *)
(* with the pid of a forked child, the read end of the pipe the child      *)
(* writes to, and the bytes read from it so far; and collect_one(), which  *)
(* polls all pipes, reads what is there, and returns a slot once its child *)
(* has closed its pipe and has been waited for.                            *)
(*                                                                         *)
(* Bytes are counted, not stored: a pipe is FIFO, so the output of a slot  *)
(* is the first output_len units of what its child wrote.  The kernel's    *)
(* part (pipes, poll, zombies) is modelled as parallel.c relies on it.     *)
(* This module has the collector's operations only; ParallelClient calls   *)
(* them in every order the interface allows, VirusScan as inspect_virus()  *)
(* does.                                                                   *)
(***************************************************************************)
EXTENDS Integers, FiniteSets

CONSTANTS
    max_pids,   \* slots in the table
    max_len,    \* limit on the output of one child (64 MiB in the code)
    BufSize,    \* what one read() returns at most (16 KiB in the code)
    PipeCap,    \* what a pipe holds before its writer blocks
    Procs,      \* the child processes that are ever forked
    NoProc,     \* a slot's pid 0, and its descriptor -1
    MaxWinch    \* bound: how often the terminal is resized

ASSUME ParallelAssumption ==
    /\ max_pids \in Nat \ {0}
    /\ max_len \in Nat
    /\ BufSize \in Nat \ {0}
    /\ PipeCap \in Nat \ {0}
    /\ IsFiniteSet(Procs)
    /\ NoProc \notin Procs
    /\ MaxWinch \in Nat

Slots == 0 .. max_pids - 1
NoSlot == -1

\* How a child ends: _exit(0), a non-zero exit, or a signal.
Statuses == {"exit0", "failed", "signal"}

VARIABLES
    \* struct parallel_t
    running, ready_fds, fd, revents, pid, output_len, exit_status,
    \* where the parent is: outside the collector, in one of its loops,
    \* done with it, or gone through errx
    pc,
    \* the slot that is handled, or that collect_one returned
    slot,
    \* the kernel: bytes in each pipe, pipes with an open write end,
    \* the life of each child and how it ended, window changes so far
    chan, wopen, proc, status, winch,
    \* history: bytes each child has written
    written

collector == <<running, ready_fds, fd, revents, pid, output_len, exit_status>>
kernel == <<chan, wopen, proc, status>>
parallelVars == <<collector, pc, slot, kernel, winch, written>>

Lesser(a, b) == IF a <= b THEN a ELSE b

\* Faulty variants, for the mutation checks: any slot counts as free; the
\* last slot is not looked at.
FreeAnySlot == Slots
FreeOffByOne == {i \in Slots \ {max_pids - 1} : pid[i] = NoProc}

Free == {i \in Slots : pid[i] = NoProc}

ParallelInit ==                                             \* new_parallel()
    /\ running = 0
    /\ ready_fds = 0
    /\ fd = [i \in Slots |-> NoProc]
    /\ revents = {}
    /\ pid = [i \in Slots |-> NoProc]
    /\ output_len = [i \in Slots |-> 0]
    /\ exit_status = [i \in Slots |-> "exit0"]
    /\ pc = "client"
    /\ slot = NoSlot
    /\ chan = [p \in Procs |-> 0]
    /\ wopen = {}
    /\ proc = [p \in Procs |-> "none"]
    /\ status = [p \in Procs |-> "exit0"]
    /\ winch = 0
    /\ written = [p \in Procs |-> 0]

(***************************************************************************)
(* The parent.                                                             *)
(***************************************************************************)

\* pipe(), fork() and insert_new_pid_and_fd().  The parent closes its copy
\* of the write end before it forks again: only the child holds one.
insert_new_pid_and_fd(p) ==
    /\ pc = "client" /\ proc[p] = "none"
    /\ proc' = [proc EXCEPT ![p] = "alive"]
    /\ wopen' = wopen \cup {p}
    /\ IF Free = {}
       THEN pc' = "exited" /\ UNCHANGED <<running, fd, pid, output_len>>  \* errx()
       ELSE /\ running' = running + 1
            /\ \E i \in Free :                            \* the first one
                  /\ \A j \in Free : i <= j
                  /\ fd' = [fd EXCEPT ![i] = p]
                  /\ pid' = [pid EXCEPT ![i] = p]
                  /\ output_len' = [output_len EXCEPT ![i] = 0]
            /\ UNCHANGED pc
    /\ UNCHANGED <<ready_fds, revents, exit_status, slot, chan, status, winch, written>>

\* collect_one() is called with children running; a result of an earlier
\* poll() that was not used up is used before poll() is called again.
collect_one ==
    /\ pc = "client" /\ running > 0
    /\ pc' = IF ready_fds = 0 THEN "poll" ELSE "scan"
    /\ slot' = NoSlot
    /\ UNCHANGED <<collector, kernel, winch, written>>

Readable(i) ==
    /\ fd[i] # NoProc
    /\ chan[fd[i]] > 0 \/ fd[i] \notin wopen

\* poll() without a timeout returns once a pipe has data or is at its end.
\* A window change only makes it return EINTR, and the code calls it again.
Poll ==
    /\ pc = "poll"
    /\ \E i \in Slots : Readable(i)
    /\ revents' = {i \in Slots : Readable(i)}
    /\ ready_fds' = Cardinality({i \in Slots : Readable(i)})
    /\ pc' = "scan"
    /\ UNCHANGED <<running, fd, pid, output_len, exit_status, slot, kernel, winch, written>>

\* Faulty variant: the revents of the slot are not cleared.
HandleAgain(i) ==
    /\ pc = "scan" /\ ready_fds # 0
    /\ i \in revents /\ \A j \in revents : i <= j
    /\ ready_fds' = ready_fds - 1
    /\ UNCHANGED revents

\* The slots are looked at in order, and a slot's revents are cleared
\* before anything else is done with it.
Handle(i) ==
    /\ pc = "scan" /\ ready_fds # 0
    /\ i \in revents /\ \A j \in revents : i <= j
    /\ revents' = revents \ {i}
    /\ ready_fds' = ready_fds - 1

\* Faulty variant: the limit on the output is not checked.
ReadDataUnlimited(i) ==
    /\ Handle(i) /\ chan[fd[i]] > 0
    /\ LET r == Lesser(chan[fd[i]], BufSize) IN
          /\ chan' = [chan EXCEPT ![fd[i]] = @ - r]
          /\ output_len' = [output_len EXCEPT ![i] = @ + r]
    /\ UNCHANGED <<running, fd, pid, exit_status, pc, slot, wopen, proc, status, winch, written>>

ReadData(i) ==
    /\ Handle(i) /\ chan[fd[i]] > 0
    /\ LET r == Lesser(chan[fd[i]], BufSize)
           newsz == output_len[i] + r IN
          /\ chan' = [chan EXCEPT ![fd[i]] = @ - r]
          /\ IF newsz > max_len
             THEN pc' = "exited" /\ UNCHANGED output_len          \* errx()
             ELSE output_len' = [output_len EXCEPT ![i] = newsz] /\ UNCHANGED pc
    /\ UNCHANGED <<running, fd, pid, exit_status, slot, wopen, proc, status, winch, written>>

\* All slots were looked at and none was at its end: back to poll().
ScanDone ==
    /\ pc = "scan" /\ (ready_fds = 0 \/ revents = {})
    /\ ready_fds' = 0
    /\ pc' = "poll"
    /\ UNCHANGED <<running, fd, revents, pid, output_len, exit_status, slot, kernel, winch, written>>

\* Faulty variant: a hang-up is taken for the end while data is left.
ReadEofEarly(i) ==
    /\ Handle(i) /\ fd[i] \notin wopen
    /\ fd' = [fd EXCEPT ![i] = NoProc]
    /\ slot' = i
    /\ pc' = "wait"
    /\ UNCHANGED <<running, pid, output_len, exit_status, kernel, winch, written>>

\* Faulty variant: the end of a pipe is taken for an empty read.
ReadEofIgnored(i) ==
    /\ Handle(i) /\ chan[fd[i]] = 0 /\ fd[i] \notin wopen
    /\ UNCHANGED <<running, fd, pid, output_len, exit_status, pc, slot, kernel, winch, written>>

ReadEof(i) ==
    /\ Handle(i) /\ chan[fd[i]] = 0 /\ fd[i] \notin wopen
    /\ fd' = [fd EXCEPT ![i] = NoProc]
    /\ slot' = i
    /\ pc' = "wait"
    /\ UNCHANGED <<running, pid, output_len, exit_status, kernel, winch, written>>

\* waitpid() returns; collect_one() returns the slot to its caller.
Wait ==
    /\ pc = "wait" /\ proc[pid[slot]] = "zombie"
    /\ exit_status' = [exit_status EXCEPT ![slot] = status[pid[slot]]]
    /\ proc' = [proc EXCEPT ![pid[slot]] = "reaped"]
    /\ running' = running - 1
    /\ pid' = [pid EXCEPT ![slot] = NoProc]
    /\ pc' = "client"
    /\ UNCHANGED <<ready_fds, fd, revents, output_len, slot, chan, wopen, status, winch, written>>

\* The SIGWINCH handler is installed without SA_RESTART: a waitpid() that
\* blocks returns EINTR, which collect_one() takes for an error.
WaitInterrupted ==
    /\ pc = "wait" /\ proc[pid[slot]] # "zombie"
    /\ winch < MaxWinch
    /\ winch' = winch + 1
    /\ pc' = "exited"
    /\ UNCHANGED <<collector, slot, kernel, written>>

collect_one_steps ==
    \/ Poll
    \/ ScanDone
    \/ \E i \in Slots : ReadData(i) \/ ReadEof(i)
    \/ Wait

\* delete_parallel() goes through the table; with kill_sig it kills a
\* child that was not collected, without it it only waits for it.  A window
\* change interrupts that waitpid() too, and its result is not looked at:
\* the child is left behind.
delete_parallel(kill_sig) ==
    /\ pc = "client"
    /\ pc' = IF kill_sig THEN "kill" ELSE "delete"
    /\ slot' = 0
    /\ UNCHANGED <<collector, kernel, winch, written>>

DeleteSlot ==
    LET p == pid[slot]
        Alive == {q \in Procs : proc[q] = "alive"} IN
    /\ pc \in {"kill", "delete"}
    /\ \/ /\ p \notin Alive \/ pc = "kill"
          /\ proc' = [q \in Procs |-> IF q = p THEN "reaped" ELSE proc[q]]
          /\ UNCHANGED winch
       \/ /\ p \in Alive /\ winch < MaxWinch
          /\ proc' = IF pc = "kill" THEN [proc EXCEPT ![p] = "zombie"] ELSE proc
          /\ winch' = winch + 1
    /\ status' = [q \in Procs |-> IF pc = "kill" /\ q \in Alive \cap {p} THEN "signal" ELSE status[q]]
    /\ wopen' = IF pc = "kill" THEN wopen \ {p} ELSE wopen
    /\ fd' = [fd EXCEPT ![slot] = NoProc]
    /\ IF slot + 1 \in Slots
       THEN slot' = slot + 1 /\ UNCHANGED pc
       ELSE pc' = "deleted" /\ UNCHANGED slot
    /\ UNCHANGED <<running, ready_fds, revents, pid, output_len, exit_status, chan, written>>

(***************************************************************************)
(* A child.                                                                *)
(***************************************************************************)

\* write() of one unit; it blocks while the pipe is full.
ChildWrite(p) ==
    /\ proc[p] = "alive" /\ p \in wopen
    /\ chan[p] < PipeCap
    /\ chan' = [chan EXCEPT ![p] = @ + 1]
    /\ written' = [written EXCEPT ![p] = @ + 1]
    /\ UNCHANGED <<collector, pc, slot, wopen, proc, status, winch>>

ChildClose(p) ==
    /\ proc[p] = "alive" /\ p \in wopen
    /\ wopen' = wopen \ {p}
    /\ UNCHANGED <<collector, pc, slot, chan, proc, status, winch, written>>

\* A child may end without having closed its pipe; the kernel closes it.
ChildExit(p, s) ==
    /\ proc[p] = "alive"
    /\ proc' = [proc EXCEPT ![p] = "zombie"]
    /\ status' = [status EXCEPT ![p] = s]
    /\ wopen' = wopen \ {p}
    /\ UNCHANGED <<collector, pc, slot, chan, winch, written>>
=============================================================================
