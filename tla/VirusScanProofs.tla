-------------------------- MODULE VirusScanProofs --------------------------
(***************************************************************************)
(* Proofs that the virus inspection keeps its promise, for every number of *)
(* children and files, every cap on the reports, every pipe and read size, *)
(* and whatever order the children end in.  What the collector guarantees  *)
(* its clients is taken from ParallelProofs.                               *)
(***************************************************************************)
EXTENDS VirusScan, FiniteSetTheorems, TLAPS

Collector == INSTANCE ParallelProofs WITH todo <- pending, MaxWrites <- Fields

(***************************************************************************)
(* The inductive invariant.                                                *)
(***************************************************************************)

\* The position of file f among the children: who scans it.
Position(f) == (f - 1) % max_pids
Mine(c, f) == Position(f) = c /\ kind[f] # "irregular"

ReportedBy(c) == {f \in Files : \E n \in 1 .. Len(reports[c]) : reports[c][n] = f}

\* The parent has added what child c reported.
Consumed(c) == proc[c] = "reaped" /\ ~(stage = "collect" /\ slot = c)

VTypeOK ==
    /\ kind \in [Files -> Kinds]
    /\ stage \in {"setup", "fork", "collect", "delete", "returned", "crashed"}
    /\ child_no \in 0 .. max_pids
    /\ result \in BOOLEAN /\ info \in BOOLEAN /\ ok \in BOOLEAN
    /\ added \in [Files -> Nat]
    /\ todo \in [Procs -> 1 .. NFiles + 1]
    /\ file_no \in [Procs -> -1 .. max_pids - 1]
    /\ virus_countdown \in [Procs -> 0 .. MaxReports]
    /\ pending \in [Procs -> 0 .. Fields]
    /\ reports \in [Procs -> Seq(Files)]
    /\ tries \in [Procs -> 0 .. MaxTries]
    /\ spoilt \in [Procs -> Nat]
    /\ four \in Texts

\* Where the parent is in the collector, in each stage.
StagePosition ==
    /\ stage \in {"setup", "fork"} => pc \in {"client", "exited"} /\ slot = NoSlot
    /\ stage = "setup" => child_no = 0 /\ ~info /\ result
    /\ stage \in {"fork", "collect", "delete"} => info
    /\ stage = "collect" => pc \in {"client", "poll", "scan", "wait", "exited"}
    /\ pc \in {"poll", "scan"} => slot = NoSlot
    /\ stage = "delete" => pc \in {"delete", "deleted"}
    /\ stage = "crashed" => pc = "exited"
    /\ stage \in {"collect", "delete"} => child_no = max_pids
    /\ stage = "returned" =>
          IF info THEN pc = "deleted" /\ child_no = max_pids /\ ok = result
          ELSE pc = "client" /\ child_no = 0

\* Child k is in slot k or nowhere, and the children are forked in order.
OwnSlots ==
    /\ \A i \in Slots : pid[i] \in {NoProc, i}
    /\ stage \in {"setup", "fork"} =>
          \A i \in Slots : pid[i] = IF i < child_no THEN i ELSE NoProc
    /\ \A c \in Procs : proc[c] = "none" <=> child_no <= c
    /\ stage \in {"delete", "returned"} => \A i \in Slots : pid[i] = NoProc
    /\ stage \in {"delete", "returned"} => \A c \in Procs : proc[c] \in {"none", "reaped"}

\* What the parent knows of the child whose slot collect_one() returned.
Returned ==
    stage = "collect" /\ pc = "client" /\ slot # NoSlot =>
        /\ proc[slot] = "reaped"
        /\ exit_status[slot] = status[slot]
        /\ output_len[slot] = written[slot]

ConsumedSucceeded == \A c \in Procs : Consumed(c) => status[c] = "exit0"

\* The counters of a child agree with how far it has come.
Counters ==
    \A c \in Procs :
        /\ file_no[c] = IF todo[c] = 1 THEN -1 ELSE Position(todo[c] - 1)
        /\ virus_countdown[c] = MaxReports - Len(reports[c])
        /\ pending[c] > 0 => Len(reports[c]) > 0

\* A child has written the fields of its triples, unless one was spoilt;
\* each that it wrote twice has cost a try.
Sent ==
    \A c \in Procs :
        /\ spoilt[c] = 0 => written[c] = Fields * Len(reports[c]) - pending[c]
        /\ written[c] <= Fields * Len(reports[c]) - pending[c] + tries[c]

\* A field was sent twice or lost only for one of the two causes.
SpoiltForCause ==
    \A c \in Procs :
        spoilt[c] # 0 => winch > 0 \/ \E f \in Files : Infected(f) /\ four[f] # {}

\* A child reports infected files of its own, each once, ...
ReportsOwn ==
    \A c \in Procs : \A n \in 1 .. Len(reports[c]) :
        /\ reports[c][n] < todo[c] /\ Mine(c, reports[c][n]) /\ Infected(reports[c][n])
        /\ \A m \in 1 .. Len(reports[c]) : reports[c][m] = reports[c][n] => m = n

\* ... and leaves none out on its way unless it may report no more.
ReportsAll ==
    \A c \in Procs, f \in Files : f < todo[c] /\ Mine(c, f) =>
        /\ kind[f] # "error"
        /\ Infected(f) => f \in ReportedBy(c) \/ virus_countdown[c] = 0

\* It closes its pipe, and exits with success, only when it is done.
DoneFirst ==
    \A c \in Procs :
        /\ \/ proc[c] = "alive" /\ c \notin wopen
           \/ proc[c] \in {"zombie", "reaped"} /\ status[c] = "exit0"
           => todo[c] \notin Files /\ pending[c] = 0
        /\ proc[c] \in {"none", "alive"} => status[c] = "exit0"

\* A result was added for a file that was reported, and is missing only if
\* the output was spoilt.
AddedMatch ==
    \A f \in Files :
        \/ /\ added[f] = 1 /\ kind[f] # "SKIP"
           /\ \E c \in Procs : Consumed(c) /\ f \in ReportedBy(c)
        \/ /\ added[f] = 0
           /\ kind[f] # "SKIP" =>
                 \A c \in Procs : Consumed(c) /\ f \in ReportedBy(c) => spoilt[c] # 0

ResultMatch == info => (result <=> \A f \in Files : kind[f] = "BAD" => added[f] = 0)

VInv ==
    /\ Collector!CInv
    /\ VTypeOK
    /\ StagePosition
    /\ OwnSlots
    /\ Returned
    /\ ConsumedSucceeded
    /\ Counters
    /\ Sent
    /\ SpoiltForCause
    /\ ReportsOwn
    /\ ReportsAll
    /\ DoneFirst
    /\ AddedMatch
    /\ ResultMatch
    /\ AbortOnlyForCause

-----------------------------------------------------------------------------
(* The collector's lemmas, for the collector as it is used here.            *)

LEMMA SameSets ==
    ASSUME NEW S
    PROVE  /\ Collector!IsFiniteSet(S) <=> IsFiniteSet(S)
           /\ Collector!Cardinality(S) = Cardinality(S)
BY DEF Collector!IsFiniteSet, IsFiniteSet, Collector!Cardinality, Cardinality

LEMMA SameAssumptions ==
    ParallelAssumption /\ Collector!ParallelAssumption /\ Collector!ClientAssumption
BY ParallelAssumption, SameSets DEF Collector!ParallelAssumption, Collector!ClientAssumption,
   Fields

LEMMA SameSlots ==
    /\ Collector!Slots = Slots /\ Collector!NoSlot = NoSlot /\ Collector!Statuses = Statuses
    /\ Collector!Free = Free
BY DEF Collector!Slots, Slots, Collector!NoSlot, NoSlot, Collector!Statuses, Statuses,
   Collector!Free, Free

LEMMA SameHandle ==
    ASSUME NEW i
    PROVE  /\ Readable(i) <=> Collector!Readable(i)
           /\ Handle(i) <=> Collector!Handle(i)
BY DEF Readable, Collector!Readable, Handle, Collector!Handle

LEMMA CollectorInit == ParallelInit => Collector!CInv
<1>1. ParallelInit => Collector!ParallelInit
  BY SameSlots DEF ParallelInit, Collector!ParallelInit
<1> QED
  BY <1>1, Collector!InitCInv, SameAssumptions

LEMMA CollectorFork ==
    ASSUME Collector!CInv, NEW p \in Procs, insert_new_pid_and_fd(p), Free # {}
    PROVE  Collector!CInv' /\ pc' = "client"
<1>1. Collector!insert_new_pid_and_fd(p) /\ Collector!Free # {}
  BY SameSlots DEF insert_new_pid_and_fd, Collector!insert_new_pid_and_fd
<1> QED
  BY <1>1, Collector!ForkStep, SameAssumptions

LEMMA CollectorCollect ==
    ASSUME Collector!CInv,
           collect_one \/ collect_one_steps \/ WaitInterrupted \/ delete_parallel(FALSE)
               \/ DeleteSlot \/ UNCHANGED parallelVars
    PROVE  Collector!CInv'
<1> USE SameAssumptions
<1>1. CASE collect_one
  <2>1. Collector!collect_one
    BY <1>1, SameSlots DEF collect_one, Collector!collect_one, collector, kernel,
       Collector!collector, Collector!kernel
  <2> QED
    BY <2>1, Collector!PositionSteps
<1>2. CASE collect_one_steps
  <2>1. Poll => Collector!Poll
    BY SameSlots, SameHandle, SameSets DEF Poll, Collector!Poll, kernel, Collector!kernel
  <2>2. ScanDone => Collector!ScanDone
    BY DEF ScanDone, Collector!ScanDone, kernel, Collector!kernel
  <2>3. ASSUME NEW i \in Slots PROVE ReadData(i) => Collector!ReadData(i)
    BY SameHandle DEF ReadData, Collector!ReadData, Lesser, Collector!Lesser
  <2>4. ASSUME NEW i \in Slots PROVE ReadEof(i) => Collector!ReadEof(i)
    BY SameHandle DEF ReadEof, Collector!ReadEof, kernel, Collector!kernel
  <2>5. Wait => Collector!Wait
    BY DEF Wait, Collector!Wait
  <2>6. Collector!collect_one_steps
    BY <1>2, <2>1, <2>2, <2>3, <2>4, <2>5, SameSlots
    DEF collect_one_steps, Collector!collect_one_steps
  <2> QED
    BY <2>6, Collector!CollectSteps
<1>3. CASE WaitInterrupted
  <2>1. Collector!WaitInterrupted
    BY <1>3 DEF WaitInterrupted, Collector!WaitInterrupted, collector, kernel,
       Collector!collector, Collector!kernel
  <2> QED
    BY <2>1, Collector!PositionSteps
<1>4. CASE delete_parallel(FALSE)
  <2>1. Collector!delete_parallel(FALSE)
    BY <1>4 DEF delete_parallel, Collector!delete_parallel, collector, kernel,
       Collector!collector, Collector!kernel
  <2> QED
    BY <2>1, Collector!PositionSteps
<1>5. CASE DeleteSlot
  <2>1. Collector!DeleteSlot
    BY <1>5, SameSlots DEF DeleteSlot, Collector!DeleteSlot
  <2> QED
    BY <2>1, Collector!DeleteStepStep
<1>6. CASE UNCHANGED parallelVars
  <2>1. UNCHANGED Collector!parallelVars
    BY <1>6 DEF parallelVars, Collector!parallelVars, collector, kernel,
       Collector!collector, Collector!kernel
  <2> QED
    BY <2>1, Collector!Stutter
<1> QED
  BY <1>1, <1>2, <1>3, <1>4, <1>5, <1>6

LEMMA CollectorLeaves ==
    ASSUME Collector!CInv, UNCHANGED <<collector, kernel, winch, written>>,
           \/ pc' = "exited" /\ slot' = slot
           \/ pc = "client" /\ pc' = pc /\ slot' = NoSlot
    PROVE  Collector!CInv'
BY SameAssumptions, SameSlots, Collector!GiveUpStep, Collector!LetGoStep
DEF collector, kernel, Collector!collector, Collector!kernel

LEMMA CollectorReads ==
    ASSUME Collector!CInv, NEW i \in Slots, ReadData(i)
    PROVE  pc' = pc \/ (fd[i] \in Procs /\ written[fd[i]] > max_len)
<1>1. Collector!ReadData(i)
  BY SameHandle DEF ReadData, Collector!ReadData, Lesser, Collector!Lesser
<1> QED
  BY <1>1, SameSlots, Collector!ReadDataExits, SameAssumptions

LEMMA CollectorChild ==
    ASSUME Collector!CInv, NEW c \in Procs, NEW s \in Statuses,
           ChildWrite(c) \/ ChildClose(c) \/ ChildExit(c, s)
    PROVE  Collector!CInv'
<1> USE SameAssumptions
<1>1. CASE ChildWrite(c)
  <2>1. Collector!ChildWrite(c)
    BY <1>1 DEF ChildWrite, Collector!ChildWrite, collector, Collector!collector
  <2> QED
    BY <2>1, Collector!WriteStep
<1>2. CASE ChildClose(c)
  <2>1. Collector!ChildClose(c)
    BY <1>2 DEF ChildClose, Collector!ChildClose, collector, Collector!collector
  <2> QED
    BY <2>1, Collector!CloseStep
<1>3. CASE ChildExit(c, s)
  <2>1. Collector!ChildExit(c, s) /\ s \in Collector!Statuses
    BY <1>3, SameSlots DEF ChildExit, Collector!ChildExit, collector, Collector!collector
  <2> QED
    BY <2>1, Collector!ExitStep
<1> QED
  BY <1>1, <1>2, <1>3

LEMMA CollectorResize ==
    ASSUME Collector!CInv, winch < MaxWinch, winch' = winch + 1,
           UNCHANGED <<collector, pc, slot, kernel, written>>
    PROVE  Collector!CInv'
BY SameAssumptions, Collector!ResizeStep
DEF collector, kernel, Collector!collector, Collector!kernel

(* What the virus inspection's own proofs need of it, in this module's      *)
(* terms.                                                                   *)
LEMMA CollectorFacts ==
    ASSUME Collector!CInv
    PROVE  /\ running \in Nat /\ running = Cardinality({i \in Slots : pid[i] # NoProc})
           /\ fd \in [Slots -> Procs \cup {NoProc}]
           /\ pid \in [Slots -> Procs \cup {NoProc}]
           /\ revents \in SUBSET Slots
           /\ output_len \in [Slots -> 0 .. max_len]
           /\ exit_status \in [Slots -> Statuses]
           /\ slot \in Slots \cup {NoSlot}
           /\ wopen \in SUBSET Procs
           /\ proc \in [Procs -> {"none", "alive", "zombie", "reaped"}]
           /\ status \in [Procs -> Statuses]
           /\ winch \in Nat
           /\ written \in [Procs -> Nat]
           /\ \A i \in Slots : fd[i] # NoProc => pid[i] = fd[i]
           /\ \A c \in wopen : proc[c] = "alive"
           /\ \A c \in Procs : proc[c] = "none" => written[c] = 0
BY SameSlots, SameSets, SameAssumptions
DEF Collector!CInv, Collector!ParallelTypeOK, Collector!RunningCount, Collector!SlotsMatch,
    Collector!WritersAlive, Collector!Unforked

LEMMA CollectorWaits ==
    ASSUME Collector!CInv, pc = "wait"
    PROVE  /\ slot \in Slots /\ pid[slot] \in Procs
           /\ output_len[slot] = written[pid[slot]] /\ pid[slot] \notin wopen
BY SameSlots, SameAssumptions
DEF Collector!CInv, Collector!ParallelTypeOK, Collector!Waiting

LEMMA CollectorHolds ==
    ASSUME Collector!CInv, pc \in {"client", "poll", "scan", "wait"}, NEW c \in Procs,
           proc[c] \in {"alive", "zombie"}
    PROVE  \E i \in Slots : pid[i] = c
BY SameSlots DEF Collector!CInv, Collector!NoneLost, Collector!Collecting, Collector!Unreaped

LEMMA CollectorPolled ==
    ASSUME Collector!CInv, pc = "scan", NEW i \in revents
    PROVE  i \in Slots /\ pid[i] \in Procs /\ proc[pid[i]] \in {"alive", "zombie"}
<1>1. i \in Slots /\ Readable(i) /\ fd[i] # NoProc
  BY SameSlots, SameHandle DEF Collector!CInv, Collector!ParallelTypeOK,
     Collector!PolledReadable, Collector!Collecting, Readable
<1> QED
  BY <1>1, CollectorFacts, SameSlots
  DEF Collector!CInv, Collector!PidsUnreaped, Collector!Collecting, Collector!Unreaped

-----------------------------------------------------------------------------
(* The cyclic counter of a child is the position of the file it comes to.   *)

LEMMA Multiples ==
    ASSUME NEW m \in Nat \ {0}, NEW a \in Nat, NEW b \in Nat, a < b
    PROVE  m * a + m <= m * b
<1>1. m * (b - a - 1) >= 0
  OBVIOUS
<1>2. m * (b - a - 1) = m * b - m * a - m
  OBVIOUS
<1> QED
  BY <1>1, <1>2

LEMMA RemainderUnique ==
    ASSUME NEW m \in Nat \ {0}, NEW q \in Nat, NEW r \in 0 .. m - 1, NEW n \in Nat,
           n = m * q + r
    PROVE  n % m = r
<1> DEFINE a == n \div m
           b == n % m
<1>1. a \in Nat /\ b \in 0 .. m - 1 /\ n = m * a + b
  OBVIOUS
<1> HIDE DEF a, b
<1>2. ~(q < a) /\ ~(a < q)
  BY <1>1, Multiples
<1>3. q = a
  BY <1>1, <1>2
<1> QED
  BY <1>1, <1>3 DEF b

LEMMA NextPosition ==
    ASSUME NEW t \in Files
    PROVE  /\ Position(t) \in Slots
           /\ Cyclic((IF t = 1 THEN -1 ELSE Position(t - 1)) + 1) = Position(t)
<1> USE ParallelAssumption, ScanAssumption DEF Files, Slots, Cyclic
<1>1. Position(t) \in Slots
  BY DEF Position
<1>2. CASE t = 1
  <2>1. Position(1) = 0
    BY RemainderUnique DEF Position
  <2> QED
    BY <1>1, <1>2, <2>1
<1>3. CASE t # 1
  <2> DEFINE q == (t - 2) \div max_pids
             r == (t - 2) % max_pids
  <2>1. q \in Nat /\ r \in 0 .. max_pids - 1 /\ t - 2 = max_pids * q + r /\ Position(t - 1) = r
    BY <1>3 DEF Position
  <2> HIDE DEF q, r
  <2>2. CASE r + 1 = max_pids
    <3>1. t - 1 = max_pids * (q + 1) + 0
      BY <2>1, <2>2
    <3>2. q + 1 \in Nat /\ 0 \in 0 .. max_pids - 1 /\ t - 1 \in Nat
      BY <2>1
    <3>3. (t - 1) % max_pids = 0
      <4> HIDE DEF Files, Slots, Cyclic
      <4> DEFINE p == q + 1
                 n == t - 1
      <4>1. p \in Nat /\ n \in Nat /\ 0 \in 0 .. max_pids - 1 /\ n = max_pids * p + 0
        BY <3>1, <3>2
      <4> HIDE DEF p, n
      <4>2. n % max_pids = 0
        BY <4>1, RemainderUnique
      <4> QED
        BY <4>2 DEF n
    <3> QED
      BY <1>1, <1>3, <2>1, <2>2, <3>3 DEF Position
  <2>3. CASE r + 1 # max_pids
    <3>1. t - 1 = max_pids * q + (r + 1)
      BY <2>1
    <3>2. Position(t) = r + 1
      BY <2>1, <2>3, <3>1, RemainderUnique DEF Position
    <3> QED
      BY <1>1, <1>3, <2>1, <2>3, <3>2
  <2> QED
    BY <2>2, <2>3
<1> QED
  BY <1>1, <1>2, <1>3

-----------------------------------------------------------------------------
LEMMA InitVInv == Init => VInv
<1> SUFFICES ASSUME Init PROVE VInv
  OBVIOUS
<1> USE ParallelAssumption, ScanAssumption DEF Init
<1>1. Collector!CInv
  BY CollectorInit
<1> USE DEF ParallelInit
<1>2. VTypeOK
  <2>1. kind \in [Files -> Kinds]
    BY Zenon
  <2>2. <<>> \in Seq(Files)
    OBVIOUS
  <2>3. 1 \in 1 .. NFiles + 1 /\ -1 \in -1 .. max_pids - 1 /\ 0 \in 0 .. Fields
    BY DEF Fields
  <2>4. child_no \in 0 .. max_pids /\ MaxReports \in 0 .. MaxReports
    OBVIOUS
  <2>5. /\ todo \in [Procs -> 1 .. NFiles + 1]
        /\ file_no \in [Procs -> -1 .. max_pids - 1]
        /\ virus_countdown \in [Procs -> 0 .. MaxReports]
        /\ pending \in [Procs -> 0 .. Fields]
        /\ reports \in [Procs -> Seq(Files)]
        /\ added \in [Files -> Nat]
        /\ tries \in [Procs -> 0 .. MaxTries]
        /\ spoilt \in [Procs -> Nat]
        /\ four \in Texts
    BY <2>2, <2>3, <2>4
  <2> QED
    BY <2>1, <2>4, <2>5 DEF VTypeOK
<1>3. StagePosition
  BY DEF StagePosition
<1>4. OwnSlots
  BY DEF OwnSlots, Slots
<1>5. Returned /\ ConsumedSucceeded /\ DoneFirst
  BY DEF Returned, ConsumedSucceeded, DoneFirst, Consumed
<1>6. Counters /\ Sent /\ SpoiltForCause /\ ReportsOwn
  BY DEF Counters, Sent, SpoiltForCause, ReportsOwn, Fields
<1>7. ReportsAll
  BY DEF ReportsAll, Files
<1>8. AddedMatch /\ ResultMatch /\ AbortOnlyForCause
  BY DEF AddedMatch, ResultMatch, AbortOnlyForCause, Consumed
<1> QED
  BY <1>1, <1>2, <1>3, <1>4, <1>5, <1>6, <1>7, <1>8 DEF VInv

(* Nothing in a child changes, and none comes to its end.                   *)
LEMMA ChildrenStay ==
    ASSUME VInv, UNCHANGED <<kind, children, written>>,
           \A c \in Procs : \/ proc'[c] = "alive" /\ c \notin wopen'
                            \/ proc'[c] \in {"zombie", "reaped"} /\ status'[c] = "exit0"
                            => todo[c] \notin Files /\ pending[c] = 0,
           \A c \in Procs : proc'[c] \in {"none", "alive"} => status'[c] = "exit0",
           winch > 0 => winch' > 0
    PROVE  Counters' /\ Sent' /\ SpoiltForCause' /\ ReportsOwn' /\ ReportsAll' /\ DoneFirst'
<1> USE DEF children
<1>1. Counters' /\ ReportsOwn'
  BY DEF VInv, Counters, ReportsOwn, Position, Mine, Infected
<1>4. Sent'
  BY DEF VInv, Sent
<1>5. SpoiltForCause'
  BY DEF VInv, SpoiltForCause, Infected
<1>2. ReportsAll'
  BY DEF VInv, ReportsAll, ReportedBy, Position, Mine, Infected
<1>3. DoneFirst'
  BY DEF DoneFirst
<1> QED
  BY <1>1, <1>2, <1>3, <1>4, <1>5

(* The books of the parent are not touched.                                 *)
LEMMA BooksStay ==
    ASSUME VInv, UNCHANGED <<kind, added, result, info, reports, spoilt>>,
           \A c \in Procs : Consumed(c)' <=> Consumed(c),
           \A c \in Procs : Consumed(c) => status'[c] = status[c]
    PROVE  AddedMatch' /\ ResultMatch' /\ ConsumedSucceeded'
<1>1. \A c \in Procs : ReportedBy(c)' = ReportedBy(c)
  BY DEF ReportedBy
<1>2. AddedMatch'
  BY <1>1 DEF VInv, AddedMatch
<1>3. ResultMatch' /\ ConsumedSucceeded'
  BY DEF VInv, ResultMatch, ConsumedSucceeded
<1> QED
  BY <1>2, <1>3

(* The parent sets up, gives up, or goes from one stage to the next.        *)
LEMMA ParentSteps ==
    ASSUME VInv,
           Setup \/ SetupReturnsFalse \/ ParentFails \/ ForkedAll \/ CollectOne
               \/ Interrupted \/ ChildHasFailed
    PROVE  VInv'
<1> USE ParallelAssumption, ScanAssumption DEF parallelVars, collector, kernel, parent
<1>1. Collector!CInv'
  <2>1. Collector!CInv
    BY DEF VInv
  <2>2. CASE Setup \/ SetupReturnsFalse \/ ForkedAll
    BY <2>1, <2>2, CollectorCollect DEF Setup, SetupReturnsFalse, ForkedAll
  <2>3. CASE CollectOne \/ Interrupted
    BY <2>1, <2>3, CollectorCollect DEF CollectOne, Interrupted
  <2>4. CASE ParentFails \/ ChildHasFailed
    BY <2>1, <2>4, CollectorLeaves DEF ParentFails, ChildHasFailed
  <2> QED
    BY <2>2, <2>3, <2>4
<1>2. /\ UNCHANGED <<kind, children, written, proc, status, wopen, pid, exit_status, output_len>>
      /\ UNCHANGED <<child_no, added>>
  BY DEF Setup, SetupReturnsFalse, ParentFails, ForkedAll, CollectOne, collect_one,
         Interrupted, WaitInterrupted, ChildHasFailed
<1>3. Counters' /\ Sent' /\ SpoiltForCause' /\ ReportsOwn' /\ ReportsAll' /\ DoneFirst'
  <2>1. winch > 0 => winch' > 0
    BY CollectorFacts DEF VInv, Setup, SetupReturnsFalse, ParentFails, ForkedAll, CollectOne,
       collect_one, Interrupted, WaitInterrupted, ChildHasFailed
  <2> QED
    BY <1>2, <2>1, ChildrenStay DEF VInv, DoneFirst, children
<1>4. VTypeOK'
  BY <1>2 DEF VInv, VTypeOK, children, Setup, SetupReturnsFalse, ParentFails, ForkedAll,
     CollectOne, Interrupted, ChildHasFailed
<1>5. \A c \in Procs : Consumed(c)' <=> Consumed(c)
  BY <1>2 DEF VInv, StagePosition, Consumed, Setup, SetupReturnsFalse, ParentFails, ForkedAll,
     CollectOne, collect_one, Interrupted, WaitInterrupted, ChildHasFailed, NoSlot, Slots
<1>6. AddedMatch' /\ ConsumedSucceeded'
  <2>1. \A c \in Procs : ReportedBy(c)' = ReportedBy(c)
    BY <1>2 DEF ReportedBy, children
  <2> QED
    BY <1>2, <1>5, <2>1 DEF VInv, AddedMatch, ConsumedSucceeded, children
<1>7. ResultMatch'
  <2>1. CASE Setup
    <3>1. \A c \in Procs : ~Consumed(c)
      BY <2>1 DEF Setup, VInv, StagePosition, OwnSlots, Consumed, Slots
    <3>2. result' /\ \A f \in Files : added[f] = 0
      BY <2>1, <3>1 DEF Setup, VInv, StagePosition, AddedMatch
    <3> QED
      BY <1>2, <3>2 DEF ResultMatch
  <2>2. CASE SetupReturnsFalse
    BY <2>2 DEF SetupReturnsFalse, VInv, StagePosition, ResultMatch
  <2> QED
    BY <1>2, <2>1, <2>2 DEF VInv, ResultMatch, ParentFails, ForkedAll, CollectOne, Interrupted,
       ChildHasFailed
<1>8. StagePosition'
  BY <1>2 DEF VInv, StagePosition, Setup, SetupReturnsFalse, ParentFails, ForkedAll,
     CollectOne, collect_one, Interrupted, WaitInterrupted, ChildHasFailed
<1>9. OwnSlots'
  <2>1. CASE SetupReturnsFalse
    <3>1. child_no = 0 /\ stage = "setup"
      BY <2>1 DEF SetupReturnsFalse, VInv, StagePosition
    <3>2. \A i \in Slots : 0 <= i /\ ~(i < 0)
      BY DEF Slots
    <3>3. stage' = "returned"
      BY <2>1 DEF SetupReturnsFalse
    <3> QED
      BY <1>2, <3>1, <3>2, <3>3 DEF VInv, OwnSlots
  <2>2. CASE ~SetupReturnsFalse
    <3>1. /\ stage' \in {"setup", "fork"} => stage \in {"setup", "fork"}
          /\ stage' \in {"delete", "returned"} => stage' = stage
      BY <2>2 DEF VInv, VTypeOK, Setup, ParentFails, ForkedAll, CollectOne, Interrupted,
         ChildHasFailed
    <3> QED
      BY <1>2, <3>1 DEF VInv, OwnSlots
  <2> QED
    BY <2>1, <2>2
<1>10. Returned'
  BY <1>2 DEF VInv, StagePosition, Returned, Setup, SetupReturnsFalse, ParentFails, ForkedAll,
     CollectOne, collect_one, Interrupted, WaitInterrupted, ChildHasFailed
<1>11. AbortOnlyForCause'
  <2>1. CASE Interrupted
    <3>1. winch' > 0
      BY <2>1, CollectorFacts DEF VInv, Interrupted, WaitInterrupted
    <3> QED
      BY <3>1 DEF AbortOnlyForCause
  <2>2. CASE ChildHasFailed
    <3>1. slot \in Procs /\ status[slot] # "exit0"
      BY <2>2, CollectorFacts DEF VInv, Returned, ChildHasFailed, Unsuccessful
    <3> QED
      BY <1>2, <3>1 DEF AbortOnlyForCause
  <2> QED
    BY <2>1, <2>2 DEF VInv, StagePosition, AbortOnlyForCause, Setup, SetupReturnsFalse,
       ParentFails, ForkedAll, CollectOne, collect_one
<1> QED
  BY <1>1, <1>3, <1>4, <1>6, <1>7, <1>8, <1>9, <1>10, <1>11 DEF VInv

(* The next child gets the slot of its own number.                          *)
LEMMA ForkChildStep == ASSUME VInv, ForkChild PROVE VInv' /\ pc' = "client"
<1> USE ParallelAssumption, ScanAssumption
<1> DEFINE c == child_no
<1>1. /\ stage = "fork" /\ pc = "client" /\ slot = NoSlot /\ info
      /\ c \in Procs /\ c \in Slots /\ proc[c] = "none"
      /\ \A i \in Slots : pid[i] = IF i < c THEN i ELSE NoProc
  BY DEF ForkChild, insert_new_pid_and_fd, VInv, VTypeOK, StagePosition, OwnSlots, Slots
<1>2. c \in Free /\ \A i \in Free : c <= i
  BY <1>1 DEF Free, Slots
<1>3. Collector!CInv' /\ pc' = "client"
  BY <1>1, <1>2, CollectorFork DEF VInv, ForkChild
<1>4. /\ pid' = [pid EXCEPT ![c] = c]
      /\ proc' = [proc EXCEPT ![c] = "alive"]
      /\ wopen' = wopen \cup {c}
      /\ child_no' = c + 1
      /\ UNCHANGED <<exit_status, slot, status, winch, written>>
      /\ UNCHANGED <<kind, stage, result, added, info, ok, children>>
  <2>1. PICK i \in Free : (\A j \in Free : i <= j) /\ pid' = [pid EXCEPT ![i] = c]
    BY <1>2 DEF ForkChild, insert_new_pid_and_fd
  <2>2. i = c
    BY <1>2, <2>1 DEF Free, Slots
  <2> QED
    BY <2>1, <2>2 DEF ForkChild, insert_new_pid_and_fd
<1>5. proc \in [Procs -> {"none", "alive", "zombie", "reaped"}] /\ pid \in [Slots -> Procs \cup {NoProc}]
  BY CollectorFacts DEF VInv
<1>6. VTypeOK'
  <2>1. c + 1 \in 0 .. max_pids
    BY <1>1 DEF Slots
  <2> QED
    BY <1>4, <2>1 DEF VInv, VTypeOK, children
<1>7. Counters' /\ Sent' /\ SpoiltForCause' /\ ReportsOwn' /\ ReportsAll' /\ DoneFirst'
  BY <1>1, <1>4, <1>5, ChildrenStay DEF VInv, DoneFirst
<1>8. AddedMatch' /\ ResultMatch' /\ ConsumedSucceeded'
  <2>1. \A d \in Procs : Consumed(d)' <=> Consumed(d)
    BY <1>1, <1>4, <1>5 DEF Consumed
  <2> QED
    BY <1>4, <2>1, BooksStay DEF children
<1>9. StagePosition'
  BY <1>1, <1>3, <1>4 DEF VInv, StagePosition
<1>10. OwnSlots'
  <2>1. \A i \in Slots : pid'[i] = IF i < c + 1 THEN i ELSE NoProc
    BY <1>1, <1>4, <1>5 DEF Slots
  <2>2. \A d \in Procs : proc'[d] = "none" <=> c + 1 <= d
    <3> SUFFICES ASSUME NEW d \in Procs PROVE proc'[d] = "none" <=> c + 1 <= d
      OBVIOUS
    <3>1. d \in Int /\ c \in Int
      BY <1>1 DEF Slots
    <3>2. proc[d] = "none" <=> c <= d
      BY DEF VInv, OwnSlots
    <3>3. proc'[d] = IF d = c THEN "alive" ELSE proc[d]
      BY <1>4, <1>5
    <3> QED
      BY <3>1, <3>2, <3>3
  <2> QED
    BY <1>1, <1>4, <2>1, <2>2 DEF OwnSlots
<1>11. Returned' /\ AbortOnlyForCause'
  BY <1>1, <1>3, <1>4 DEF Returned, AbortOnlyForCause
<1> QED
  BY <1>3, <1>6, <1>7, <1>8, <1>9, <1>10, <1>11 DEF VInv

(* A child never writes more than the collector takes from it.              *)
LEMMA OutputBounded == ASSUME VInv, NEW c \in Procs PROVE written[c] <= max_len
<1> USE ParallelAssumption, ScanAssumption
<1>1. /\ written[c] <= Fields * Len(reports[c]) - pending[c] + tries[c]
      /\ virus_countdown[c] = MaxReports - Len(reports[c])
      /\ virus_countdown[c] \in Nat /\ pending[c] \in Nat /\ Len(reports[c]) \in Nat
      /\ tries[c] \in Nat /\ tries[c] <= MaxTries
  BY DEF VInv, VTypeOK, Counters, Sent
<1>2. written[c] \in Nat
  BY CollectorFacts DEF VInv
<1> QED
  BY <1>1, <1>2 DEF Fields

(* collect_one() up to its return with the slot of a child that has ended.  *)
LEMMA CollectStepStep ==
    ASSUME VInv, CollectStep
    PROVE  VInv' /\ stage = "collect" /\ pc \notin {"client", "exited"} /\ pc' # "exited"
<1> USE ParallelAssumption, ScanAssumption DEF kernel
<1>1. Collector!CInv'
  BY CollectorCollect DEF VInv, CollectStep
<1>2. UNCHANGED <<kind, parent, children, written, status, wopen, winch>>
  BY DEF CollectStep, collect_one_steps, Poll, ScanDone, ReadData, ReadEof, Wait, Handle
<1>3. stage = "collect" /\ pc \in {"poll", "scan", "wait"} /\ pc' # "exited"
  <2>1. stage = "collect" /\ pc \in {"poll", "scan", "wait"}
    <3>1. pc \in {"poll", "scan", "wait"}
      BY DEF CollectStep, collect_one_steps, Poll, ScanDone, ReadData, ReadEof, Wait, Handle
    <3> QED
      BY <3>1 DEF VInv, VTypeOK, StagePosition
  <2>2. ASSUME NEW i \in Slots, ReadData(i) PROVE pc' = pc
    <3>1. ~(fd[i] \in Procs /\ written[fd[i]] > max_len)
      BY OutputBounded, CollectorFacts DEF VInv
    <3> QED
      BY <2>2, <3>1, CollectorReads DEF VInv
  <2> QED
    BY <2>1, <2>2
    DEF CollectStep, collect_one_steps, Poll, ScanDone, ReadEof, Wait
<1>4. VTypeOK' /\ AbortOnlyForCause'
  BY <1>2, <1>3 DEF VInv, VTypeOK, parent, children, AbortOnlyForCause
<1>5. CASE Wait
  <2> DEFINE c == slot
  <2>1. c \in Procs /\ pid[c] = c /\ output_len[c] = written[c] /\ proc[c] = "zombie"
        /\ slot' = c /\ pc' = "client"
    BY <1>5, CollectorWaits DEF VInv, OwnSlots, Wait
  <2>2. /\ proc' = [proc EXCEPT ![c] = "reaped"]
        /\ exit_status' = [exit_status EXCEPT ![c] = status[c]]
        /\ pid' = [pid EXCEPT ![c] = NoProc]
        /\ UNCHANGED output_len
    BY <1>5, <2>1 DEF Wait
  <2>3. /\ proc \in [Procs -> {"none", "alive", "zombie", "reaped"}]
        /\ pid \in [Slots -> Procs \cup {NoProc}]
        /\ exit_status \in [Slots -> Statuses]
    BY CollectorFacts DEF VInv
  <2>4. Counters' /\ Sent' /\ SpoiltForCause' /\ ReportsOwn' /\ ReportsAll' /\ DoneFirst'
    BY <1>2, <2>1, <2>2, <2>3, ChildrenStay DEF VInv, DoneFirst, children
  <2>5. AddedMatch' /\ ResultMatch' /\ ConsumedSucceeded'
    <3>1. \A d \in Procs : Consumed(d)' <=> Consumed(d)
      BY <1>2, <1>3, <2>1, <2>2, <2>3 DEF Consumed, parent
    <3> QED
      BY <1>2, <3>1, BooksStay DEF parent, children
  <2>6. StagePosition'
    BY <1>2, <1>3, <2>1 DEF VInv, StagePosition, parent
  <2>7. OwnSlots'
    BY <1>2, <1>3, <2>1, <2>2, <2>3 DEF VInv, OwnSlots, parent
  <2>8. Returned'
    BY <1>2, <2>1, <2>2, <2>3 DEF Returned
  <2> QED
    BY <1>1, <1>3, <1>4, <2>4, <2>5, <2>6, <2>7, <2>8 DEF VInv
<1>6. CASE ~Wait
  <2>1. UNCHANGED <<proc, pid, exit_status>> /\ pc' \in {"poll", "scan", "wait"}
        /\ (pc' \in {"poll", "scan"} => slot' = slot /\ pc \in {"poll", "scan"})
        /\ (slot' = slot \/ (slot = NoSlot /\ pc' = "wait"))
    BY <1>3, <1>6 DEF CollectStep, collect_one_steps, Poll, ScanDone, ReadData, ReadEof, Handle,
       VInv, StagePosition
  <2>2. Counters' /\ Sent' /\ SpoiltForCause' /\ ReportsOwn' /\ ReportsAll' /\ DoneFirst'
    BY <1>2, <2>1, ChildrenStay DEF VInv, DoneFirst, children
  <2>3. AddedMatch' /\ ResultMatch' /\ ConsumedSucceeded'
    <3>1. ASSUME NEW d \in Procs PROVE Consumed(d)' <=> Consumed(d)
      <4>1. CASE slot' = slot
        BY <1>2, <2>1, <4>1 DEF Consumed, parent
      <4>2. CASE slot = NoSlot /\ pc' = "wait"
        <5>1. PICK i \in Slots : ReadEof(i)
          BY <1>3, <1>6, <4>2 DEF CollectStep, collect_one_steps, Poll, ScanDone, ReadData,
             Handle, VInv, StagePosition, NoSlot, Slots
        <5>2. slot' = i /\ proc[i] # "reaped"
          BY <5>1, CollectorPolled DEF ReadEof, Handle, VInv, OwnSlots
        <5> QED
          BY <1>2, <1>3, <2>1, <4>2, <5>2 DEF Consumed, parent, NoSlot, Slots
      <4> QED
        BY <2>1, <4>1, <4>2
    <3> QED
      BY <1>2, <3>1, BooksStay DEF parent, children
  <2>4. StagePosition'
    BY <1>2, <1>3, <2>1 DEF VInv, StagePosition, parent
  <2>5. OwnSlots'
    BY <1>2, <1>3, <2>1 DEF VInv, OwnSlots, parent
  <2>6. Returned'
    BY <2>1 DEF Returned
  <2> QED
    BY <1>1, <1>3, <1>4, <2>2, <2>3, <2>4, <2>5, <2>6 DEF VInv
<1> QED
  BY <1>5, <1>6

(* A file is reported by one child at most, and once.                       *)
LEMMA OneReporter ==
    ASSUME VInv, NEW c \in Procs, NEW d \in Procs, NEW f \in ReportedBy(c), f \in ReportedBy(d)
    PROVE  c = d
BY DEF VInv, ReportsOwn, ReportedBy, Mine

LEMMA ReportedOnce ==
    ASSUME VInv, NEW c \in Procs, NEW f \in Files
    PROVE  Cardinality({n \in 1 .. Len(reports[c]) : reports[c][n] = f})
               = IF f \in ReportedBy(c) THEN 1 ELSE 0
<1> DEFINE At == {n \in 1 .. Len(reports[c]) : reports[c][n] = f}
<1>1. CASE f \in ReportedBy(c)
  <2>1. PICK n \in 1 .. Len(reports[c]) : reports[c][n] = f
    BY <1>1 DEF ReportedBy
  <2>2. At = {n}
    BY <2>1 DEF VInv, ReportsOwn
  <2> QED
    BY <1>1, <2>2, FS_Singleton
<1>2. CASE f \notin ReportedBy(c)
  <2>1. At = {}
    BY <1>2 DEF ReportedBy
  <2> QED
    BY <1>2, <2>1, FS_EmptySet
<1> QED
  BY <1>1, <1>2

LEMMA Triples == ASSUME NEW n \in Nat PROVE (3 * n) \div 3 = n
OBVIOUS

(* What the parent adds: of the files the child reported, each for the      *)
(* first time, except those to be skipped; all of them unless its output    *)
(* was spoilt.                                                              *)
LEMMA ConsumeAll ==
    ASSUME VInv, ConsumeOutput, NEW S, S = {f \in ReportedBy(slot) : kind[f] # "SKIP"},
           slot \in Procs, \A f \in ReportedBy(slot) : added[f] = 0
    PROVE  /\ added' = [f \in Files |-> IF f \in S THEN 1 ELSE added[f]]
           /\ result' = (result /\ \A f \in S : kind[f] # "BAD")
<1> USE ParallelAssumption, ScanAssumption
<1> DEFINE c == slot
<1>1. output_len[c] \div Fields = Len(reports[c])
  <2>1. /\ proc[c] = "reaped" /\ status[c] = "exit0" /\ output_len[c] = written[c]
        /\ spoilt[c] = 0
    BY DEF VInv, Returned, ConsumeOutput, Unsuccessful
  <2>2. pending[c] = 0 /\ Len(reports[c]) \in Nat
    BY <2>1 DEF VInv, VTypeOK, DoneFirst
  <2>3. output_len[c] = 3 * Len(reports[c])
    BY <2>1, <2>2 DEF VInv, Sent, Fields
  <2> QED
    BY <2>2, <2>3, Triples DEF Fields
<1> DEFINE reported(f) == Cardinality({n \in 1 .. Len(reports[c]) : reports[c][n] = f})
<1>2. /\ added' = [f \in Files |-> IF kind[f] = "SKIP" THEN added[f] ELSE added[f] + reported(f)]
      /\ result' = (result /\ \A f \in Files : kind[f] = "BAD" => reported(f) = 0)
  BY <1>1 DEF ConsumeOutput
<1>3. \A f \in Files : reported(f) = IF f \in ReportedBy(c) THEN 1 ELSE 0
  BY ReportedOnce
<1> HIDE DEF reported
<1>4. S \subseteq Files /\ \A f \in S : kind[f] # "SKIP" /\ f \in ReportedBy(c)
  BY DEF ReportedBy
<1>5. added' = [f \in Files |-> IF f \in S THEN 1 ELSE added[f]]
  <2>1. \A f \in Files : added[f] \in Nat
    BY DEF VInv, VTypeOK
  <2>2. ASSUME NEW f \in Files
        PROVE  (IF kind[f] = "SKIP" THEN added[f] ELSE added[f] + reported(f))
                   = (IF f \in S THEN 1 ELSE added[f])
    BY <1>3, <2>1
  <2> QED
    BY <1>2, <2>2
<1>6. result' = (result /\ \A f \in S : kind[f] # "BAD")
  BY <1>2, <1>3, <1>4
<1> QED
  BY <1>5, <1>6

LEMMA ConsumeAdds ==
    ASSUME VInv, ConsumeOutput \/ ConsumeSpoilt
    PROVE  /\ slot \in Procs /\ proc[slot] = "reaped" /\ status[slot] = "exit0"
           /\ \E S \in SUBSET {f \in ReportedBy(slot) : kind[f] # "SKIP"} :
                 /\ spoilt[slot] = 0 => S = {f \in ReportedBy(slot) : kind[f] # "SKIP"}
                 /\ \A f \in S : added[f] = 0
                 /\ added' = [f \in Files |-> IF f \in S THEN 1 ELSE added[f]]
                 /\ result' = (result /\ \A f \in S : kind[f] # "BAD")
<1> USE ParallelAssumption, ScanAssumption
<1> DEFINE c == slot
           All == {f \in ReportedBy(c) : kind[f] # "SKIP"}
<1>1. c \in Procs /\ c \in Slots
  BY CollectorFacts DEF VInv, ConsumeOutput, ConsumeSpoilt, NoSlot
<1>2. proc[c] = "reaped" /\ status[c] = "exit0"
  BY DEF VInv, Returned, ConsumeOutput, ConsumeSpoilt, Unsuccessful
<1>3. ASSUME NEW f \in ReportedBy(c) PROVE f \in Files /\ added[f] = 0
  <2>1. f \in Files
    BY DEF ReportedBy
  <2>2. ASSUME NEW d \in Procs, Consumed(d) PROVE f \notin ReportedBy(d)
    <3>1. d # c
      BY <2>2 DEF Consumed, ConsumeOutput, ConsumeSpoilt
    <3> QED
      BY <1>1, <3>1, OneReporter
  <2> QED
    BY <2>1, <2>2 DEF VInv, AddedMatch
<1>4. CASE ConsumeOutput
  <2>1. /\ added' = [f \in Files |-> IF f \in All THEN 1 ELSE added[f]]
        /\ result' = (result /\ \A f \in All : kind[f] # "BAD")
    BY <1>1, <1>3, <1>4, ConsumeAll
  <2> QED
    BY <1>1, <1>2, <1>3, <2>1
<1>5. CASE ConsumeSpoilt
  <2>1. PICK S \in SUBSET {f \in Files : \E n \in DOMAIN reports[c] : reports[c][n] = f} :
           /\ added' = [f \in Files |->
                          IF f \in S /\ kind[f] # "SKIP" THEN added[f] + 1 ELSE added[f]]
           /\ result' = (result /\ \A f \in S : kind[f] # "BAD")
    BY <1>5 DEF ConsumeSpoilt
  <2> DEFINE T == {f \in S : kind[f] # "SKIP"}
  <2>2. S \subseteq ReportedBy(c)
    <3>1. DOMAIN reports[c] = 1 .. Len(reports[c])
      BY <1>1 DEF VInv, VTypeOK
    <3> QED
      BY <2>1, <3>1 DEF ReportedBy
  <2>3. T \in SUBSET All /\ \A f \in T : added[f] = 0
    BY <1>3, <2>2
  <2>4. added' = [f \in Files |-> IF f \in T THEN 1 ELSE added[f]]
    BY <2>1, <2>3
  <2>5. result' = (result /\ \A f \in T : kind[f] # "BAD")
    BY <2>1
  <2>6. spoilt[c] # 0
    BY <1>5 DEF ConsumeSpoilt
  <2> HIDE DEF T
  <2> QED
    BY <1>1, <1>2, <2>3, <2>4, <2>5, <2>6
<1> QED
  BY <1>4, <1>5

LEMMA ConsumeStep == ASSUME VInv, ConsumeOutput \/ ConsumeSpoilt PROVE VInv'
<1> USE ParallelAssumption, ScanAssumption DEF kernel, collector
<1> DEFINE c == slot
           All == {f \in ReportedBy(c) : kind[f] # "SKIP"}
<1>1. /\ stage = "collect" /\ pc = "client" /\ slot' = NoSlot
      /\ UNCHANGED <<collector, pc, kernel, winch, written, kind, stage, child_no, info, ok,
                     children>>
  BY DEF ConsumeOutput, ConsumeSpoilt
<1>2. c \in Procs /\ proc[c] = "reaped" /\ status[c] = "exit0"
  BY ConsumeAdds
<1>3. PICK S \in SUBSET All :
         /\ spoilt[c] = 0 => S = All
         /\ \A f \in S : added[f] = 0
         /\ added' = [f \in Files |-> IF f \in S THEN 1 ELSE added[f]]
         /\ result' = (result /\ \A f \in S : kind[f] # "BAD")
  BY ConsumeAdds
<1>4. Collector!CInv'
  BY <1>1, CollectorLeaves DEF VInv
<1>5. Counters' /\ Sent' /\ SpoiltForCause' /\ ReportsOwn' /\ ReportsAll' /\ DoneFirst'
  BY <1>1, ChildrenStay DEF VInv, DoneFirst
<1>6. VTypeOK'
  <2>1. added' \in [Files -> Nat] /\ result' \in BOOLEAN
    BY <1>3 DEF VInv, VTypeOK
  <2> QED
    BY <1>1, <2>1 DEF VInv, VTypeOK, children
<1>7. StagePosition' /\ OwnSlots' /\ Returned' /\ AbortOnlyForCause'
  BY <1>1 DEF VInv, StagePosition, OwnSlots, Returned, AbortOnlyForCause
<1>8. \A d \in Procs : /\ Consumed(d)' <=> Consumed(d) \/ d = c
                       /\ ReportedBy(d)' = ReportedBy(d)
  BY <1>1, <1>2 DEF Consumed, ReportedBy, children, NoSlot, Slots
<1>9. ConsumedSucceeded'
  BY <1>1, <1>2, <1>8 DEF VInv, ConsumedSucceeded
<1>10. AddedMatch'
  <2> SUFFICES ASSUME NEW f \in Files
               PROVE  \/ /\ added'[f] = 1 /\ kind[f] # "SKIP"
                         /\ \E d \in Procs : Consumed(d)' /\ f \in ReportedBy(d)
                      \/ /\ added'[f] = 0
                         /\ kind[f] # "SKIP" =>
                               \A d \in Procs : Consumed(d)' /\ f \in ReportedBy(d)
                                                    => spoilt[d] # 0
    BY <1>1, <1>8 DEF AddedMatch, children
  <2>1. \/ /\ added[f] = 1 /\ kind[f] # "SKIP"
           /\ \E d \in Procs : Consumed(d) /\ f \in ReportedBy(d)
        \/ /\ added[f] = 0
           /\ kind[f] # "SKIP" =>
                 \A d \in Procs : Consumed(d) /\ f \in ReportedBy(d) => spoilt[d] # 0
    BY DEF VInv, AddedMatch
  <2>2. added'[f] = IF f \in S THEN 1 ELSE added[f]
    BY <1>3
  <2>3. CASE f \in S
    BY <1>2, <1>8, <2>2, <2>3
  <2>4. CASE f \notin S
    <3>1. kind[f] # "SKIP" /\ f \in ReportedBy(c) => spoilt[c] # 0
      BY <1>3, <2>4
    <3> QED
      BY <1>8, <2>1, <2>2, <2>4, <3>1
  <2> QED
    BY <2>3, <2>4
<1>11. ResultMatch'
  <2>1. result \in BOOLEAN /\ info /\ (result <=> \A f \in Files : kind[f] = "BAD" => added[f] = 0)
    BY <1>1 DEF VInv, VTypeOK, ResultMatch, StagePosition
  <2>2. S \subseteq Files
    BY DEF ReportedBy
  <2>3. result' <=> \A f \in Files : kind[f] = "BAD" => added'[f] = 0
    <3>1. result' <=> result /\ \A f \in S : kind[f] # "BAD"
      BY <1>3, Zenon
    <3>2. \A f \in Files : added'[f] = IF f \in S THEN 1 ELSE added[f]
      BY <1>3
    <3>3. \A f \in S : added'[f] # 0 /\ f \in Files
      BY <2>2, <3>2
    <3>4. \A f \in Files : f \notin S => added'[f] = added[f]
      BY <3>2
    <3>5. \A f \in S : added[f] = 0
      BY <1>3
    <3>6. result <=> \A f \in Files : kind[f] = "BAD" => added[f] = 0
      BY <2>1
    <3> HIDE DEF All
    <3> QED
      BY <3>1, <3>3, <3>4, <3>5, <3>6, Zenon
  <2> QED
    BY <1>1, <2>3 DEF ResultMatch
<1> QED
  BY <1>4, <1>5, <1>6, <1>7, <1>9, <1>10, <1>11 DEF VInv

(* A child was spoilt for one of the two causes, and so is a crash.         *)
LEMMA BadPointerStep ==
    ASSUME VInv, BadPointer
    PROVE  /\ VInv'
           /\ winch > 0 \/ \E f \in Files : Infected(f) /\ four[f] # {}
<1> USE ParallelAssumption, ScanAssumption
<1>1. /\ stage = "collect" /\ pc = "client" /\ slot # NoSlot /\ spoilt[slot] # 0
      /\ pc' = "exited" /\ stage' = "crashed"
      /\ UNCHANGED <<collector, kernel, slot, winch, written, kind, child_no, result, added,
                     info, ok, children>>
  BY DEF BadPointer
<1>2. slot \in Procs /\ proc[slot] = "reaped" /\ status[slot] = "exit0"
  BY <1>1, CollectorFacts DEF VInv, Returned, BadPointer, Unsuccessful, NoSlot
<1>3. winch > 0 \/ \E f \in Files : Infected(f) /\ four[f] # {}
  BY <1>1, <1>2 DEF VInv, SpoiltForCause
<1>4. Collector!CInv'
  BY <1>1, CollectorLeaves DEF VInv
<1>5. UNCHANGED <<proc, status, wopen, pid, exit_status, output_len>>
  BY <1>1 DEF collector, kernel
<1>6. Counters' /\ Sent' /\ SpoiltForCause' /\ ReportsOwn' /\ ReportsAll' /\ DoneFirst'
  BY <1>1, <1>5, ChildrenStay DEF VInv, DoneFirst
<1>7. VTypeOK' /\ StagePosition' /\ OwnSlots' /\ Returned'
  BY <1>1, <1>5 DEF VInv, VTypeOK, StagePosition, OwnSlots, Returned, children
<1>8. \A d \in Procs : /\ Consumed(d)' => Consumed(d) \/ d = slot
                       /\ Consumed(d) => Consumed(d)'
                       /\ ReportedBy(d)' = ReportedBy(d)
  BY <1>1, <1>5 DEF Consumed, ReportedBy, children
<1>9. ConsumedSucceeded'
  BY <1>2, <1>5, <1>8 DEF VInv, ConsumedSucceeded
<1>10. AddedMatch'
  <2> SUFFICES ASSUME NEW f \in Files
               PROVE  \/ /\ added[f] = 1 /\ kind[f] # "SKIP"
                         /\ \E d \in Procs : Consumed(d)' /\ f \in ReportedBy(d)
                      \/ /\ added[f] = 0
                         /\ kind[f] # "SKIP" =>
                               \A d \in Procs : Consumed(d)' /\ f \in ReportedBy(d)
                                                    => spoilt[d] # 0
    BY <1>1, <1>8 DEF AddedMatch, children
  <2>1. \/ /\ added[f] = 1 /\ kind[f] # "SKIP"
           /\ \E d \in Procs : Consumed(d) /\ f \in ReportedBy(d)
        \/ /\ added[f] = 0
           /\ kind[f] # "SKIP" =>
                 \A d \in Procs : Consumed(d) /\ f \in ReportedBy(d) => spoilt[d] # 0
    BY DEF VInv, AddedMatch
  <2> QED
    BY <1>1, <1>8, <2>1
<1>11. ResultMatch'
  BY <1>1 DEF VInv, ResultMatch
<1>12. AbortOnlyForCause'
  BY <1>1, <1>3 DEF AbortOnlyForCause, Infected, children
<1> QED
  BY <1>3, <1>4, <1>6, <1>7, <1>9, <1>10, <1>11, <1>12 DEF VInv

(* When collect_one() returns NULL every child has been collected.          *)
LEMMA AllCollected ==
    ASSUME VInv, stage = "collect", pc = "client", slot = NoSlot, running = 0
    PROVE  /\ \A i \in Slots : pid[i] = NoProc
           /\ \A c \in Procs : proc[c] = "reaped"
<1> USE ParallelAssumption, ScanAssumption
<1>1. \A i \in Slots : pid[i] = NoProc
  <2> DEFINE Used == {i \in Slots : pid[i] # NoProc}
  <2>1. Cardinality(Used) = 0
    BY CollectorFacts DEF VInv
  <2>2. IsFiniteSet(Used)
    <3>1. IsFiniteSet(Slots)
      BY FS_Interval DEF Slots
    <3> QED
      BY <3>1, FS_Subset
  <2>3. Used = {}
    BY <2>1, <2>2, FS_EmptySet
  <2> QED
    BY <2>3
<1>2. ASSUME NEW c \in Procs PROVE proc[c] = "reaped"
  <2>1. proc[c] \notin {"alive", "zombie"}
    BY <1>1, CollectorHolds DEF VInv
  <2>2. proc[c] # "none"
    BY DEF VInv, OwnSlots, StagePosition, Slots
  <2>3. proc[c] \in {"none", "alive", "zombie", "reaped"}
    BY CollectorFacts DEF VInv
  <2> QED
    BY <2>1, <2>2, <2>3
<1> QED
  BY <1>1, <1>2

LEMMA AllReaped ==
    ASSUME VInv, stage = "delete" \/ (stage = "returned" /\ info)
    PROVE  /\ \A i \in Slots : pid[i] = NoProc
           /\ \A c \in Procs : proc[c] = "reaped"
<1> USE ParallelAssumption, ScanAssumption
<1>1. child_no = max_pids
  BY DEF VInv, StagePosition
<1>2. ASSUME NEW c \in Procs PROVE proc[c] # "none"
  BY <1>1 DEF VInv, OwnSlots, Slots
<1> QED
  BY <1>2 DEF VInv, OwnSlots

(* Deleting an empty collector closes nothing and waits for nobody.         *)
LEMMA DeleteEmpty ==
    ASSUME VInv, DeleteStep
    PROVE  /\ stage = "delete" /\ pc' \in {"delete", "deleted"}
           /\ UNCHANGED <<pid, proc, status, wopen, exit_status, winch, written>>
<1> USE ParallelAssumption, ScanAssumption DEF DeleteStep, DeleteSlot
<1>1. stage = "delete" /\ pc = "delete"
  BY DEF VInv, VTypeOK, StagePosition
<1>2. slot \in Slots
  BY <1>1, SameSlots DEF VInv, Collector!CInv, Collector!SlotInTable, Collector!Deleting
<1>3. pid[slot] = NoProc
  BY <1>1, <1>2, AllReaped
<1>4. /\ proc \in [Procs -> {"none", "alive", "zombie", "reaped"}]
      /\ status \in [Procs -> Statuses]
  BY CollectorFacts DEF VInv
<1>5. UNCHANGED <<proc, status, wopen, winch>>
  BY <1>1, <1>3, <1>4
<1> QED
  BY <1>1, <1>5

(* The collector is deleted when it is empty, and the verdict returned.     *)
LEMMA EndSteps == ASSUME VInv, CollectedAll \/ DeleteStep \/ Return PROVE VInv'
<1> USE ParallelAssumption, ScanAssumption DEF parallelVars, collector, kernel, parent
<1>1. Collector!CInv'
  BY CollectorCollect DEF VInv, CollectedAll, DeleteStep, Return
<1>2. /\ info /\ child_no = max_pids
      /\ \A i \in Slots : pid[i] = NoProc
      /\ \A c \in Procs : proc[c] = "reaped"
      /\ \A c \in Procs : Consumed(c)
  <2>1. CASE CollectedAll
    BY <2>1, AllCollected
    DEF CollectedAll, delete_parallel, VInv, StagePosition, Consumed, NoSlot, Slots
  <2>2. CASE DeleteStep \/ Return
    <3>1. stage = "delete"
      BY <2>2, DeleteEmpty DEF Return
    <3> QED
      BY <3>1, AllReaped DEF VInv, StagePosition, Consumed
  <2> QED
    BY <2>1, <2>2
<1>3. /\ UNCHANGED <<kind, children, written, winch, pid, proc, status, wopen, exit_status>>
      /\ UNCHANGED <<child_no, result, added, info>>
      /\ \/ stage' = "delete" /\ pc' \in {"delete", "deleted"} /\ ok' = ok
         \/ stage' = "returned" /\ pc' = "deleted" /\ ok' = result
  BY DeleteEmpty DEF CollectedAll, delete_parallel, DeleteStep, DeleteSlot, Return
<1>4. Counters' /\ Sent' /\ SpoiltForCause' /\ ReportsOwn' /\ ReportsAll' /\ DoneFirst'
  BY <1>3, ChildrenStay DEF VInv, DoneFirst
<1>5. AddedMatch' /\ ResultMatch' /\ ConsumedSucceeded'
  <2>1. \A c \in Procs : Consumed(c)'
    BY <1>2, <1>3 DEF Consumed
  <2> QED
    BY <1>2, <1>3, <2>1, BooksStay DEF children
<1>6. VTypeOK' /\ StagePosition' /\ OwnSlots' /\ Returned'
  BY <1>2, <1>3 DEF VInv, VTypeOK, StagePosition, OwnSlots, Returned, children
<1>7. AbortOnlyForCause'
  BY <1>3 DEF AbortOnlyForCause
<1> QED
  BY <1>1, <1>4, <1>5, <1>6, <1>7 DEF VInv

(* A step of a child leaves the parent and its books alone; it is not one   *)
(* that was collected.                                                      *)
LEMMA ChildBooks ==
    ASSUME VInv, NEW c \in Procs, proc[c] = "alive",
           UNCHANGED <<kind, four, parent, collector, pc, slot>>,
           winch' = winch \/ winch' > 0,
           \A d \in Procs : d # c => /\ proc'[d] = proc[d] /\ status'[d] = status[d]
                                     /\ written'[d] = written[d] /\ reports'[d] = reports[d]
                                     /\ spoilt'[d] = spoilt[d],
           proc'[c] \in {"alive", "zombie"}, status'[c] = "exit0" \/ status'[c] # status[c]
    PROVE  /\ StagePosition' /\ OwnSlots' /\ Returned' /\ AbortOnlyForCause'
           /\ ConsumedSucceeded' /\ AddedMatch' /\ ResultMatch'
<1> USE ParallelAssumption, ScanAssumption DEF parent, collector
<1>1. stage \notin {"delete", "returned"}
  BY DEF VInv, OwnSlots
<1>2. StagePosition' /\ OwnSlots'
  <2>1. \A d \in Procs : proc'[d] = "none" <=> proc[d] = "none"
    OBVIOUS
  <2> QED
    BY <1>1, <2>1 DEF VInv, StagePosition, OwnSlots
<1>3. Returned'
  <2>1. stage = "collect" /\ pc = "client" /\ slot # NoSlot => slot # c /\ slot \in Procs
    BY CollectorFacts DEF VInv, Returned
  <2> QED
    BY <2>1 DEF VInv, Returned
<1>4. AbortOnlyForCause'
  <2>1. status[c] = "exit0"
    BY DEF VInv, DoneFirst
  <2> QED
    BY <2>1 DEF VInv, AbortOnlyForCause, Infected
<1>5. \A d \in Procs : /\ Consumed(d)' <=> Consumed(d)
                       /\ Consumed(d) => d # c
                       /\ d # c => ReportedBy(d)' = ReportedBy(d)
  BY DEF Consumed, ReportedBy
<1>6. ConsumedSucceeded' /\ AddedMatch' /\ ResultMatch'
  BY <1>5 DEF VInv, ConsumedSucceeded, AddedMatch, ResultMatch
<1> QED
  BY <1>2, <1>3, <1>4, <1>6

(* A child closes its pipe or ends.                                         *)
LEMMA ChildEnds ==
    ASSUME VInv, NEW c \in Procs, NEW s \in Statuses, UNCHANGED <<kind, parent, children>>,
           \/ ChildClose(c) /\ todo[c] \notin Files /\ pending[c] = 0
           \/ ChildExit(c, s) /\ (s = "exit0" => todo[c] \notin Files /\ pending[c] = 0)
    PROVE  VInv'
<1> USE ParallelAssumption, ScanAssumption
<1>1. Collector!CInv'
  BY CollectorChild DEF VInv
<1>2. VTypeOK'
  BY DEF VInv, VTypeOK, parent, children
<1>3. /\ proc \in [Procs -> {"none", "alive", "zombie", "reaped"}]
      /\ status \in [Procs -> Statuses]
      /\ status[c] = "exit0"
  BY CollectorFacts DEF VInv, DoneFirst, ChildClose, ChildExit
<1>4. Counters' /\ Sent' /\ SpoiltForCause' /\ ReportsOwn' /\ ReportsAll' /\ DoneFirst'
  <2>1. ASSUME NEW d \in Procs
        PROVE  /\ \/ proc'[d] = "alive" /\ d \notin wopen'
                  \/ proc'[d] \in {"zombie", "reaped"} /\ status'[d] = "exit0"
                  => todo[d] \notin Files /\ pending[d] = 0
               /\ proc'[d] \in {"none", "alive"} => status'[d] = "exit0"
    BY <1>3 DEF ChildClose, ChildExit, VInv, DoneFirst
  <2> QED
    BY <2>1, ChildrenStay DEF ChildClose, ChildExit
<1>5. /\ StagePosition' /\ OwnSlots' /\ Returned' /\ AbortOnlyForCause'
      /\ ConsumedSucceeded' /\ AddedMatch' /\ ResultMatch'
  BY <1>3, ChildBooks DEF ChildClose, ChildExit, children
<1> QED
  BY <1>1, <1>2, <1>4, <1>5 DEF VInv

(* A child writes a field of the triple it reports: once, again, or not.    *)
LEMMA FieldStep ==
    ASSUME VInv, NEW c \in Procs, WriteField(c) \/ ResendField(c) \/ WriteInterrupted(c)
    PROVE  VInv'
<1> USE ParallelAssumption, ScanAssumption
<1>1. /\ proc[c] = "alive" /\ pending[c] > 0
      /\ UNCHANGED <<kind, four, parent, todo, file_no, virus_countdown, reports>>
      /\ UNCHANGED <<proc, status, wopen, collector, pc, slot>>
  BY DEF WriteField, ResendField, WriteInterrupted, ChildWrite, kernel
<1>2. /\ written \in [Procs -> Nat] /\ pending \in [Procs -> 0 .. Fields]
      /\ tries \in [Procs -> 0 .. MaxTries] /\ spoilt \in [Procs -> Nat]
      /\ reports[c] \in Seq(Files) /\ Len(reports[c]) \in Nat /\ winch \in Nat
  <2>1. written \in [Procs -> Nat] /\ winch \in Nat
    BY CollectorFacts DEF VInv
  <2>2. /\ pending \in [Procs -> 0 .. Fields] /\ tries \in [Procs -> 0 .. MaxTries]
        /\ spoilt \in [Procs -> Nat] /\ reports \in [Procs -> Seq(Files)]
    BY DEF VInv, VTypeOK
  <2>3. reports[c] \in Seq(Files)
    BY <2>2
  <2> QED
    BY <2>1, <2>2, <2>3
<1>20. written[c] \in Nat /\ pending[c] \in Nat /\ tries[c] \in Nat /\ spoilt[c] \in Nat
  <2>1. written[c] \in Nat /\ spoilt[c] \in Nat
    BY <1>2
  <2>2. pending[c] \in 0 .. Fields /\ tries[c] \in 0 .. MaxTries
    BY <1>2
  <2> QED
    BY <2>1, <2>2
<1>3. Len(reports[c]) > 0
  BY <1>1 DEF VInv, Counters
<1>4. \/ /\ pending' = [pending EXCEPT ![c] = pending[c] - 1]
         /\ written' = [written EXCEPT ![c] = written[c] + 1]
         /\ UNCHANGED <<tries, spoilt, winch>>
      \/ /\ written' = [written EXCEPT ![c] = written[c] + 1]
         /\ tries' = [tries EXCEPT ![c] = tries[c] + 1] /\ Resends(c) /\ Spoil(c)
         /\ UNCHANGED <<pending, winch>>
      \/ /\ pending' = [pending EXCEPT ![c] = pending[c] - 1] /\ winch' = winch + 1 /\ Spoil(c)
         /\ UNCHANGED <<written, tries>>
  BY DEF WriteField, ResendField, WriteInterrupted, ChildWrite
<1>5. Spoil(c) => /\ spoilt'[c] # 0 /\ spoilt' \in [Procs -> Nat]
                  /\ \A d \in Procs : d # c => spoilt'[d] = spoilt[d]
  <2> DEFINE n == IF spoilt[c] # 0 THEN spoilt[c]
                  ELSE Len(reports[c]) + IF pending[c] = Path THEN 1 ELSE 0
  <2>1. n \in Nat /\ n # 0
    <3> DEFINE l == Len(reports[c])
    <3>1. l \in Nat /\ l > 0 /\ spoilt[c] \in Nat
      BY <1>2, <1>3, <1>20
    <3> HIDE DEF l
    <3>2. l + 1 \in Nat /\ l + 1 # 0 /\ l + 0 = l /\ l # 0
      BY <3>1
    <3>3. n = IF spoilt[c] # 0 THEN spoilt[c] ELSE l + IF pending[c] = Path THEN 1 ELSE 0
      BY DEF l
    <3> HIDE DEF n
    <3> QED
      BY <3>1, <3>2, <3>3
  <2>2. Spoil(c) => spoilt' = [spoilt EXCEPT ![c] = n]
    BY DEF Spoil
  <2> HIDE DEF n
  <2> QED
    BY <1>2, <2>1, <2>2
<1>6. \A d \in Procs : d # c => /\ pending'[d] = pending[d] /\ written'[d] = written[d]
                                /\ tries'[d] = tries[d] /\ spoilt'[d] = spoilt[d]
  <2>1. pending' = pending \/ pending' = [pending EXCEPT ![c] = pending[c] - 1]
    BY <1>4, Zenon
  <2>2. written' = written \/ written' = [written EXCEPT ![c] = written[c] + 1]
    BY <1>4, Zenon
  <2>3. tries' = tries \/ tries' = [tries EXCEPT ![c] = tries[c] + 1]
    BY <1>4, Zenon
  <2>4. spoilt' = spoilt \/ Spoil(c)
    BY <1>4, Zenon
  <2> QED
    BY <1>2, <1>5, <2>1, <2>2, <2>3, <2>4
<1>7. \/ /\ pending'[c] = pending[c] - 1 /\ written'[c] = written[c] + 1
         /\ tries'[c] = tries[c] /\ spoilt'[c] = spoilt[c] /\ winch' = winch
      \/ /\ pending'[c] = pending[c] /\ written'[c] = written[c] + 1
         /\ tries'[c] = tries[c] + 1 /\ spoilt'[c] # 0 /\ winch' = winch /\ Resends(c)
      \/ /\ pending'[c] = pending[c] - 1 /\ written'[c] = written[c]
         /\ tries'[c] = tries[c] /\ spoilt'[c] # 0 /\ winch' = winch + 1
  BY <1>2, <1>4, <1>5
<1>8. Collector!CInv'
  <2>1. CASE WriteField(c) \/ ResendField(c)
    BY <2>1, CollectorChild DEF VInv, Statuses, WriteField, ResendField
  <2>2. CASE WriteInterrupted(c)
    BY <2>2, CollectorResize DEF VInv, WriteInterrupted
  <2> QED
    BY <2>1, <2>2
<1>9. VTypeOK'
  <2>1. pending' \in [Procs -> 0 .. Fields]
    <3>1. pending[c] - 1 \in 0 .. Fields
      BY <1>1, <1>2 DEF Fields
    <3> QED
      BY <1>2, <1>4, <3>1
  <2>2. tries' \in [Procs -> 0 .. MaxTries]
    <3>1. Resends(c) => tries[c] + 1 \in 0 .. MaxTries
      BY <1>2 DEF Resends
    <3> QED
      BY <1>2, <1>4, <3>1
  <2>3. spoilt' \in [Procs -> Nat]
    BY <1>2, <1>4, <1>5
  <2> QED
    BY <1>1, <2>1, <2>2, <2>3 DEF VInv, VTypeOK, parent
<1>10. Counters'
  <2>1. \A d \in Procs : pending'[d] > 0 => Len(reports[d]) > 0
    BY <1>3, <1>6 DEF VInv, Counters
  <2> QED
    BY <1>1, <2>1 DEF VInv, Counters, Position
<1>11. Sent'
  <2> SUFFICES ASSUME NEW d \in Procs
               PROVE  /\ spoilt'[d] = 0 => written'[d] = Fields * Len(reports[d]) - pending'[d]
                      /\ written'[d] <= Fields * Len(reports[d]) - pending'[d] + tries'[d]
    BY <1>1 DEF Sent
  <2>1. /\ spoilt[d] = 0 => written[d] = Fields * Len(reports[d]) - pending[d]
        /\ written[d] <= Fields * Len(reports[d]) - pending[d] + tries[d]
    BY DEF VInv, Sent
  <2>2. CASE d # c
    BY <1>6, <2>1, <2>2
  <2>3. CASE d = c
    <3> DEFINE n == Fields * Len(reports[c])
    <3>1. n \in Int /\ written[c] \in Int /\ pending[c] \in Int /\ tries[c] \in Int
      <4>1. n \in Int
        BY <1>2 DEF Fields
      <4> QED
        BY <1>20, <4>1
    <3>2. /\ spoilt[c] = 0 => written[c] = n - pending[c]
          /\ written[c] <= n - pending[c] + tries[c]
      BY <2>1, <2>3
    <3> HIDE DEF n
    <3>3. /\ spoilt'[c] = 0 => written'[c] = n - pending'[c]
          /\ written'[c] <= n - pending'[c] + tries'[c]
      BY <1>7, <3>1, <3>2
    <3> QED
      BY <2>3, <3>3 DEF n
  <2> QED
    BY <2>2, <2>3
<1>12. SpoiltForCause'
  <2>1. CASE winch' > 0
    BY <2>1 DEF SpoiltForCause
  <2>2. CASE ~(winch' > 0)
    <3>1. winch' = winch /\ winch = 0
      BY <1>2, <1>7, <2>2
    <3>2. \A d \in Procs : spoilt'[d] # 0 => spoilt[d] # 0 \/ (d = c /\ Resends(c))
      BY <1>2, <1>6, <1>7, <3>1
    <3>3. Resends(c) => \E f \in Files : Infected(f) /\ four[f] # {}
      <4>1. Len(reports[c]) \in 1 .. Len(reports[c])
        BY <1>2, <1>3
      <4>2. reports[c][Len(reports[c])] \in Files
        BY <1>2, <4>1
      <4>3. Infected(reports[c][Len(reports[c])])
        BY <4>1, Zenon DEF VInv, ReportsOwn
      <4> QED
        BY <4>2, <4>3 DEF Resends
    <3>4. \A d \in Procs : spoilt'[d] # 0 => \E f \in Files : Infected(f) /\ four[f] # {}
      BY <3>1, <3>2, <3>3 DEF VInv, SpoiltForCause
    <3> QED
      BY <1>1, <3>4 DEF SpoiltForCause, Infected
  <2> QED
    BY <2>1, <2>2
<1>13. ReportsOwn' /\ ReportsAll' /\ DoneFirst'
  <2>1. \A d \in Procs : ReportedBy(d)' = ReportedBy(d)
    BY <1>1 DEF ReportedBy
  <2>2. ReportsOwn' /\ ReportsAll'
    BY <1>1, <2>1 DEF VInv, ReportsOwn, ReportsAll, Position, Mine, Infected
  <2>3. c \in wopen
    BY <1>1 DEF VInv, DoneFirst
  <2>4. DoneFirst'
    BY <1>1, <1>6, <2>3 DEF VInv, DoneFirst
  <2> QED
    BY <2>2, <2>4
<1>14. /\ StagePosition' /\ OwnSlots' /\ Returned' /\ AbortOnlyForCause'
       /\ ConsumedSucceeded' /\ AddedMatch' /\ ResultMatch'
  <2>1. status[c] = "exit0" /\ (winch' = winch \/ winch' > 0)
    BY <1>1, <1>2, <1>7 DEF VInv, DoneFirst
  <2> QED
    BY <1>1, <1>6, <2>1, ChildBooks
<1> QED
  BY <1>8, <1>9, <1>10, <1>11, <1>12, <1>13, <1>14 DEF VInv

(* What a child reports after the next file: what it had, and that file if  *)
(* it is the child's, infected, and it may report one more.                 *)
LEMMA NextReports ==
    ASSUME VInv, NEW c \in Procs, NextFile(c)
    PROVE  /\ todo[c] \in Files /\ pending[c] = 0
           /\ todo' = [todo EXCEPT ![c] = todo[c] + 1]
           /\ file_no' = [file_no EXCEPT ![c] = Position(todo[c])]
           /\ Mine(c, todo[c]) => kind[todo[c]] # "error"
           /\ \/ /\ Mine(c, todo[c]) /\ Infected(todo[c]) /\ virus_countdown[c] # 0
                 /\ virus_countdown' = [virus_countdown EXCEPT ![c] = virus_countdown[c] - 1]
                 /\ pending' = [pending EXCEPT ![c] = Fields]
                 /\ reports' = [reports EXCEPT ![c] = Append(reports[c], todo[c])]
              \/ /\ ~(Mine(c, todo[c]) /\ Infected(todo[c]) /\ virus_countdown[c] # 0)
                 /\ UNCHANGED <<virus_countdown, pending, reports>>
<1> DEFINE f == todo[c]
<1>1. f \in Files /\ pending[c] = 0
  BY DEF NextFile
<1>2. file_no[c] = IF f = 1 THEN -1 ELSE Position(f - 1)
  BY DEF VInv, Counters
<1>3. Cyclic(file_no[c] + 1) = Position(f)
  BY <1>1, <1>2, NextPosition
<1>4. Scans(c, f) <=> Mine(c, f)
  BY <1>3 DEF Scans, Mine
<1> QED
  BY <1>1, <1>3, <1>4 DEF NextFile, Reports

LEMMA NextFileStep == ASSUME VInv, NEW c \in Procs, NextFile(c) PROVE VInv'
<1> USE ParallelAssumption, ScanAssumption
<1> DEFINE f == todo[c]
           r == reports[c]
           more == Mine(c, f) /\ Infected(f) /\ virus_countdown[c] # 0
<1>1. /\ f \in Files /\ f \in Nat /\ f + 1 \in 1 .. NFiles + 1 /\ pending[c] = 0
      /\ todo' = [todo EXCEPT ![c] = f + 1]
      /\ file_no' = [file_no EXCEPT ![c] = Position(f)]
      /\ Mine(c, f) => kind[f] # "error"
  BY NextReports DEF Files
<1>2. \/ /\ more
         /\ virus_countdown' = [virus_countdown EXCEPT ![c] = virus_countdown[c] - 1]
         /\ pending' = [pending EXCEPT ![c] = Fields]
         /\ reports' = [reports EXCEPT ![c] = Append(r, f)]
      \/ ~more /\ UNCHANGED <<virus_countdown, pending, reports>>
  BY NextReports
<1>3. proc[c] = "alive" /\ c \in wopen /\ UNCHANGED <<parallelVars, kind, parent>>
  BY DEF NextFile
<1>0. UNCHANGED <<tries, spoilt, four, written, winch>>
  BY DEF NextFile, parallelVars
<1>4. /\ todo \in [Procs -> 1 .. NFiles + 1] /\ file_no \in [Procs -> -1 .. max_pids - 1]
      /\ virus_countdown \in [Procs -> 0 .. MaxReports] /\ pending \in [Procs -> 0 .. Fields]
      /\ reports \in [Procs -> Seq(Files)] /\ r \in Seq(Files)
      /\ virus_countdown[c] \in Nat /\ Len(r) \in Nat /\ MaxReports \in Nat
  BY DEF VInv, VTypeOK
<1>5. /\ Append(r, f) \in Seq(Files) /\ Len(Append(r, f)) = Len(r) + 1
      /\ \A n \in 1 .. Len(r) + 1 : Append(r, f)[n] = IF n <= Len(r) THEN r[n] ELSE f
  BY <1>1, <1>4
<1>6. \A d \in Procs : d # c => /\ todo'[d] = todo[d] /\ file_no'[d] = file_no[d]
                                /\ virus_countdown'[d] = virus_countdown[d]
                                /\ pending'[d] = pending[d] /\ reports'[d] = reports[d]
  BY <1>1, <1>2, <1>4
<1>7. /\ todo'[c] = f + 1 /\ file_no'[c] = Position(f)
      /\ \/ more /\ virus_countdown'[c] = virus_countdown[c] - 1 /\ pending'[c] = Fields
                 /\ reports'[c] = Append(r, f)
         \/ ~more /\ virus_countdown'[c] = virus_countdown[c] /\ pending'[c] = 0
                  /\ reports'[c] = r
  BY <1>1, <1>2, <1>4
<1>8. more => Mine(c, f) /\ Infected(f) /\ virus_countdown[c] - 1 \in 0 .. MaxReports
  BY <1>4
<1>9. Collector!CInv'
  BY <1>3, CollectorCollect DEF VInv
<1>10. VTypeOK'
  <2>1. Position(f) \in -1 .. max_pids - 1
    BY <1>1, NextPosition DEF Slots
  <2>2. todo' \in [Procs -> 1 .. NFiles + 1] /\ file_no' \in [Procs -> -1 .. max_pids - 1]
    BY <1>1, <1>4, <2>1
  <2>3. /\ virus_countdown' \in [Procs -> 0 .. MaxReports] /\ pending' \in [Procs -> 0 .. Fields]
        /\ reports' \in [Procs -> Seq(Files)]
    <3>1. CASE more
      <4>1. virus_countdown[c] - 1 \in 0 .. MaxReports /\ Fields \in 0 .. Fields
        BY <1>8, <3>1 DEF Fields
      <4> HIDE DEF f, r, more
      <4>2. /\ virus_countdown' = [virus_countdown EXCEPT ![c] = virus_countdown[c] - 1]
            /\ pending' = [pending EXCEPT ![c] = Fields]
            /\ reports' = [reports EXCEPT ![c] = Append(r, f)]
        BY <1>2, <3>1
      <4>3. virus_countdown' \in [Procs -> 0 .. MaxReports] /\ pending' \in [Procs -> 0 .. Fields]
        BY <1>4, <4>1, <4>2
      <4>4. reports' \in [Procs -> Seq(Files)]
        BY <1>4, <1>5, <4>2
      <4> QED
        BY <4>3, <4>4
    <3>2. CASE ~more
      <4> HIDE DEF more
      <4> QED
        BY <1>2, <1>4, <3>2
    <3> QED
      BY <3>1, <3>2
  <2> QED
    BY <1>0, <1>3, <2>2, <2>3 DEF VInv, VTypeOK, parent
<1>11. Counters' /\ Sent' /\ SpoiltForCause'
  <2>1. ASSUME NEW d \in Procs
        PROVE  /\ file_no'[d] = IF todo'[d] = 1 THEN -1 ELSE Position(todo'[d] - 1)
               /\ virus_countdown'[d] = MaxReports - Len(reports'[d])
               /\ pending'[d] > 0 => Len(reports'[d]) > 0
               /\ Fields * Len(reports'[d]) - pending'[d] = Fields * Len(reports[d]) - pending[d]
    <3>1. /\ file_no[d] = IF todo[d] = 1 THEN -1 ELSE Position(todo[d] - 1)
          /\ virus_countdown[d] = MaxReports - Len(reports[d])
          /\ pending[d] > 0 => Len(reports[d]) > 0
      BY DEF VInv, Counters
    <3>2. CASE d # c
      BY <1>6, <3>1, <3>2
    <3>3. CASE d = c
      <4>1. f + 1 # 1 /\ (f + 1) - 1 = f
        BY <1>1 DEF Files
      <4>2. Fields * (Len(r) + 1) - Fields = Fields * Len(r) - 0 /\ Len(r) + 1 > 0
        BY <1>4 DEF Fields
      <4>3. (MaxReports - Len(r)) - 1 = MaxReports - (Len(r) + 1)
        BY <1>4
      <4> QED
        BY <1>1, <1>5, <1>7, <3>1, <3>3, <4>1, <4>2, <4>3
    <3> QED
      BY <3>2, <3>3
  <2>2. Counters'
    BY <2>1 DEF Counters, Position
  <2>3. Sent'
    BY <1>0, <2>1 DEF VInv, Sent
  <2>4. SpoiltForCause'
    BY <1>0, <1>3 DEF VInv, SpoiltForCause, Infected
  <2> QED
    BY <2>2, <2>3, <2>4
<1>12. ReportsOwn'
  <2>1. \A d, g : Mine(d, g)' <=> Mine(d, g)
    BY <1>3 DEF Mine, Position
  <2>2. \A g : Infected(g)' <=> Infected(g)
    BY <1>3 DEF Infected
  <2>3. ASSUME NEW d \in Procs, NEW n \in 1 .. Len(reports'[d])
        PROVE  /\ reports'[d][n] < todo'[d] /\ Mine(d, reports'[d][n]) /\ Infected(reports'[d][n])
               /\ \A m \in 1 .. Len(reports'[d]) : reports'[d][m] = reports'[d][n] => m = n
    <3>1. CASE d # c
      BY <1>6, <2>3, <3>1 DEF VInv, ReportsOwn
    <3>2. CASE d = c
      <4>1. \A k \in 1 .. Len(r) :
               /\ r[k] \in Nat /\ r[k] < f /\ Mine(c, r[k]) /\ Infected(r[k])
               /\ \A m \in 1 .. Len(r) : r[m] = r[k] => m = k
        <5>1. \A k \in 1 .. Len(r) : r[k] \in Files
          BY <1>4
        <5> QED
          BY <5>1 DEF VInv, ReportsOwn, Files
      <4>0. f \in Nat /\ Len(r) \in Nat
        BY <1>1, <1>4
      <4> HIDE DEF f, r, more
      <4>2. CASE ~more
        <5>1. reports'[d] = r /\ todo'[d] = f + 1 /\ n \in 1 .. Len(r)
          BY <1>7, <2>3, <3>2, <4>2
        <5> QED
          BY <3>2, <4>1, <4>0, <5>1
      <4>3. CASE more
        <5>1. reports'[d] = Append(r, f) /\ n \in 1 .. Len(r) + 1
          BY <1>5, <1>7, <2>3, <3>2, <4>3
        <5>2. CASE n = Len(r) + 1
          <6>1. \A m \in 1 .. Len(r) + 1 : Append(r, f)[m] = f => m = n
            BY <1>5, <4>1, <4>0, <5>2
          <6> QED
            BY <1>5, <1>7, <1>8, <3>2, <4>3, <4>0, <5>1, <5>2, <6>1
        <5>3. CASE n \in 1 .. Len(r)
          <6>1. Append(r, f)[n] = r[n] /\ r[n] < f /\ r[n] < f + 1
            BY <1>5, <4>1, <4>0, <5>3
          <6>2. ASSUME NEW m \in 1 .. Len(r) + 1, Append(r, f)[m] = r[n] PROVE m = n
            <7>1. CASE m \in 1 .. Len(r)
              <8>1. r[m] = r[n]
                BY <1>5, <6>2, <7>1, <4>0
              <8> QED
                BY <4>1, <5>3, <7>1, <8>1
            <7>2. CASE m = Len(r) + 1
              <8>1. f = r[n]
                BY <1>5, <4>0, <6>2, <7>2
              <8> QED
                BY <4>0, <6>1, <8>1
            <7> QED
              BY <4>0, <7>1, <7>2
          <6>3. reports'[d][n] = r[n] /\ todo'[d] = f + 1 /\ Len(reports'[d]) = Len(r) + 1
            BY <1>5, <1>7, <3>2, <5>1, <6>1
          <6>4. Mine(c, r[n]) /\ Infected(r[n])
            BY <4>1, <5>3
          <6>5. reports'[d][n] < todo'[d] /\ Mine(d, reports'[d][n]) /\ Infected(reports'[d][n])
            BY <3>2, <6>1, <6>3, <6>4
          <6>6. ASSUME NEW m \in 1 .. Len(reports'[d]), reports'[d][m] = reports'[d][n]
                PROVE  m = n
            <7>1. m \in 1 .. Len(r) + 1 /\ Append(r, f)[m] = r[n]
              BY <5>1, <6>3, <6>6
            <7> QED
              BY <6>2, <7>1
          <6> QED
            BY <6>5, <6>6
        <5> QED
          BY <4>0, <5>1, <5>2, <5>3
      <4> QED
        BY <4>2, <4>3
    <3> QED
      BY <3>1, <3>2
  <2> QED
    BY <2>1, <2>2, <2>3 DEF ReportsOwn
<1>13. ReportsAll'
  <2>1. \A d \in Procs, g \in Files : Mine(d, g)' <=> Mine(d, g)
    BY <1>3 DEF Mine, Position
  <2>2. \A g \in Files : Infected(g)' <=> Infected(g)
    BY <1>3 DEF Infected
  <2>3. ASSUME NEW d \in Procs, NEW g \in Files, g < todo'[d], Mine(d, g)
        PROVE  /\ kind[g] # "error"
               /\ Infected(g) => g \in ReportedBy(d)' \/ virus_countdown'[d] = 0
    <3>1. CASE d # c
      <4>1. ReportedBy(d)' = ReportedBy(d)
        BY <1>6, <3>1 DEF ReportedBy
      <4> QED
        BY <1>6, <2>3, <3>1, <4>1 DEF VInv, ReportsAll
    <3>2. CASE d = c
      <4>1. ReportedBy(c) \subseteq ReportedBy(c)' /\ (more => f \in ReportedBy(c)')
        <5>1. CASE more
          <6>1. reports'[c] = Append(r, f)
            BY <1>7, <5>1
          <6>2. ASSUME NEW n \in 1 .. Len(r)
                PROVE  n \in 1 .. Len(Append(r, f)) /\ Append(r, f)[n] = r[n]
            BY <1>4, <1>5
          <6>3. Len(r) + 1 \in 1 .. Len(Append(r, f)) /\ Append(r, f)[Len(r) + 1] = f
            BY <1>4, <1>5
          <6>4. ReportedBy(c) = {x \in Files : \E n \in 1 .. Len(r) : r[n] = x}
            BY DEF ReportedBy
          <6>5. ReportedBy(c)' = {x \in Files : \E n \in 1 .. Len(Append(r, f)) : Append(r, f)[n] = x}
            BY <6>1 DEF ReportedBy
          <6> HIDE DEF f, r
          <6> QED
            BY <1>1, <6>2, <6>3, <6>4, <6>5
        <5>2. CASE ~more
          BY <1>7, <5>2 DEF ReportedBy
        <5> QED
          BY <5>1, <5>2
      <4>2. CASE g = f
        BY <1>1, <1>7, <2>3, <3>2, <4>1, <4>2
      <4>3. CASE g # f
        <5>1. g < f
          BY <1>1, <1>7, <2>3, <3>2, <4>3 DEF Files
        <5>2. kind[g] # "error" /\ (Infected(g) => g \in ReportedBy(c) \/ virus_countdown[c] = 0)
          BY <2>3, <3>2, <5>1 DEF VInv, ReportsAll
        <5>3. virus_countdown[c] = 0 => virus_countdown'[c] = 0
          BY <1>7
        <5> QED
          BY <3>2, <4>1, <5>2, <5>3
      <4> QED
        BY <4>2, <4>3
    <3> QED
      BY <3>1, <3>2
  <2> QED
    BY <1>3, <2>1, <2>2, <2>3 DEF ReportsAll
<1>14. DoneFirst'
  <2>1. UNCHANGED <<proc, status, wopen>>
    BY <1>3 DEF parallelVars, kernel
  <2> QED
    BY <1>3, <1>6, <2>1 DEF VInv, DoneFirst
<1>15. /\ StagePosition' /\ OwnSlots' /\ Returned' /\ AbortOnlyForCause'
       /\ ConsumedSucceeded' /\ AddedMatch' /\ ResultMatch'
  <2>1. UNCHANGED <<collector, pc, slot, winch, proc, status, written>> /\ status[c] = "exit0"
    BY <1>3 DEF parallelVars, collector, kernel, VInv, DoneFirst
  <2> QED
    BY <1>0, <1>3, <1>6, <2>1, ChildBooks
<1> QED
  BY <1>9, <1>10, <1>11, <1>12, <1>13, <1>14, <1>15 DEF VInv

LEMMA StepVInv == VInv /\ [Next]_vars => VInv'
<1> SUFFICES ASSUME VInv, [Next]_vars PROVE VInv'
  OBVIOUS
<1>1. CASE ParentStep \/ SetupReturnsFalse \/ ParentFails \/ Interrupted
  BY <1>1, ParentSteps, ForkChildStep, CollectStepStep, ConsumeStep, BadPointerStep,
     EndSteps DEF ParentStep
<1>2. ASSUME NEW c \in Procs, ChildStep(c) \/ WriteInterrupted(c) \/ Crash(c) PROVE VInv'
  <2>1. CASE NextFile(c)
    BY <2>1, NextFileStep
  <2>2. CASE WriteField(c) \/ ResendField(c) \/ WriteInterrupted(c)
    BY <2>2, FieldStep
  <2>3. CASE CloseWriteEnd(c)
    BY <2>3, ChildEnds DEF CloseWriteEnd, Statuses
  <2>4. CASE Quit(c)
    <3>1. todo[c] \notin Files /\ pending[c] = 0
      BY <2>4 DEF Quit, ChildExit, VInv, DoneFirst
    <3> QED
      BY <2>4, <3>1, ChildEnds DEF Quit, Statuses
  <2>5. CASE ScanError(c)
    BY <2>5, ChildEnds DEF ScanError, Statuses
  <2>6. CASE BrokenPipe(c) \/ Crash(c)
    BY <2>6, ChildEnds DEF BrokenPipe, Crash, Statuses
  <2> QED
    BY <1>2, <2>1, <2>2, <2>3, <2>4, <2>5, <2>6 DEF ChildStep
<1>3. CASE Terminated \/ UNCHANGED vars
  <2>1. UNCHANGED <<parallelVars, kind, parent, children>>
    BY <1>3 DEF Terminated, vars
  <2>2. Collector!CInv'
    BY <2>1, CollectorCollect DEF VInv
  <2>3. UNCHANGED <<written, proc, status, wopen, pid, exit_status, output_len, pc, slot, winch>>
    BY <2>1 DEF parallelVars, collector, kernel
  <2>4. Counters' /\ Sent' /\ SpoiltForCause' /\ ReportsOwn' /\ ReportsAll' /\ DoneFirst'
    BY <2>1, <2>3, ChildrenStay DEF VInv, DoneFirst
  <2>5. AddedMatch' /\ ResultMatch' /\ ConsumedSucceeded'
    BY <2>1, <2>3, BooksStay DEF Consumed, parent, children
  <2>6. VTypeOK' /\ StagePosition' /\ OwnSlots' /\ Returned' /\ AbortOnlyForCause'
    <3>1. VTypeOK' /\ StagePosition' /\ OwnSlots'
      BY <2>1, <2>3 DEF VInv, VTypeOK, StagePosition, OwnSlots, parent, children
    <3>2. Returned' /\ AbortOnlyForCause'
      BY <2>1, <2>3 DEF VInv, Returned, AbortOnlyForCause, Infected, parent, children
    <3> QED
      BY <3>1, <3>2
  <2> QED
    BY <2>2, <2>4, <2>5, <2>6 DEF VInv
<1> QED
  BY <1>1, <1>2, <1>3 DEF Next

LEMMA Invariance == Spec => []VInv
BY InitVInv, StepVInv, PTL DEF Spec

-----------------------------------------------------------------------------
(* The program is aborted while children are collected only because one of  *)
(* them did not succeed or waitpid() was interrupted: for any cap that      *)
(* keeps the output of a child below the collector's limit, and any number  *)
(* of children, neither that limit nor the table of slots is the cause.     *)
THEOREM AbortsForCause == Spec => []AbortOnlyForCause
<1>1. VInv => AbortOnlyForCause
  BY DEF VInv
<1> QED
  BY <1>1, Invariance, PTL

(* A verdict is given only when every child has gone through all the files, *)
(* has exited with success and was waited for, and all pipes are closed.    *)
THEOREM VerdictIsComplete == Spec => []VerdictOnlyOfCompleteScan
<1>1. ASSUME VInv PROVE VerdictOnlyOfCompleteScan
  <2> SUFFICES ASSUME stage = "returned", info
               PROVE  /\ \A c \in Procs : proc[c] = "reaped" /\ status[c] = "exit0" /\ todo[c] \notin Files
                      /\ \A i \in Slots : fd[i] = NoProc
                      /\ (ok <=> result)
    BY DEF VerdictOnlyOfCompleteScan
  <2>1. /\ \A i \in Slots : pid[i] = NoProc
        /\ \A c \in Procs : proc[c] = "reaped"
    BY <1>1, AllReaped
  <2>2. \A c \in Procs : status[c] = "exit0" /\ todo[c] \notin Files
    BY <1>1, <2>1 DEF VInv, ConsumedSucceeded, Consumed, DoneFirst
  <2>3. \A i \in Slots : fd[i] = NoProc
    BY <1>1, <2>1, CollectorFacts DEF VInv
  <2> QED
    BY <1>1, <2>1, <2>2, <2>3 DEF VInv, StagePosition
<1> QED
  BY <1>1, Invariance, PTL

(***************************************************************************)
(* The inspection implements its promise.  Collecting a child's output is  *)
(* AddResults for the files it reported; returning is Finish; everything   *)
(* else the parent and the children do either ends the inspection or is    *)
(* not seen.                                                               *)
(***************************************************************************)

LEMMA SamePromise ==
    /\ Promise!Files = Files
    /\ Promise!Infected = {f \in Files : Infected(f)}
    /\ Promise!Due = {f \in Files : Infected(f) /\ kind[f] # "SKIP"}
    /\ Promise!Missing = {f \in Files : Infected(f) /\ kind[f] # "SKIP" /\ added[f] = 0}
    /\ Promise!Unsafe <=> winch > 0 \/ \E f \in Files : Infected(f) /\ four[f] # {}
BY DEF Promise!Unsafe, Promise!Files, Files, Promise!Infected, Infected, Promise!Due, Promise!Missing

LEMMA PromiseInit == Init => Promise!Init
<1> SUFFICES ASSUME Init PROVE Promise!Init
  OBVIOUS
<1>1. /\ kind \in [Files -> {"BAD", "INFO", "SKIP", "clean", "irregular", "error"}]
      /\ four \in [Files -> SUBSET {1, 3}]
  BY ScanAssumption DEF Init, Kinds, Name, Path
<1>2. ~(winch > 0) /\ added = [f \in Files |-> 0] /\ outcome = "running"
  BY DEF Init, ParallelInit, outcome
<1> QED
  BY <1>1, <1>2, SamePromise DEF Promise!Init

(* Each file has an owner, who has come past it once it is done.            *)
LEMMA OwnerIsDone ==
    ASSUME VInv, NEW f \in Files, \A c \in Procs : todo[c] \notin Files
    PROVE  \E c \in Procs : c = Position(f) /\ f < todo[c]
<1>1. Position(f) \in Procs
  BY NextPosition, ScanAssumption
<1>2. ASSUME NEW c \in Procs PROVE todo[c] = NFiles + 1
  <2>1. NFiles \in Nat
    BY ScanAssumption
  <2>2. todo[c] \in 1 .. NFiles + 1 /\ todo[c] \notin 1 .. NFiles
    BY DEF VInv, VTypeOK, Files
  <2> QED
    BY <2>1, <2>2
<1> QED
  BY <1>1, <1>2, ScanAssumption DEF Files

(* A complete scan misses nothing, unless a child reached the cap or was    *)
(* spoilt.                                                                  *)
LEMMA CompleteScan ==
    ASSUME VInv, \A c \in Procs : todo[c] \notin Files /\ Consumed(c)
    PROVE  /\ \A f \in Files : kind[f] # "error"
           /\ Promise!Missing # {} /\ ~Promise!Unsafe
                  => Promise!Cardinality(Promise!Infected \ Promise!Missing) >= MaxReports
<1>1. \A f \in Files : kind[f] # "error"
  <2> SUFFICES ASSUME NEW f \in Files, kind[f] = "error" PROVE FALSE
    OBVIOUS
  <2>1. PICK c \in Procs : c = Position(f) /\ f < todo[c]
    BY OwnerIsDone
  <2> QED
    BY <2>1 DEF VInv, ReportsAll, Mine
<1>2. ASSUME NEW f \in Promise!Missing, ~Promise!Unsafe
      PROVE  Promise!Cardinality(Promise!Infected \ Promise!Missing) >= MaxReports
  <2>1. f \in Files /\ Infected(f) /\ kind[f] # "SKIP" /\ added[f] = 0
    BY SamePromise
  <2>2. PICK c \in Procs : c = Position(f) /\ f < todo[c]
    BY <2>1, OwnerIsDone
  <2>0. \A d \in Procs : spoilt[d] = 0
    BY <1>2, SamePromise DEF VInv, SpoiltForCause
  <2>3. f \notin ReportedBy(c)
    BY <2>0, <2>1 DEF VInv, AddedMatch
  <2>4. virus_countdown[c] = 0
    BY <2>1, <2>2, <2>3 DEF VInv, ReportsAll, Mine, Infected
  <2>5. Len(reports[c]) = MaxReports /\ MaxReports \in Nat
    BY <2>4, ScanAssumption DEF VInv, VTypeOK, Counters
  <2> DEFINE Found == Promise!Infected \ Promise!Missing
             at == [n \in 1 .. MaxReports |-> reports[c][n]]
  <2>6. ASSUME NEW n \in 1 .. MaxReports
        PROVE  /\ reports[c][n] \in Found
               /\ \A m \in 1 .. MaxReports : reports[c][m] = reports[c][n] => m = n
    <3>1. reports[c][n] \in Files
      BY <2>5 DEF VInv, VTypeOK
    <3>2. /\ Infected(reports[c][n])
          /\ \A m \in 1 .. MaxReports : reports[c][m] = reports[c][n] => m = n
      BY <2>5 DEF VInv, ReportsOwn
    <3>3. reports[c][n] \in ReportedBy(c)
      BY <2>5, <3>1 DEF ReportedBy
    <3>4. kind[reports[c][n]] # "SKIP" => added[reports[c][n]] = 1
      BY <2>0, <3>1, <3>3 DEF VInv, AddedMatch
    <3> QED
      BY <3>1, <3>2, <3>4, SamePromise
  <2>7. IsFiniteSet(Found)
    <3>1. IsFiniteSet(Files)
      BY FS_Interval, ScanAssumption DEF Files
    <3>2. Found \subseteq Files
      BY SamePromise
    <3> QED
      BY <3>1, <3>2, FS_Subset
  <2>8. at \in Injection(1 .. MaxReports, Found)
    BY <2>6 DEF Injection, IsInjective
  <2>9. IsFiniteSet(1 .. MaxReports) /\ Cardinality(1 .. MaxReports) = MaxReports
    BY <2>5, FS_Interval
  <2>10. Cardinality(1 .. MaxReports) <= Cardinality(Found)
    BY <2>7, <2>8, <2>9, FS_Injection
  <2>11. Cardinality(Found) \in Nat
    BY <2>7, FS_CardinalityType
  <2>12. Promise!Cardinality(Found) = Cardinality(Found)
    BY DEF Promise!Cardinality, Cardinality
  <2> QED
    BY <2>5, <2>9, <2>10, <2>11, <2>12
<1> QED
  BY <1>1, <1>2

LEMMA PromiseStep == ASSUME VInv, [Next]_vars PROVE [Promise!Next]_Promise!promiseVars
<1> USE DEF Promise!promiseVars
<1>1. CASE ConsumeOutput \/ ConsumeSpoilt
  <2>0. slot \in Procs
    BY <1>1, ConsumeAdds
  <2>1. PICK S \in SUBSET {f \in ReportedBy(slot) : kind[f] # "SKIP"} :
           /\ \A f \in S : added[f] = 0
           /\ added' = [f \in Files |-> IF f \in S THEN 1 ELSE added[f]]
    BY <1>1, ConsumeAdds
  <2>2. S \in SUBSET Promise!Due
    <3>1. ASSUME NEW f \in S PROVE f \in Files /\ Infected(f) /\ kind[f] # "SKIP"
      BY <2>0, <2>1 DEF VInv, ReportsOwn, ReportedBy
    <3> QED
      BY <3>1, SamePromise
  <2>3. outcome = "running" /\ UNCHANGED <<kind, four, winch, outcome>>
    BY <1>1 DEF ConsumeOutput, ConsumeSpoilt, outcome, children
  <2>4. Promise!AddResults(S)
    BY <2>1, <2>3, SamePromise DEF Promise!AddResults
  <2> QED
    BY <2>2, <2>4 DEF Promise!Next
<1>2. CASE Return
  <2>1. stage = "delete" /\ pc = "deleted" /\ info
    BY <1>2 DEF Return, VInv, StagePosition
  <2>2. \A c \in Procs : todo[c] \notin Files /\ Consumed(c)
    BY <2>1, AllReaped DEF VInv, ConsumedSucceeded, Consumed, DoneFirst
  <2>3. /\ \A f \in Promise!Files : kind[f] # "error"
        /\ Promise!Missing # {} /\ ~Promise!Unsafe
               => Promise!Cardinality(Promise!Infected \ Promise!Missing) >= MaxReports
    BY <2>2, CompleteScan, SamePromise
  <2>4. outcome = "running" /\ outcome' = (IF result THEN "passed" ELSE "failed")
        /\ UNCHANGED <<kind, four, winch, added>>
    BY <1>2, <2>1 DEF Return, outcome, parallelVars, children
  <2>5. result <=> ~\E f \in Promise!Files : added[f] > 0 /\ kind[f] = "BAD"
    <3>1. \A f \in Files : added[f] \in Nat
      BY DEF VInv, VTypeOK
    <3>2. result <=> \A f \in Files : kind[f] = "BAD" => added[f] = 0
      BY <2>1 DEF VInv, ResultMatch
    <3>3. (\A f \in Files : kind[f] = "BAD" => added[f] = 0)
              <=> ~\E f \in Files : added[f] > 0 /\ kind[f] = "BAD"
      BY <3>1
    <3> QED
      BY <3>2, <3>3, SamePromise
  <2>6. Promise!Finish
    BY <2>3, <2>4, <2>5 DEF Promise!Finish
  <2> QED
    BY <2>6 DEF Promise!Next
<1>3. CASE SetupReturnsFalse
  <2>1. \A f \in Files : added[f] = 0
    BY <1>3, ScanAssumption, ParallelAssumption
    DEF SetupReturnsFalse, VInv, StagePosition, OwnSlots, AddedMatch, Consumed, Slots
  <2>2. outcome = "running" /\ outcome' = "skipped" /\ UNCHANGED <<kind, four, winch, added>>
    BY <1>3 DEF SetupReturnsFalse, outcome, VInv, StagePosition, parallelVars, children
  <2> QED
    BY <2>1, <2>2, SamePromise DEF Promise!Next, Promise!CannotScan
<1>4. CASE ParentFails \/ ChildHasFailed \/ Interrupted
  <2>1. outcome = "running" /\ outcome' = "aborted" /\ UNCHANGED <<kind, four, added>>
    BY <1>4 DEF ParentFails, ChildHasFailed, Interrupted, WaitInterrupted, parent, outcome,
       children, VInv, StagePosition
  <2>2. winch' = winch \/ winch' > 0
    BY <1>4, CollectorFacts
    DEF VInv, ParentFails, ChildHasFailed, Interrupted, WaitInterrupted
  <2> QED
    BY <2>1, <2>2 DEF Promise!Next, Promise!Abort
<1>5. CASE Setup \/ ForkChild \/ ForkedAll \/ CollectOne \/ CollectStep \/ CollectedAll \/ DeleteStep
  <2>1. UNCHANGED <<kind, four, winch, added, outcome>>
    <3>1. UNCHANGED <<kind, four, added, result>>
      BY <1>5 DEF Setup, ForkChild, ForkedAll, CollectOne, CollectStep, CollectedAll, DeleteStep,
         parent, children
    <3>4. UNCHANGED winch
      BY <1>5, ForkChildStep, DeleteEmpty
      DEF Setup, ForkChild, insert_new_pid_and_fd, ForkedAll, CollectOne, collect_one, CollectStep,
          collect_one_steps, Poll, ScanDone, ReadData, ReadEof, Wait, Handle, CollectedAll,
          delete_parallel, parallelVars
    <3>2. pc # "exited" /\ pc' # "exited"
      BY <1>5, ForkChildStep, CollectStepStep, DeleteEmpty
      DEF Setup, ForkChild, insert_new_pid_and_fd, ForkedAll, CollectOne, collect_one, CollectedAll,
          delete_parallel, DeleteStep, DeleteSlot, parallelVars
    <3>3. stage \notin {"returned", "crashed"} /\ stage' \notin {"returned", "crashed"}
      BY <1>5, CollectStepStep, DeleteEmpty
      DEF Setup, ForkChild, ForkedAll, CollectOne, CollectStep, CollectedAll, DeleteStep, parent
    <3> QED
      BY <3>1, <3>2, <3>3, <3>4 DEF outcome
  <2> QED
    BY <2>1
<1>6. ASSUME NEW c \in Procs, ChildStep(c) \/ Crash(c)
      PROVE  UNCHANGED Promise!promiseVars
  BY <1>6
  DEF ChildStep, Crash, NextFile, ScanError, WriteField, ResendField, BrokenPipe, CloseWriteEnd,
      Quit, ChildWrite, ChildClose, ChildExit, parallelVars, parent, children, outcome
<1>7. CASE Terminated \/ UNCHANGED vars
  BY <1>7 DEF Terminated, vars, parallelVars, parent, children, outcome
<1>8. CASE BadPointer
  <2>1. Promise!Unsafe
    BY <1>8, BadPointerStep, SamePromise
  <2>2. outcome = "running" /\ outcome' = "crashed" /\ UNCHANGED <<kind, four, winch, added>>
    BY <1>8 DEF BadPointer, outcome, children
  <2> QED
    BY <2>1, <2>2 DEF Promise!Next, Promise!Crash
<1>9. ASSUME NEW c \in Procs, WriteInterrupted(c)
      PROVE  Promise!Resize
  <2>1. winch' > 0 /\ UNCHANGED <<kind, four, added>>
    BY <1>9, CollectorFacts DEF VInv, WriteInterrupted, parent
  <2>2. UNCHANGED outcome
    BY <1>9 DEF WriteInterrupted, parent, outcome
  <2> QED
    BY <2>1, <2>2 DEF Promise!Resize
<1> QED
  BY <1>1, <1>2, <1>3, <1>4, <1>5, <1>6, <1>7, <1>8, <1>9 DEF Next, ParentStep, Promise!Next

(* Whatever the children do and whenever they end, crash or are delayed,    *)
(* every behaviour of the inspection is one its promise allows: each        *)
(* infected file that is due is added once, none is left out of a verdict   *)
(* unless a child reached its cap, and the verdict is the worst of what was *)
(* added.                                                                   *)
THEOREM PromiseKept == Spec => KeepsPromise
<1>1. Init => Promise!Init
  BY PromiseInit
<1>2. VInv /\ [Next]_vars => [Promise!Next]_Promise!promiseVars
  BY PromiseStep
<1> QED
  BY <1>1, <1>2, Invariance, PTL DEF Spec, KeepsPromise, Promise!Spec
=============================================================================
