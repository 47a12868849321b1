--------------------------- MODULE ParallelProofs ---------------------------
(***************************************************************************)
(* Proofs that the collector keeps its books, for every number of slots    *)
(* and children, every pipe and buffer size, and every amount of output.   *)
(***************************************************************************)
EXTENDS ParallelClient, FiniteSetTheorems, TLAPS

(***************************************************************************)
(* The inductive invariant.  The properties of ParallelClient speak of the *)
(* count, the polled slots and the output; what makes them inductive is    *)
(* how the table and the kernel agree: a slot's descriptor is the pipe of  *)
(* the child in that slot, no two slots hold one child, and what poll()    *)
(* marked is counted by ready_fds.                                         *)
(***************************************************************************)

Collecting == pc \in {"client", "poll", "scan", "wait"}
Deleting == pc \in {"kill", "delete"}
Unreaped(p) == proc[p] \in {"alive", "zombie"}

SlotsMatch == \A i \in Slots : fd[i] # NoProc => pid[i] = fd[i]

PidsDistinct == \A i, j \in Slots : pid[i] = pid[j] /\ pid[i] # NoProc => i = j

PidsUnreaped == Collecting => \A i \in Slots : pid[i] # NoProc => Unreaped(pid[i])

Unforked ==
    \A p \in Procs : proc[p] = "none" =>
        chan[p] = 0 /\ written[p] = 0 /\ \A i \in Slots : pid[i] # p

WritersAlive == \A p \in wopen : proc[p] = "alive"

PolledCounted == ready_fds = Cardinality(revents)

PolledReadable == Collecting => \A i \in revents : Readable(i)

Waiting ==
    pc = "wait" =>
        /\ slot \in Slots /\ fd[slot] = NoProc /\ pid[slot] # NoProc
        /\ output_len[slot] = written[pid[slot]] /\ pid[slot] \notin wopen

SlotInTable == Deleting => slot \in Slots

NoneLost ==
    \A p \in Procs : Unreaped(p) =>
        /\ Collecting => \E i \in Slots : pid[i] = p
        /\ Deleting => winch > 0 \/ \E i \in Slots : slot <= i /\ pid[i] = p
        /\ pc = "deleted" => winch > 0

OutputKept ==
    pc # "exited" => \A i \in Slots : fd[i] # NoProc =>
                        output_len[i] + chan[fd[i]] = written[fd[i]]

\* The types of the collector's own variables.
ParallelTypeOK ==
    /\ running \in Nat /\ ready_fds \in Nat
    /\ fd \in [Slots -> Procs \cup {NoProc}]
    /\ pid \in [Slots -> Procs \cup {NoProc}]
    /\ revents \in SUBSET Slots
    /\ output_len \in [Slots -> 0 .. max_len]
    /\ exit_status \in [Slots -> Statuses]
    /\ pc \in {"client", "poll", "scan", "wait", "kill", "delete", "deleted", "exited"}
    /\ slot \in Slots \cup {NoSlot}
    /\ chan \in [Procs -> 0 .. PipeCap]
    /\ wopen \in SUBSET Procs
    /\ proc \in [Procs -> {"none", "alive", "zombie", "reaped"}]
    /\ status \in [Procs -> Statuses]
    /\ winch \in 0 .. MaxWinch
    /\ written \in [Procs -> Nat]

\* What every client of the collector keeps, whatever it calls next, and
\* whatever its children do after it is gone.
CInv ==
    /\ ParallelTypeOK
    /\ RunningCount
    /\ SlotsMatch
    /\ PidsDistinct
    /\ PidsUnreaped
    /\ Unforked
    /\ WritersAlive
    /\ PolledCounted
    /\ PolledReadable
    /\ Waiting
    /\ SlotInTable
    /\ NoneLost
    /\ OutputKept

IInv ==
    /\ CInv
    /\ todo \in [Procs -> 0 .. MaxWrites]
    /\ ExitOnlyForCause

-----------------------------------------------------------------------------
LEMMA SlotsFinite == IsFiniteSet(Slots) /\ Cardinality(Slots) = max_pids
BY ParallelAssumption, FS_Interval DEF Slots

LEMMA InitCInv == ParallelInit => CInv
<1> SUFFICES ASSUME ParallelInit PROVE CInv
  OBVIOUS
<1> USE ParallelAssumption DEF ParallelInit
<1>1. ParallelTypeOK
  BY DEF ParallelTypeOK, Slots, NoSlot, Statuses
<1>2. RunningCount
  <2>1. {i \in Slots : pid[i] # NoProc} = {}
    OBVIOUS
  <2> QED
    BY <2>1, FS_EmptySet DEF RunningCount
<1>3. SlotsMatch /\ PidsDistinct /\ PidsUnreaped /\ Unforked /\ WritersAlive
  BY DEF SlotsMatch, PidsDistinct, PidsUnreaped, Unforked, WritersAlive
<1>4. PolledCounted
  BY FS_EmptySet DEF PolledCounted
<1>5. PolledReadable /\ Waiting /\ SlotInTable /\ NoneLost /\ OutputKept
  BY DEF PolledReadable, Waiting, SlotInTable, NoneLost, OutputKept,
         Deleting, Unreaped
<1> QED
  BY <1>1, <1>2, <1>3, <1>4, <1>5 DEF CInv

(* The table has a free slot as long as fewer than max_pids children run.   *)
LEMMA RoomWhileFewRun == ASSUME CInv, running < max_pids PROVE Free # {}
<1>1. CASE Free = {}
  <2>1. {i \in Slots : pid[i] # NoProc} = Slots
    BY <1>1 DEF Free
  <2> QED
    BY <2>1, SlotsFinite, ParallelAssumption DEF CInv, RunningCount
<1> QED
  BY <1>1

LEMMA ForkStep ==
    ASSUME CInv, NEW p \in Procs, insert_new_pid_and_fd(p), Free # {}
    PROVE  CInv' /\ pc' = "client"
<1> USE ParallelAssumption
<1>2. PICK i \in Free : /\ running' = running + 1
                       /\ fd' = [fd EXCEPT ![i] = p]
                       /\ pid' = [pid EXCEPT ![i] = p]
                       /\ output_len' = [output_len EXCEPT ![i] = 0]
                       /\ pc' = pc /\ pc = "client"
                       /\ proc' = [proc EXCEPT ![p] = "alive"] /\ proc[p] = "none"
                       /\ wopen' = wopen \cup {p}
  BY DEF insert_new_pid_and_fd
<1>4. UNCHANGED <<ready_fds, revents, exit_status, slot, chan, status, winch, written>>
  BY DEF insert_new_pid_and_fd
<1>5. i \in Slots /\ pid[i] = NoProc /\ fd[i] = NoProc
  BY <1>2 DEF Free, CInv, ParallelTypeOK, SlotsMatch
<1> USE <1>2, <1>4, <1>5
<1>6. ParallelTypeOK'
  BY DEF CInv, ParallelTypeOK
<1>7. RunningCount'
  <2>1. {j \in Slots : pid'[j] # NoProc} = {j \in Slots : pid[j] # NoProc} \cup {i}
    BY DEF CInv, ParallelTypeOK
  <2>2. IsFiniteSet({j \in Slots : pid[j] # NoProc})
    BY SlotsFinite, FS_Subset
  <2> QED
    BY <2>1, <2>2, FS_AddElement DEF CInv, RunningCount
<1>8. SlotsMatch' /\ PidsDistinct' /\ PidsUnreaped' /\ Unforked' /\ WritersAlive'
  BY DEF CInv, ParallelTypeOK, SlotsMatch, PidsDistinct, PidsUnreaped, Unforked, WritersAlive,
         Collecting, Unreaped
<1>9. PolledCounted' /\ Waiting' /\ SlotInTable' 
  BY DEF CInv, PolledCounted, Waiting, SlotInTable, Deleting
<1>10. PolledReadable'
  BY DEF CInv, ParallelTypeOK, PolledReadable, Readable, Collecting, SlotsMatch, Unforked
<1>11. NoneLost'
  BY DEF CInv, ParallelTypeOK, NoneLost, Collecting, Deleting, Unreaped
<1>12. OutputKept'
  BY DEF CInv, ParallelTypeOK, OutputKept, SlotsMatch, Unforked
<1> QED
  BY <1>6, <1>7, <1>8, <1>9, <1>10, <1>11, <1>12 DEF CInv

(* Entering collect_one() or delete_parallel(), giving up in waitpid(), and *)
(* leaving the loop over the slots change the parent's position only.       *)
LEMMA PositionSteps ==
    ASSUME CInv, NEW kill_sig \in BOOLEAN,
           collect_one \/ ScanDone \/ WaitInterrupted \/ delete_parallel(kill_sig)
    PROVE  CInv'
<1> USE ParallelAssumption
<1>1. CASE collect_one
  <2> USE <1>1 DEF collect_one, collector, kernel
  <2>1. ParallelTypeOK' /\ RunningCount' /\ SlotsMatch' /\ PidsDistinct' /\ PidsUnreaped'
    BY DEF CInv, ParallelTypeOK, RunningCount, SlotsMatch, PidsDistinct, PidsUnreaped, Collecting,
           Unreaped, NoSlot
  <2>2. Unforked' /\ WritersAlive' /\ PolledCounted' /\ PolledReadable' /\ Waiting'
    BY DEF CInv, Unforked, WritersAlive, PolledCounted, PolledReadable, Waiting, Collecting,
           Readable
  <2>3. SlotInTable' /\ NoneLost' /\ OutputKept' 
    BY DEF CInv, SlotInTable, NoneLost, OutputKept, Collecting, Deleting,
           Unreaped
  <2> QED
    BY <2>1, <2>2, <2>3 DEF CInv
<1>2. CASE ScanDone
  <2> USE <1>2 DEF ScanDone, kernel
  <2>1. ready_fds' = ready_fds
    <3>1. CASE revents = {}
      BY <3>1, FS_EmptySet DEF CInv, PolledCounted
    <3> QED
      BY <3>1
  <2>2. ParallelTypeOK' /\ RunningCount' /\ SlotsMatch' /\ PidsDistinct' /\ PidsUnreaped'
    BY DEF CInv, ParallelTypeOK, RunningCount, SlotsMatch, PidsDistinct, PidsUnreaped, Collecting,
           Unreaped
  <2>3. Unforked' /\ WritersAlive' /\ PolledCounted' /\ PolledReadable' /\ Waiting'
    BY <2>1 DEF CInv, Unforked, WritersAlive, PolledCounted, PolledReadable, Waiting,
                Collecting, Readable
  <2>4. SlotInTable' /\ NoneLost' /\ OutputKept' 
    BY DEF CInv, SlotInTable, NoneLost, OutputKept, Collecting, Deleting,
           Unreaped
  <2> QED
    BY <2>2, <2>3, <2>4 DEF CInv
<1>3. CASE WaitInterrupted
  <2> USE <1>3 DEF WaitInterrupted, collector, kernel
  <2>1. ParallelTypeOK' /\ RunningCount' /\ SlotsMatch' /\ PidsDistinct' /\ PidsUnreaped'
    BY DEF CInv, ParallelTypeOK, RunningCount, SlotsMatch, PidsDistinct, PidsUnreaped, Collecting
  <2>2. Unforked' /\ WritersAlive' /\ PolledCounted' /\ PolledReadable' /\ Waiting'
    BY DEF CInv, Unforked, WritersAlive, PolledCounted, PolledReadable, Waiting, Collecting
  <2>3. SlotInTable' /\ NoneLost' /\ OutputKept' 
    BY DEF CInv, ParallelTypeOK, SlotInTable, NoneLost, OutputKept, Collecting,
           Deleting
  <2> QED
    BY <2>1, <2>2, <2>3 DEF CInv
<1>4. CASE delete_parallel(kill_sig)
  <2> USE <1>4 DEF delete_parallel, collector, kernel
  <2>1. 0 \in Slots
    BY DEF Slots
  <2>2. ParallelTypeOK' /\ RunningCount' /\ SlotsMatch' /\ PidsDistinct' /\ PidsUnreaped'
    BY <2>1 DEF CInv, ParallelTypeOK, RunningCount, SlotsMatch, PidsDistinct, PidsUnreaped, Collecting
  <2>3. Unforked' /\ WritersAlive' /\ PolledCounted' /\ PolledReadable' /\ Waiting'
    BY DEF CInv, Unforked, WritersAlive, PolledCounted, PolledReadable, Waiting, Collecting
  <2>4. SlotInTable' /\ NoneLost' /\ OutputKept' 
    BY <2>1 DEF CInv, SlotInTable, NoneLost, OutputKept, Collecting,
                Deleting, Unreaped, Slots
  <2> QED
    BY <2>2, <2>3, <2>4 DEF CInv
<1> QED
  BY <1>1, <1>2, <1>3, <1>4

(* So does a client that ends the program.                                  *)
LEMMA GiveUpStep ==
    ASSUME CInv, pc' = "exited", UNCHANGED <<collector, kernel, slot, winch, written>>
    PROVE  CInv'
<1> USE DEF collector, kernel
<1>1. ParallelTypeOK' /\ RunningCount' /\ SlotsMatch' /\ PidsDistinct' /\ PidsUnreaped'
  BY DEF CInv, ParallelTypeOK, RunningCount, SlotsMatch, PidsDistinct, PidsUnreaped, Collecting
<1>2. Unforked' /\ WritersAlive' /\ PolledCounted' /\ PolledReadable' /\ Waiting'
  BY DEF CInv, Unforked, WritersAlive, PolledCounted, PolledReadable, Waiting, Collecting
<1>3. SlotInTable' /\ NoneLost' /\ OutputKept'
  BY DEF CInv, SlotInTable, NoneLost, OutputKept, Collecting, Deleting
<1> QED
  BY <1>1, <1>2, <1>3 DEF CInv

(* So does one that lets go of the slot it was given.                       *)
LEMMA LetGoStep ==
    ASSUME CInv, pc = "client", slot' = NoSlot,
           UNCHANGED <<collector, pc, kernel, winch, written>>
    PROVE  CInv'
<1> USE DEF collector, kernel
<1>1. ParallelTypeOK' /\ RunningCount' /\ SlotsMatch' /\ PidsDistinct' /\ PidsUnreaped'
  BY DEF CInv, ParallelTypeOK, RunningCount, SlotsMatch, PidsDistinct, PidsUnreaped,
         Collecting, Unreaped
<1>2. Unforked' /\ WritersAlive' /\ PolledCounted' /\ PolledReadable' /\ Waiting'
  BY DEF CInv, Unforked, WritersAlive, PolledCounted, PolledReadable, Waiting, Collecting,
         Readable
<1>3. SlotInTable' /\ NoneLost' /\ OutputKept'
  BY DEF CInv, SlotInTable, NoneLost, OutputKept, Collecting, Deleting, Unreaped
<1> QED
  BY <1>1, <1>2, <1>3 DEF CInv

(* The terminal is resized while something of the client's waits.           *)
LEMMA ResizeStep ==
    ASSUME CInv, winch < MaxWinch, winch' = winch + 1,
           UNCHANGED <<collector, pc, slot, kernel, written>>
    PROVE  CInv'
<1> USE DEF collector, kernel
<1>1. winch' \in 0 .. MaxWinch /\ winch' > 0
  BY ParallelAssumption DEF CInv, ParallelTypeOK
<1>2. ParallelTypeOK' /\ RunningCount' /\ SlotsMatch' /\ PidsDistinct' /\ PidsUnreaped'
  BY <1>1 DEF CInv, ParallelTypeOK, RunningCount, SlotsMatch, PidsDistinct, PidsUnreaped,
              Collecting, Unreaped
<1>3. Unforked' /\ WritersAlive' /\ PolledCounted' /\ PolledReadable' /\ Waiting'
  BY DEF CInv, Unforked, WritersAlive, PolledCounted, PolledReadable, Waiting, Collecting,
         Readable
<1>4. SlotInTable' /\ OutputKept'
  BY DEF CInv, SlotInTable, OutputKept, Deleting
<1>5. NoneLost'
  BY <1>1 DEF CInv, NoneLost, Collecting, Deleting, Unreaped
<1> QED
  BY <1>2, <1>3, <1>4, <1>5 DEF CInv

LEMMA PollStep == ASSUME CInv, Poll PROVE CInv'
<1> USE ParallelAssumption DEF Poll, kernel
<1>1. /\ IsFiniteSet(revents')
      /\ Cardinality(revents') \in Nat
      /\ ready_fds' = Cardinality(revents')
  BY SlotsFinite, FS_Subset, FS_CardinalityType
<1>2. ParallelTypeOK' /\ RunningCount' /\ SlotsMatch' /\ PidsDistinct' /\ PidsUnreaped'
  BY <1>1 DEF CInv, ParallelTypeOK, RunningCount, SlotsMatch, PidsDistinct, PidsUnreaped, Collecting,
              Unreaped
<1>3. Unforked' /\ WritersAlive' /\ PolledCounted' /\ PolledReadable' /\ Waiting'
  BY <1>1 DEF CInv, Unforked, WritersAlive, PolledCounted, PolledReadable, Waiting, Readable
<1>4. SlotInTable' /\ NoneLost' /\ OutputKept' 
  BY DEF CInv, SlotInTable, NoneLost, OutputKept, Collecting, Deleting,
         Unreaped
<1> QED
  BY <1>2, <1>3, <1>4 DEF CInv

(* What both kinds of read() do to the result of the last poll().           *)
LEMMA HandleCounts ==
    ASSUME CInv, NEW i \in Slots, Handle(i)
    PROVE  ready_fds' \in Nat /\ ready_fds' = Cardinality(revents') /\ revents' \subseteq Slots
<1>1. IsFiniteSet(revents) /\ revents \subseteq Slots
  BY SlotsFinite, FS_Subset DEF CInv, ParallelTypeOK
<1>2. IsFiniteSet(revents') /\ Cardinality(revents') = Cardinality(revents) - 1
  BY <1>1, FS_RemoveElement DEF Handle
<1>3. Cardinality(revents') \in Nat
  BY <1>2, FS_CardinalityType
<1> QED
  BY <1>1, <1>2, <1>3 DEF CInv, Handle, PolledCounted

LEMMA ReadDataStep == ASSUME CInv, NEW i \in Slots, ReadData(i) PROVE CInv'
<1> USE ParallelAssumption
<1> DEFINE p == fd[i]
           r == Lesser(chan[p], BufSize)
<1>1. /\ pc = "scan" /\ i \in revents /\ revents' = revents \ {i}
      /\ chan' = [chan EXCEPT ![p] = @ - r]
      /\ IF output_len[i] + r > max_len
         THEN pc' = "exited" /\ output_len' = output_len
         ELSE output_len' = [output_len EXCEPT ![i] = output_len[i] + r] /\ pc' = pc
      /\ UNCHANGED <<running, fd, pid, exit_status, slot, wopen, proc, status, winch, written>>
  BY DEF ReadData, Handle
<1>2. ready_fds' \in Nat /\ ready_fds' = Cardinality(revents') /\ revents' \subseteq Slots
  BY HandleCounts DEF ReadData
<1>3. p \in Procs /\ pid[i] = p
  BY <1>1 DEF CInv, ParallelTypeOK, SlotsMatch, PolledReadable, Readable, Collecting
<1>4. r \in Nat /\ r <= chan[p] /\ chan[p] \in 0 .. PipeCap
  BY <1>3 DEF CInv, ParallelTypeOK, Lesser
<1> HIDE DEF r, p
<1>5. ParallelTypeOK'
  BY <1>1, <1>2, <1>3, <1>4 DEF CInv, ParallelTypeOK
<1>6. RunningCount' /\ SlotsMatch' /\ PidsDistinct' /\ PidsUnreaped' /\ WritersAlive'
  BY <1>1 DEF CInv, RunningCount, SlotsMatch, PidsDistinct, PidsUnreaped, WritersAlive,
              Collecting, Unreaped
<1>7. Unforked'
  BY <1>1, <1>3, <1>4 DEF CInv, ParallelTypeOK, Unforked
<1>8. PolledCounted'
  BY <1>2 DEF PolledCounted
<1>9. PolledReadable'
  <2> SUFFICES ASSUME Collecting', NEW j \in revents' PROVE Readable(j)'
    BY DEF PolledReadable
  <2>1. j # i /\ Readable(j) /\ j \in Slots
    BY <1>1 DEF CInv, ParallelTypeOK, PolledReadable, Collecting
  <2>2. fd[j] # p
    BY <1>3, <2>1 DEF CInv, SlotsMatch, PidsDistinct, Readable, p
  <2> QED
    BY <1>1, <2>1, <2>2 DEF Readable, CInv, ParallelTypeOK
<1>10. Waiting' /\ SlotInTable' /\ NoneLost'
  BY <1>1 DEF CInv, Waiting, SlotInTable, NoneLost, Collecting, Deleting, Unreaped
<1>11. OutputKept'
  <2> SUFFICES ASSUME pc' # "exited", NEW j \in Slots, fd[j] # NoProc
               PROVE  output_len'[j] + chan'[fd[j]] = written[fd[j]]
    BY <1>1 DEF OutputKept
  <2>1. fd[j] \in Procs /\ output_len[j] + chan[fd[j]] = written[fd[j]]
    BY <1>1 DEF CInv, ParallelTypeOK, OutputKept
  <2>2. CASE j = i
    BY <1>1, <1>3, <1>4, <2>1, <2>2 DEF CInv, ParallelTypeOK, p
  <2>3. CASE j # i
    <3>1. fd[j] # p
      BY <1>3, <2>1, <2>3 DEF CInv, SlotsMatch, PidsDistinct, p
    <3> QED
      BY <1>1, <2>1, <2>3, <3>1 DEF CInv, ParallelTypeOK
  <2> QED
    BY <2>2, <2>3
<1> QED
  BY <1>5, <1>6, <1>7, <1>8, <1>9, <1>10, <1>11 DEF CInv

(* Reading ends the program only when the child has written too much.       *)
LEMMA ReadDataExits ==
    ASSUME CInv, NEW i \in Slots, ReadData(i)
    PROVE  pc' = pc \/ (fd[i] \in Procs /\ written[fd[i]] > max_len)
<1> USE ParallelAssumption
<1> DEFINE p == fd[i]
           r == Lesser(chan[p], BufSize)
<1>1. /\ pc = "scan" /\ i \in revents
      /\ output_len[i] + r > max_len \/ pc' = pc
  BY DEF ReadData, Handle
<1>2. p \in Procs
  BY <1>1 DEF CInv, ParallelTypeOK, PolledReadable, Readable, Collecting
<1>3. r \in Nat /\ r <= chan[p] /\ chan[p] \in 0 .. PipeCap
  BY <1>2 DEF CInv, ParallelTypeOK, Lesser
<1>4. output_len[i] + chan[p] = written[p]
  BY <1>1, <1>2 DEF CInv, OutputKept
<1>5. output_len[i] \in Nat /\ written[p] \in Nat
  BY <1>2 DEF CInv, ParallelTypeOK
<1> HIDE DEF r, p
<1>6. pc' = pc \/ written[p] > max_len
  BY <1>1, <1>3, <1>4, <1>5
<1> QED
  BY <1>2, <1>6 DEF p

LEMMA ReadEofStep == ASSUME CInv, NEW i \in Slots, ReadEof(i) PROVE CInv'
<1> USE ParallelAssumption DEF ReadEof, kernel
<1>1. ready_fds' \in Nat /\ ready_fds' = Cardinality(revents') /\ revents' \subseteq Slots
  BY HandleCounts
<1>2. pc = "scan" /\ i \in revents /\ revents' = revents \ {i}
  BY DEF Handle
<1>3. fd[i] \in Procs /\ pid[i] = fd[i] /\ Readable(i)
  BY <1>2 DEF CInv, ParallelTypeOK, SlotsMatch, PolledReadable, Readable, Collecting
<1>4. ParallelTypeOK'
  BY <1>1 DEF CInv, ParallelTypeOK
<1>5. RunningCount' /\ SlotsMatch' /\ PidsDistinct' /\ PidsUnreaped'
  BY <1>2 DEF CInv, ParallelTypeOK, RunningCount, SlotsMatch, PidsDistinct, PidsUnreaped, Collecting,
              Unreaped
<1>6. Unforked' /\ WritersAlive' /\ PolledCounted'
  BY <1>1 DEF CInv, Unforked, WritersAlive, PolledCounted
<1>7. PolledReadable'
  BY <1>2 DEF CInv, ParallelTypeOK, PolledReadable, Readable, Collecting
<1>8. Waiting'
  <2>1. output_len[i] + chan[fd[i]] = written[fd[i]]
    BY <1>2, <1>3 DEF CInv, OutputKept
  <2> QED
    BY <1>3, <2>1 DEF CInv, ParallelTypeOK, Waiting
<1>9. SlotInTable' /\ NoneLost' /\ OutputKept' 
  BY <1>2 DEF CInv, ParallelTypeOK, SlotInTable, NoneLost, OutputKept, Collecting,
              Deleting, Unreaped
<1> QED
  BY <1>4, <1>5, <1>6, <1>7, <1>8, <1>9 DEF CInv

LEMMA WaitStep == ASSUME CInv, Wait PROVE CInv'
<1> USE ParallelAssumption DEF Wait
<1>1. /\ slot \in Slots /\ fd[slot] = NoProc /\ pid[slot] # NoProc
      /\ pid[slot] \in Procs /\ pid[slot] \notin wopen
  BY DEF CInv, ParallelTypeOK, Waiting
<1>2. running' \in Nat /\ RunningCount'
  <2> DEFINE Used == {j \in Slots : pid[j] # NoProc}
  <2>1. Used' = Used \ {slot} /\ slot \in Used
    BY <1>1 DEF CInv, ParallelTypeOK
  <2>2. IsFiniteSet(Used)
    BY SlotsFinite, FS_Subset
  <2>3. Cardinality(Used') = Cardinality(Used) - 1 /\ Cardinality(Used') \in Nat
    BY <2>1, <2>2, FS_RemoveElement, FS_CardinalityType
  <2> QED
    BY <2>3 DEF CInv, RunningCount
<1>3. ParallelTypeOK'
  BY <1>1, <1>2 DEF CInv, ParallelTypeOK
<1>4. SlotsMatch' /\ PidsDistinct' /\ PidsUnreaped'
  BY <1>1 DEF CInv, ParallelTypeOK, SlotsMatch, PidsDistinct, PidsUnreaped, Collecting, Unreaped
<1>5. Unforked' /\ WritersAlive' /\ PolledCounted'
  BY <1>1 DEF CInv, ParallelTypeOK, Unforked, WritersAlive, PolledCounted
<1>6. PolledReadable' /\ Waiting' /\ SlotInTable'
  BY DEF CInv, PolledReadable, Readable, Waiting, SlotInTable, Collecting, Deleting
<1>7. NoneLost'
  BY <1>1 DEF CInv, ParallelTypeOK, NoneLost, Collecting, Deleting, Unreaped
<1>8. OutputKept' 
  BY DEF CInv, OutputKept
<1> QED
  BY <1>2, <1>3, <1>4, <1>5, <1>6, <1>7, <1>8 DEF CInv

LEMMA DeleteStepStep == ASSUME CInv, DeleteSlot PROVE CInv'
<1> USE ParallelAssumption DEF DeleteSlot
<1>1. Deleting /\ slot \in Slots
  BY DEF CInv, SlotInTable, Deleting
<1>2. pc' \in {pc, "deleted"} /\ slot' \in Slots
  BY <1>1 DEF Slots
<1>3. ParallelTypeOK'
  BY <1>1, <1>2 DEF CInv, ParallelTypeOK, Statuses
<1>4. RunningCount' /\ SlotsMatch' /\ PidsDistinct' /\ PidsUnreaped'
  BY <1>1, <1>2 DEF CInv, ParallelTypeOK, RunningCount, SlotsMatch, PidsDistinct, PidsUnreaped,
                    Collecting, Deleting
<1>5. Unforked' /\ WritersAlive' /\ PolledCounted'
  BY <1>1 DEF CInv, ParallelTypeOK, Unforked, WritersAlive, PolledCounted
<1>6. PolledReadable' /\ Waiting' /\ SlotInTable'
  BY <1>1, <1>2 DEF PolledReadable, Waiting, SlotInTable, Collecting, Deleting
<1>7. NoneLost'
  <2> SUFFICES ASSUME NEW q \in Procs, Unreaped(q)', winch' = 0
               PROVE  Deleting' /\ \E i \in Slots : slot' <= i /\ pid'[i] = q
    BY <1>2, <1>3 DEF ParallelTypeOK, NoneLost, Collecting, Deleting
  <2>1. winch = 0 /\ q # pid[slot] /\ Unreaped(q)
    BY DEF CInv, ParallelTypeOK, Unreaped
  <2>2. PICK i \in Slots : slot <= i /\ pid[i] = q
    BY <1>1, <2>1 DEF CInv, NoneLost
  <2>3. slot + 1 <= i /\ slot + 1 \in Slots
    BY <1>1, <2>1, <2>2 DEF Slots
  <2> QED
    BY <1>1, <2>2, <2>3 DEF Deleting
<1>8. OutputKept' 
  BY <1>1, <1>2 DEF CInv, ParallelTypeOK, OutputKept, Deleting
<1> QED
  BY <1>3, <1>4, <1>5, <1>6, <1>7, <1>8 DEF CInv

LEMMA WriteStep == ASSUME CInv, NEW p \in Procs, ChildWrite(p) PROVE CInv'
<1> USE ParallelAssumption DEF ChildWrite, collector
<1>1. chan[p] \in Nat /\ written[p] \in Nat /\ chan'[p] = chan[p] + 1
      /\ written'[p] = written[p] + 1
  BY DEF CInv, ParallelTypeOK
<1>2. ParallelTypeOK'
  BY <1>1 DEF CInv, ParallelTypeOK
<1>3. RunningCount' /\ SlotsMatch' /\ PidsDistinct' /\ PidsUnreaped'
  BY DEF CInv, RunningCount, SlotsMatch, PidsDistinct, PidsUnreaped, Collecting, Unreaped
<1>4. Unforked' /\ WritersAlive' /\ PolledCounted'
  BY DEF CInv, ParallelTypeOK, Unforked, WritersAlive, PolledCounted
<1>5. PolledReadable'
  BY <1>1 DEF CInv, ParallelTypeOK, PolledReadable, Readable, Collecting
<1>6. Waiting'
  BY DEF CInv, ParallelTypeOK, Waiting
<1>7. SlotInTable' /\ NoneLost' 
  BY DEF CInv, SlotInTable, NoneLost, Collecting, Deleting, Unreaped
<1>8. OutputKept'
  BY <1>1 DEF CInv, ParallelTypeOK, OutputKept
<1> QED
  BY <1>2, <1>3, <1>4, <1>5, <1>6, <1>7, <1>8 DEF CInv

LEMMA CloseStep == ASSUME CInv, NEW p \in Procs, ChildClose(p) PROVE CInv'
<1> USE DEF ChildClose, collector
<1>1. ParallelTypeOK' /\ RunningCount' /\ SlotsMatch' /\ PidsDistinct' /\ PidsUnreaped'
  BY DEF CInv, ParallelTypeOK, RunningCount, SlotsMatch, PidsDistinct, PidsUnreaped, Collecting,
         Unreaped
<1>2. Unforked' /\ WritersAlive' /\ PolledCounted' /\ PolledReadable' /\ Waiting'
  BY DEF CInv, ParallelTypeOK, Unforked, WritersAlive, PolledCounted, PolledReadable, Waiting,
         Collecting, Readable
<1>3. SlotInTable' /\ NoneLost' /\ OutputKept' 
  BY DEF CInv, SlotInTable, NoneLost, OutputKept, Collecting, Deleting,
         Unreaped
<1> QED
  BY <1>1, <1>2, <1>3 DEF CInv

LEMMA ExitStep ==
    ASSUME CInv, NEW p \in Procs, NEW s \in Statuses, ChildExit(p, s)
    PROVE  CInv'
<1> USE DEF ChildExit, collector
<1>1. ParallelTypeOK' /\ RunningCount' /\ SlotsMatch' /\ PidsDistinct' /\ PidsUnreaped'
  BY DEF CInv, ParallelTypeOK, RunningCount, SlotsMatch, PidsDistinct, PidsUnreaped, Collecting,
         Unreaped
<1>2. Unforked' /\ WritersAlive' /\ PolledCounted' /\ PolledReadable' /\ Waiting'
  BY DEF CInv, ParallelTypeOK, Unforked, WritersAlive, PolledCounted, PolledReadable, Waiting,
         Collecting, Readable
<1>3. SlotInTable' /\ NoneLost' /\ OutputKept' 
  BY DEF CInv, ParallelTypeOK, SlotInTable, NoneLost, OutputKept, Collecting,
         Deleting, Unreaped
<1> QED
  BY <1>1, <1>2, <1>3 DEF CInv

(* collect_one() up to its return.                                          *)
LEMMA CollectSteps == ASSUME CInv, collect_one_steps PROVE CInv'
<1>1. CASE Poll
  BY <1>1, PollStep
<1>2. CASE ScanDone
  BY <1>2, PositionSteps
<1>3. ASSUME NEW i \in Slots, ReadData(i) PROVE CInv'
  BY <1>3, ReadDataStep
<1>4. ASSUME NEW i \in Slots, ReadEof(i) PROVE CInv'
  BY <1>4, ReadEofStep
<1>5. CASE Wait
  BY <1>5, WaitStep
<1> QED
  BY <1>1, <1>2, <1>3, <1>4, <1>5 DEF collect_one_steps

LEMMA Stutter == ASSUME CInv, UNCHANGED parallelVars PROVE CInv'
<1>1. UNCHANGED <<running, ready_fds, fd, revents, pid, output_len, exit_status, pc, slot,
                  chan, wopen, proc, status, winch, written>>
  BY DEF parallelVars, collector, kernel
<1>2. ParallelTypeOK' /\ RunningCount' /\ SlotsMatch' /\ PidsDistinct' /\ PidsUnreaped'
  BY <1>1 DEF CInv, ParallelTypeOK, RunningCount, SlotsMatch, PidsDistinct, PidsUnreaped,
              Collecting, Unreaped
<1>3. Unforked' /\ WritersAlive' /\ PolledCounted' /\ PolledReadable' /\ Waiting'
  BY <1>1 DEF CInv, Unforked, WritersAlive, PolledCounted, PolledReadable, Waiting,
              Collecting, Readable
<1>4. SlotInTable' /\ NoneLost' /\ OutputKept'
  BY <1>1 DEF CInv, SlotInTable, NoneLost, OutputKept, Collecting, Deleting, Unreaped
<1> QED
  BY <1>2, <1>3, <1>4 DEF CInv

-----------------------------------------------------------------------------
(* The client of the interface.                                             *)
LEMMA InitIInv == Init => IInv
BY InitCInv, ClientAssumption DEF Init, IInv, ParallelInit, ExitOnlyForCause

LEMMA StepIInv == IInv /\ [Next]_vars => IInv'
<1> SUFFICES ASSUME IInv, [Next]_vars PROVE IInv'
  OBVIOUS
<1> USE ClientAssumption
<1>1. CInv'
  <2>1. ASSUME NEW p \in Procs, Fork(p) PROVE CInv'
    BY <2>1, ForkStep, RoomWhileFewRun DEF Fork, IInv
  <2>2. CASE Collect \/ Interrupted \/ Delete
    BY <2>2, PositionSteps DEF Collect, Interrupted, Delete, IInv
  <2>3. CASE CollectStep \/ DeleteStep
    BY <2>3, CollectSteps, DeleteStepStep DEF CollectStep, DeleteStep, IInv
  <2>4. ASSUME NEW p \in Procs, Write(p) \/ Close(p) \/ Exit(p) \/ Fail(p) PROVE CInv'
    BY <2>4, WriteStep, CloseStep, ExitStep DEF Write, Close, Exit, Fail, Statuses, IInv
  <2>5. CASE Terminated \/ UNCHANGED vars
    BY <2>5, Stutter DEF Terminated, vars, IInv
  <2> QED
    BY <2>1, <2>2, <2>3, <2>4, <2>5 DEF Next
<1>2. todo' \in [Procs -> 0 .. MaxWrites]
  <2>1. ASSUME NEW p \in Procs, Write(p) PROVE todo' \in [Procs -> 0 .. MaxWrites]
    BY <2>1 DEF Write, IInv
  <2> QED
    BY <2>1 DEF Next, IInv, Fork, Collect, CollectStep, Interrupted, Delete, DeleteStep,
                Close, Exit, Fail, Terminated, vars
<1>3. ExitOnlyForCause'
  <2> SUFFICES ASSUME pc' = "exited", pc # "exited"
               PROVE  winch' > 0 \/ \E p \in Procs : written'[p] > max_len
    <3>1. CASE pc = "exited"
      <4>1. UNCHANGED <<winch, written>>
        BY <3>1 DEF Next, Fork, insert_new_pid_and_fd, Collect, collect_one, CollectStep,
             collect_one_steps, Poll, ScanDone, ReadData, ReadEof, Handle, Wait,
             Interrupted, WaitInterrupted, Delete, delete_parallel, DeleteStep, DeleteSlot,
             Terminated, vars, parallelVars
      <4> QED
        BY <3>1, <4>1 DEF IInv, ExitOnlyForCause
    <3> QED
      BY <3>1 DEF ExitOnlyForCause
  <2>1. ASSUME NEW p \in Procs, Fork(p) PROVE FALSE
    BY <2>1, ForkStep, RoomWhileFewRun DEF Fork, IInv
  <2>2. CASE CollectStep
    <3>1. PICK i \in Slots : ReadData(i)
      BY <2>2 DEF CollectStep, collect_one_steps, Poll, ScanDone, ReadEof, Handle, Wait
    <3>2. fd[i] \in Procs /\ written[fd[i]] > max_len
      BY <3>1, ReadDataExits DEF IInv
    <3> QED
      BY <3>1, <3>2 DEF ReadData
  <2>3. CASE Interrupted
    BY <2>3, ParallelAssumption
    DEF Interrupted, WaitInterrupted, IInv, CInv, ParallelTypeOK
  <2>4. CASE Collect \/ Delete \/ DeleteStep
    BY <2>4 DEF Collect, collect_one, Delete, delete_parallel, DeleteStep, DeleteSlot
  <2>5. ASSUME NEW p \in Procs, Write(p) \/ Close(p) \/ Exit(p) \/ Fail(p) PROVE FALSE
    BY <2>5 DEF Write, ChildWrite, Close, ChildClose, Exit, Fail, ChildExit
  <2>6. CASE Terminated \/ UNCHANGED vars
    BY <2>6 DEF Terminated, vars, parallelVars
  <2> QED
    BY <2>1, <2>2, <2>3, <2>4, <2>5, <2>6 DEF Next
<1> QED
  BY <1>1, <1>2, <1>3 DEF IInv

LEMMA Invariance == Spec => []IInv
BY InitIInv, StepIInv, PTL DEF Spec

-----------------------------------------------------------------------------
(* Every variable keeps its type; in particular output_len stays within the *)
(* limit, ready_fds and running never go below zero.                        *)
THEOREM TypeCorrect == Spec => []TypeOK
<1>1. IInv => TypeOK
  BY DEF IInv, CInv, ParallelTypeOK, TypeOK
<1> QED
  BY <1>1, Invariance, PTL

(* col->running is the number of occupied slots at every step of insertion, *)
(* collection and deletion.                                                 *)
THEOREM CountCorrect == Spec => []RunningCount
<1>1. IInv => RunningCount
  BY DEF IInv, CInv
<1> QED
  BY <1>1, Invariance, PTL

(* The result of a poll() stays valid until it is used up, whatever is      *)
(* inserted, read and reaped before that: collect_one() never blocks in     *)
(* read().                                                                  *)
THEOREM NoBlockingRead == Spec => []ReadNeverBlocks
<1>1. IInv => ReadNeverBlocks
  BY DEF IInv, CInv, PolledReadable, ReadNeverBlocks, Collecting
<1> QED
  BY <1>1, Invariance, PTL

(* The bytes a child wrote are in its own slot or still in its pipe, and    *)
(* the slot that collect_one() waits for has them all.                      *)
THEOREM OutputComplete == Spec => []OutputExact
<1>1. IInv => OutputExact
  BY DEF IInv, CInv, OutputKept, Waiting, OutputExact
<1> QED
  BY <1>1, Invariance, PTL

(* A child that is forked and not waited for is in exactly one slot.        *)
THEOREM NoChildLost == Spec => []OneSlotPerChild
<1>1. ASSUME IInv PROVE OneSlotPerChild
  <2> SUFFICES ASSUME Collecting \/ (pc = "deleted" /\ winch = 0), NEW p \in Procs
               PROVE  Cardinality({i \in Slots : pid[i] = p /\ pc # "deleted"})
                          = IF Unreaped(p) THEN 1 ELSE 0
    BY DEF OneSlotPerChild, Unreaped, Collecting
  <2> DEFINE Mine == {i \in Slots : pid[i] = p /\ pc # "deleted"}
  <2>1. CASE Unreaped(p)
    <3>1. Collecting
      BY <1>1, <2>1 DEF IInv, CInv, ParallelTypeOK, NoneLost, Collecting
    <3>2. PICK i \in Slots : pid[i] = p
      BY <1>1, <2>1, <3>1 DEF IInv, CInv, NoneLost
    <3>3. Mine = {i}
      BY <1>1, <3>1, <3>2, ParallelAssumption DEF IInv, CInv, PidsDistinct, Collecting
    <3> QED
      BY <2>1, <3>3, FS_Singleton
  <2>2. CASE ~Unreaped(p)
    <3>1. Mine = {}
      BY <1>1, <2>2, ParallelAssumption DEF IInv, CInv, ParallelTypeOK, PidsUnreaped, Collecting
    <3> QED
      BY <2>2, <3>1, FS_EmptySet
  <2> QED
    BY <2>1, <2>2
<1> QED
  BY <1>1, Invariance, PTL

(* The collector ends the program only when some child wrote more than the  *)
(* limit or waitpid() was interrupted: the table always has room for the    *)
(* child that a caller may insert.                                          *)
THEOREM NoExitWithoutCause == Spec => []ExitOnlyForCause
<1>1. IInv => ExitOnlyForCause
  BY DEF IInv
<1> QED
  BY <1>1, Invariance, PTL
=============================================================================
