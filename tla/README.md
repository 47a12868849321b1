# rpminspect in TLA+

Specifications of the parts of rpminspect in which the order of steps, the
failure of some of them, or the state carried from one to the next decides
what the program does; TLC configurations that check them on small instances;
and proofs, checked by TLAPS, of what holds for every instance. Paths below are
those of the repository: `lib/parallel.c`, `src/rpminspect.c` and so on.

## 1. Inventory

rpminspect is one process that runs from its arguments to its exit status. It
gathers one or two builds into a working directory, pairs the packages of the
"before" build with those of the "after" build, unpacks them, pairs their
files, runs the selected inspections, each of which adds results to a list,
and prints the list. Concurrency comes from the processes it forks: the tools
it runs one at a time (`lib/runcmd.c`) and the virus scanners it runs in
parallel (`lib/inspect_virus.c` on `lib/parallel.c`); and from signals, since
the SIGWINCH handler is installed without SA_RESTART (`src/rpminspect.c:430`).

| Part | State | Operations | Hard behaviours | Correct when |
|---|---|---|---|---|
| child collector `lib/parallel.c` | table of slots (pid, descriptor, output, status), count, cached poll result | new, insert, collect one, delete | children end in any order; cached poll results outlive calls; slots are reused; interrupted waitpid; output limit | no child lost or waited for twice; no blocking read; output complete; ends only for cause |
| virus inspection `lib/inspect_virus.c` | the collector; in each child a file counter and a countdown | fork, scan each Nth file, write triples, collect, parse | children fail, are killed, block on pipes, inherit each other's descriptors | each infected file reported once; verdict only of a complete scan; everyone ends |
| `full_write` `lib/io.c` | bytes left, static number of tries | write until done | short, interrupted and failing writes | what is counted was sent, once and in order |
| command runner `lib/runcmd.c` | pipe, output, status | fork, read lines, wait, report | signals, closed output, failures between the steps | the output and code reported are the command's; nothing left behind |
| file peers `lib/files.c` | table of after files, `peer_file` on both sides | find a peer by path, by substituted path, by generic path | an entry is used up by the first match | the pairs are one-to-one and as many as possible |
| build gathering `lib/builds.c`, `lib/peers.c`, `lib/curl.c` | working subdirectory, files on disk, list of peers | copy, download, add a peer, extract | any download or space check fails; two builds share a directory | what is inspected is what was gathered |
| Koji client `lib/koji.c` | the build or task, and `ri->buildtype` | XML-RPC calls | the type of one build is kept for the next; metadata lies at different depths | the packages of the build asked for, without what a module filters out |
| configuration `lib/init.c`, parsers | some sixty settings | read files, profiles, local file | later files add to or replace earlier ones; the first decides which are read | the documented precedence |
| program `src/rpminspect.c`, flags, results, reports | selected inspections, product release, results, worst result | select, run, add, print, exit | two thresholds applied in several places; values left from a loop; four reports that hide different results | exit status, report and selection agree |
| dependency rules `lib/deprules.c`, `lib/inspect_rpmdeps.c` | two lists of rules with peers, the packages required so far | gather, pair strictly, pair leniently, check | greedy pairing of lists with duplicates; a list that grows while it is walked; packages that require each other | pairs are mutual; a rule that did not change is not reported; missing requirements are |
| rebase detection `lib/rebase.c` | `ri->rebase_build` | ask | the answer is kept for the run, what the list of rebaseable packages adds is not | one answer for one pair of builds |
| security rules `lib/secrule.c` | hash tables of rules | look up | order of rules | documented precedence |
| inspections `lib/inspect_*.c`, `lib/permissions.c`, `lib/ownership.c`, `lib/fileinfo.c` | a result and a static "reported" each | one driver each over peers or files | a failure must survive the files after it; return value, "reported" and results are kept apart; ignored paths, security rules and rebases change what counts | they say OK only if all is well, and what they report is what the configuration wants reported |
| helpers: lists, strings, paths, file system, RPM access | a few caches | pure functions, wrappers | static buffers and counters | their comments |

How they interact: `main()` reads the configuration, then calls
`gather_builds()`, which asks Koji or copies, calls `add_peer()` for each
package it puts on disk, and at the end `extract_peers()`, which unpacks and
calls `find_file_peers()`. `main()` then calls the drivers. A driver walks the
peers with `foreach_peer_file()`, runs tools with `run_cmd()`, and calls
`add_result()`; `rpmdeps` pairs the rules of each peer first. The virus driver
forks children that inherit all of the parent's memory and report through
pipes with `full_write()`; the parent reads them with `collect_one()`.

## 2. Modules

| Module | Models | State and actions |
|---|---|---|
| `Parallel` | the collector and the kernel's side of pipes and children | variables are the members of `parallel_t`; `pc` is the loop of the parent; `insert_new_pid_and_fd`, `collect_one` and its steps `Poll`, `ReadData`, `ReadEof`, `Wait`, `WaitInterrupted`, `ScanDone`, `delete_parallel` and `DeleteSlot`; `ChildWrite`, `ChildClose`, `ChildExit` |
| `ParallelClient` | a caller that uses the collector in every order it allows | `Fork`, `Collect`, `Delete` at any time outside the collector |
| `VirusScan` | `inspect_virus()` on `Parallel`, all processes | `stage` is the parent's place; each child has its static counters `file_no`, `virus_countdown` and, of `full_write()`, `tries`; a field is written (`WriteField`), sent again (`ResendField`) or lost (`WriteInterrupted`), and the parent reads the output as it was meant (`ConsumeOutput`) or not (`ConsumeSpoilt`, `BadPointer`) |
| `ScanPromise` | what the virus inspection promises, and when it need not keep that | results added, and how it ended |
| `FullWrite` | `full_write()` called again and again | one step per turn of its loop; `stream` is what the current call sent, `sent` and `counted` what all calls did |
| `RunCmd` | `run_cmd_vp()` and the command | one step per system call that can fail, block or be interrupted |
| `FilePeers` | `find_file_peers()` | one step per lookup; the rewriting of paths is a parameter |
| `DepRules` | `gather_deprules()` and `find_deprule_peers()` | one step per rule of the outer loop, in a strict and a lenient pass |
| `RpmDeps` | `inspect_rpmdeps()` on `DepRules` | one step per rule, package or turn of a loop; `phase` is the loop it is in |
| `Config` | which configuration files are read and what they come to | operators on the files a run finds |
| `Koji` | what is made of Koji's answer about a build or task | operators on the answer |
| `GatherBuilds` | `gather_builds()`, its callees, the peers | one step per package or decision |
| `Rpminspect` | `main()` around `GatherBuilds`, flags, results, reports | one step per phase and per inspection |
| `Findings` | entries, severities, the severity of a security rule | operators |
| `ContentDrivers` | the drivers that look into files and headers | one operator per driver |
| `Rebase` | `is_rebase()` and the answer that it keeps | operators on a pair of builds |
| `PeerInspections` | 43 inspections over the files or packages of the peers, with `foreach_peer_file()` and the fileinfo list | `result`, `reported` and the results added; `Skip` and `Inspect` for one file each, `Return`; one operator per driver that compares files |
| `MC*` | constants of the checked instances | |
| `*Proofs` (eight) | theorems, see 4 | |

`VirusScan` and `ParallelClient` EXTEND `Parallel`; `RpmDeps` EXTENDS
`DepRules`; `Rpminspect` EXTENDS `GatherBuilds`, which EXTENDS `Config` and
`Koji`; `PeerInspections` EXTENDS `Rebase` and
`ContentDrivers`, which EXTENDS `Findings`.
Definitions that stand next to another with the comment "Faulty variant" are
not part of any specification: putting such a variant in the place of its
neighbour must make a run fail, which shows that the property depends on the
code.

Abstractions. Bytes in pipes are counted, because a pipe is FIFO; in
`VirusScan` one unit is one field of a triple. Files, packages and names of
dependencies are model values or short strings, with a table where one is
rewritten. A version is what the code tells apart (`vr`, `evr`, with a macro,
another). A configuration file is its `inspections` and `products` sections,
its product release, and whether it can be parsed. An answer of Koji is its
state, the members of `extra` that may hold module metadata, and which
packages are tagged or filtered. libcurl and file system errors are choices.
A driver in `Rpminspect` adds a result of some severity or none. In
`PeerInspections` a file is a record of what its driver tells apart: whether it
has a peer, is ignored, what its modes and security rules are, what comparing
it with its peer or parsing it came to. The order of the early returns, the
severity, the waiver and the return value are the code's; messages and remedies
are left out. That a driver does not look at a file at all (a source package, a
debug path, not a regular file) is its `subject`. Where the code has no way on
(`strdup(NULL)` with `-f` and a URL, a null list of source packages in a task,
a content tag that was not read), `pc` becomes "crashed" or "aborted". A list
of peers without packages is no such case: `init_peers()` has allocated it
(`lib/init.c:1796`), so the assertions in `lib/peers.c` hold, and the run goes
on: without -r it ends in `no_peers` (`src/rpminspect.c:964`), with -r the
inspections run on nothing.

`VirusScan` takes `full_write()` as `FullWrite` has it, not as exact. The
pointer in a triple has eight bytes (four, and so always sent again, on a
32-bit system, which is left out), the name and the path are texts with their
NUL, so whether they come to four bytes (EINTR) is an input, `four`. From the
first field that was sent twice or lost on (`spoilt`), the parent takes one
field for another: what it finds is then any part of what the child reported,
or the program dies on bytes it takes for a pointer. That the bytes of one
field make up a pointer to some other entry is not among the outcomes.

## 3. Runs

| Run | Instance | Shows |
|---|---|---|
| `parallel` | 3 children, 2 slots, outputs of 0 to 2 units, limit 1, pipe of 2, reads of 1, one resize: 240 thousand states | `TypeOK`, `RunningCount`, `ReadNeverBlocks`, `OutputExact`, `OneSlotPerChild`, `ExitOnlyForCause`, `EveryChildReaped` |
| `virus` | 2 children, 3 files of every relevant kind, cap 1, pipe of 2 fields, one try of `full_write()`, one resize; no text, a name or a path of four bytes: 326 thousand states | `VirusScan` implements `ScanPromise` (`KeepsPromise`); `AbortOnlyForCause`, `VerdictOnlyOfCompleteScan`, `Ends`, `ChildrenEnd` |
| `fullwrite` | buffers of 3, 4 and 8 bytes, 4 calls, 2 errors | `CountedBytesAreSent`, `ResentIsBounded` |
| `runcmd` | up to 3 lines, pipe of 1, one resize | `ReportedAsItWas`, `NoZombieLeft`, `TruncationShows`, `BothEnd` |
| `filepeers` | all packages of up to 3 of 3 paths in any order, with and without a version change, all sets of library names | `TypeOK`, `BeforePointsBack`, `TableIsCurrent`, `PairsAreKept`, `NoPeerForAReason` |
| `rpmdeps` | pairs of headers with duplicates, rich names and every operator; all ways in which four packages can require each other; epochs, macros, modules and several providers | `TypeOK`, `PeersAreMutual`, `UnchangedIsRetained`, `NothingGainedAndLost`, `LibraryRequirementsChecked`, `VerdictMatchesFindings` |
| `rpminspect` | seven families of invocations (gathering, answers of Koji, types of two builds, selection, release, report, configuration files): 1.7 million states | `ExitReflectsWorst`, `FailureIsShown`, `SecurityInspectionsRun`, `PeersAreTheGatheredPackages`, `ProductReleaseIsJustified` |
| `inspections` | each inspection on each kind of file or package alone, and after each representative of those not ignored, with plain, rebase, rebaseable, other and unready settings: 1.03 million states | `FailureIsExplained`, `OkIsEarned`, `SkippedRulesAreSilent`, `IgnoredFilesOnlySecurity`, `PrivilegedModesReported`, `RebaseIsLenient` |

What the properties say is in the comment before each. In short: the ones of
`rpminspect` relate exit status, report and peers to what the inspections
added and what was gathered; those of `rpmdeps` relate pairs, findings and
verdict to the headers; those of `inspections` relate what a driver returned
to what it reported, over the files before it, and to what the configuration
allows.

Why the bounds are enough. Two slots and three children are the least for which
a slot is reused while another is in a cached poll result; a limit of 1 and
outputs of up to 2 reach both sides of the limit; reads of 1 need several
rounds. In `virus` the first child has two files, so the cyclic counter wraps
and the cap of 1 bites; the pipe of 2 is smaller than a triple, so children
block in the middle of one. A name spoils its own triple, a path only those
after it, and with one try left neither is sent a third time. Buffers of 3, 4
and 8 lie on both sides of EINTR and include a multiple. Three paths are the
least for which one file takes the peer another one would have had, in each of
the three lookups. Two rules of one name on each side are the least for which a
lenient match can take the peer of an unchanged rule, and four packages give a
chain by which a requirement is met through two others, with a cycle in it. The
number of inspections, dist tags and packages in `rpminspect` is the least that
shows each branch of selection, favouring and pairing; a family varies one
phase fully while the others stay simple, since the phases share no variable
but the ones the properties name, and two builds are all the program takes when
it compares. All that a driver keeps from one file to the next in `inspections`
is one Boolean for what was reported and one for what failed (the last source
package, for `files`, `disttag` and `specname`), so two files reach every
combination. `MaxWinch` and `MaxErrors` bound how often the environment
interferes; one interruption is enough for each error path.

The other four runs each find a disagreement of code and comment:

| Run | Comment | What the code does |
|---|---|---|
| `fullwrite_resend` | `lib/io.c:10` writes *all* of the buffer | `lib/io.c:26` compares the return value, not errno, with EINTR: four bytes written count as an interruption and are sent again |
| `runcmd_exitcode` | `lib/runcmd.c:128` the exit code of the process | after an interrupted `waitpid()` the exit code 0 is reported for a command that still runs |
| `peers_point_at_each_other` | `lib/files.c:929` each other's entries | the search for moved libraries goes on after a match: two after files point at one before file |
| `rebase_cached` | `lib/rebase.c:25` the value is cached | `lib/rebase.c:77` looks up a name that only the first call reads: a package on the list of rebaseable packages is a rebase for the first who asks, not for the rest (`AlikeIsJudgedAlike`) |

While modelling, more was found that the runs take as it is. Where a property
cannot hold because of it, the property names the case.

Gathering, configuration, reports:

* `moved_path` (`lib/files.c:880`) is never set, so `movedfiles` finds nothing;
  the branch for a move between subpackages compares the names of packages that
  `add_peer()` pairs by equal names, and is never taken.
* `download_rpm()` names its directory while `worksubdir` is NULL
  (`lib/builds.c:731`): the first RPM by URL goes below `(null)/after`.
* `ri->buildtype` is kept from one Koji build to the next (`lib/koji.c:834`): if
  the first is plain, the module metadata of the second is not read and its
  tagged builds are not listed; if the first is a module, a plain second build
  is asked for the NULL content tag. `PeersAreTheGatheredPackages` demands the
  packages and the type of each build's own metadata, and excepts exactly a
  build whose type is not looked for because -b or the build before it left
  another (`TypeIsStale`).
* With -r and no packages at all, the inspections run on no peers and the run
  passes, while without -r the program says that there is nothing and exits
  (`src/rpminspect.c:964`).
* A member of a build's `extra` with one member takes the place of all
  (`lib/koji.c:791`); what stands after it is not looked at.
* `download_task()` walks a NULL list of source packages when a part of the
  task lists only rpms (`lib/builds.c:524`).
* A malformed configuration file is only warned about: the run goes on with the
  settings before it. A profile adds to the tables of the main file and does
  not replace them (`lib/init.c:173`), see `data/generic.yaml:15`.
* A report that cannot be written is a warning: the exit status is that of the
  inspections. The summary shows neither the diagnostics nor a result that says
  no more than OK; the xunit report counts failures of results it suppresses.

Virus scan, commands and dependencies:

* The children of `inspect_virus` send their triples with `full_write()`, so the
  defect that `fullwrite_resend` shows reaches the report: a virus name or an
  infected path of three characters is sent up to four times
  (`lib/inspect_virus.c:185`), and a write that a resize interrupts is lost. The
  parent cuts the stream by NUL bytes and the size of a pointer (`:436`), so
  from there on infections are missing or it dereferences other bytes.
  `KeepsPromise` is the promise with this named (`Unsafe` in `ScanPromise`).
* `cl_init()` failing returns false without a result
  (`lib/inspect_virus.c:226`): the run can pass although nothing was scanned.
* A command that is not found leaves the caller's exit code as it was
  (`lib/runcmd.c:175`).
* A resize ends the reading of a command's output (`lib/runcmd.c:260`). What
  the command writes until `fclose()` is dropped, and if that was the rest, the
  cut output comes with the exit code 0. `TruncationShows` bounds it by a pipe.
* Without a before package `is_rebase()` returns false, where its comment
  (`lib/rebase.c:21`) says true; `abidiff` is lenient in every rebase, where
  `doc/usage.rst:528` says that it fails one that is not on the list.
* A weaker requirement counts when `direct` is decided
  (`lib/inspect_rpmdeps.c:368`) but not in the closure (`:227`); packages whose
  names look like libraries are not followed; an epoch that is missing in a
  rebase is INFO and fails all the same.

Inspections:

* `check_permissions()` cuts both modes to 0777 (`lib/permissions.c:64`), so its
  own test for new setuid and setgid bits never holds; the fileinfo list catches
  them (`PrivilegedModesReported`).
* `match_fileinfo_owner()` and `match_fileinfo_group()` look for insecure modes
  only while nothing was reported (`lib/fileinfo.c:170`, `256`), and the
  callers' `reported` is one variable for all files: after the first report of
  `ownership`, no other such file is named there.
* `unicode` reports to the security team, but the table (`lib/inspect.c:82`)
  says that it has no security checks (`include/types.h:842`).
* `symlinks` overwrites a failure when the same link is dangling
  (`lib/inspect_symlinks.c:341`) and then reports both BAD and OK. `OkIsEarned`
  leaves it out.
* `changedfiles` fails an unchanged file on a security path, without a result of
  its own, once any other file was reported (`lib/inspect_changedfiles.c:480`):
  the verdict is no different, but `FailureIsExplained` has to except it.
* `changedfiles` does not ask the security rules, and `annocheck` shares its
  parameters between the tests of a file (`lib/inspect_annocheck.c:620`);
  `SkippedRulesAreSilent` leaves both out.
* `dsodeps` opens the file of the after build twice (`lib/inspect_dsodeps.c:93`)
  and compares it with itself: no change of DT_NEEDED is ever reported.
* `find_lto_symbols()` never fills the list that `lto_driver()` passes it
  (`lib/inspect_lto.c:37`), so bad symbols in an archive are never reported.
* `kmidiff` looks at the bits that say what changed only under the bit of an
  error (`lib/inspect_kmidiff.c:247`), and `abidiff` ignores a plain error.
* `license`: a bad word counts as a good package, and unbalanced parentheses
  fail without a result (`lib/inspect_license.c:960`). `shellsyntax` fails
  without a result where only extglob helps, `javabytecode` where it can make
  no directory for a jar (`lib/inspect_javabytecode.c:199`). `files` without a
  source package returns false with INFO.
* `files` and `disttag` keep the verdict of the last source package, `specname`
  that of the first good one; the `ignore` of `files` and the `jar_result` of
  `javabytecode` are never reset. A corrupt patch does not fail `patches` and
  takes its severity from the parameters before it; one that cannot be
  uncompressed is not looked at any further (`lib/inspect_patches.c:370`).
  `annocheck` and `javabytecode` without their configuration say nothing at
  all.

Deadlock is checked in all runs: the places where a process stops are explicit
`Terminated` steps.

### Fairness

* `ParallelClient`: weak fairness of the caller's next call, of the
  collector's steps and of each running child: all are processes the kernel
  schedules, and the callers collect until nothing is left. No fairness of
  failures, of resizes, or of forking more children.
* `VirusScan`: weak fairness of the parent and of each child, including that
  the scan of one file ends. Crashes, resizes and setup failures are not fair.
* `RunCmd`: weak fairness of the function and of the command, which ends by
  itself once it has written its output, or fails once nobody reads it (by
  SIGPIPE or, where that is ignored, by its own error path: an assumption about
  the commands, which are outside the repository); kills and closing output
  early are not fair. A command that never ends holds up rpminspect, by design.
* `FilePeers` has fairness of its loop. `FullWrite`, `RpmDeps`, `Rpminspect`
  and `PeerInspections` have none, and no liveness is claimed of them.

## 4. Proofs

Each module of proofs is about one specification and holds an invariant `IInv`
with the three facts that make it inductive: one lemma that it holds at first,
one per action (or loop) that it is kept, and the theorems that it implies.
The assumptions are those of the modules' ASSUMEs, which TLC evaluates.

`ParallelProofs`: for all `max_pids`, `max_len`, `BufSize`, `PipeCap`, `Procs`
and `MaxWinch`, the six safety invariants of the run `parallel`. They are not
inductive: that a read does not block, for one, needs that a polled slot's
descriptor is the pipe of the very child in the slot, and this survives a
`Fork` only because an occupied slot is never chosen. `CInv`, what the
collector keeps for any caller and whatever its children do, therefore adds
that descriptors and pids agree (`SlotsMatch`), that no two slots hold one
child (`PidsDistinct`), that children in the table are not reaped and children
not in it are not running (`PidsUnreaped`, `NoneLost`, `Unforked`), that only
living children hold a write end (`WritersAlive`), that the cached count is the
number of marked slots (`PolledCounted`, `PolledReadable`), and what is known
between the end of a pipe and `waitpid()` (`Waiting`) and during deletion
(`SlotInTable`). `RunningCount` uses the library's facts on cardinalities under
the insertion and removal of one slot. `IInv` is `CInv` with what
`ParallelClient` adds: how much its children still write, and why it exits.

`VirusScanProofs`: for any number of children and files, any cap and any pipe,
`AbortsForCause`, `VerdictIsComplete`, and that `VirusScan` implements
`ScanPromise` (`PromiseKept`). The collector's part is not proved again: its
lemmas are taken from `ParallelProofs` by `INSTANCE`, with the fields still to
be written as what a child writes, and each step of the inspection is a step of
the collector, of one child's end of a pipe, or leaves the collector alone.
`VInv` adds the inspection's own books: child k is in slot k or nowhere
(`OwnSlots`); a child's static counters agree with how far it has come
(`Counters`), and so does its output as long as none of it is spoilt, so that
what arrives can be cut into whole triples (`Sent`, which also bounds a spoilt
output by the tries it cost); nothing is spoilt but by a text of four bytes or
a resize (`SpoiltForCause`); a child reports infected files of its own once
each (`ReportsOwn`) and leaves none out below the cap (`ReportsAll`); it exits
with success only when it is done (`DoneFirst`); and what the parent has added
is what the children it has consumed reported (`AddedMatch`, `ResultMatch`).
That no two children report one file is that a remainder determines a child.
For the refinement every step is shown to be a step of the promise or a
stutter: consuming a child's output adds its files at once (some of them, if it
is spoilt), and when the last child is gone a file that was left out is one
that its child's cap did not let pass, or that came after a spoilt field.
`FieldStep` treats the three ways in which a field leaves a child, `ResizeStep`
of the collector a write interrupted by a resize. The assumption is that the
triples of one child and what it sends again fit the collector's limit (`Fields
* MaxReports + MaxTries <= max_len`), which 4000 reports
(`lib/inspect_virus.c:26`) and 64 MB (`lib/parallel.c:105`) are made for.

`FilePeersProofs`: for all packages, substitutions and generic paths, types, a
before file's peer points back at it (`OnePeerEach`), the table tells the free
files (`TableTellsFreeFiles`), no pair is broken up (`PairsStay`), and a file is
without a peer only if what it resembles is taken (`NoneLeftWithoutReason`).
The first hold together only: an entry that is still in the table is nobody's
peer. The last needs what each lookup has already ruled out (`Searched`), and
that this stays so while the table shrinks. The converse, that an after file's
peer points back, is what the run `peers_point_at_each_other` refutes.

`RpmDepsProofs`: for any headers and any builds, the pairing of rules and the
verdict of the inspection. `PInv` carries through both passes that pairs
are mutual, that a strict pair is of equal rules, and how far each loop has
come; it is proved about the pairing alone and then of each package in the
inspection (`Gathering`). `VerdictHolds` needs that what was found so far
decides the result so far (`VerdictSoFar`, `Said`). `LibraryRequirementsHold`
is about the list of required packages, which grows while the loop walks it:
`Collecting` says that the list holds what the packages visited so far
require, so that at its end it is closed, and `ReportedSoFar` that the
findings agree. That what is gathered from a header is a sequence of rules
(`GatheredAreRules`) is an induction over the header; only the header itself is
assumed to be one.

`FullWriteProofs`: for every EINTR, number of tries, buffer and number of calls,
that counted bytes are sent and that what all calls of the process sent beyond
what they counted is bounded, from `TriesLimited` and `ResentByRetries` (each
EINTR bytes sent beyond what is counted have cost a try, and no call gives one
back; a run with the tries set back in each call breaks it).

`RunCmdProofs`: for all codes, lines, pipes and signals, that output and code
are the command's, that no zombie is left and that truncation shows. The
invariant follows the output from the command through the pipe to the reader
(`PipeIsFifo`, `ReaderReads`, `ReadToTheEnd`) and the status from the exit to
the report (`StatusIsTheCommands`, `ReportedFromStatus`), with what a signal may
have done in between (`StoppedEarly`, `Forked`, `NoteIsLast`). Between an
interrupted `getline()` and `fclose()` the command goes on writing: what the
output of a success lacks is what is left in the closed pipe, at most `PipeCap`
lines, and nothing without a signal (`TruncationIsShown`).

`RpminspectProofs`: for any inspections, invocations and configuration files,
all five invariants of the run `rpminspect`. Exit status and report:
`WorstIsWorst` says that the worst result is that of some result and exceeded
by none from the diagnostics on, `NoResultYet` that there is none before,
`LoopIsLast` that the loop over the inspections is the only way to the report,
`ReportIsComplete` that every result that -s lets pass is shown by each format,
save what the summary leaves out, and `ReturnedWith` carries these to the exit.

The peers (`PeersAreGathered`): `GatherInv` says where the program is in the
list of builds (`Position`), that the three parts of the property hold of the
packages that have arrived so far (`Joined`), and that nothing on disk lies
ahead of the program (`Reached`): a package that arrives is new, so that it
either finds the one slot left for its name and architecture or gets a peer of
its own. `Joined` is not kept on the ways that cannot lead to an inspection.
The type of the builds is in `TypeInv`: before and after each build
`ri->buildtype` is what -b and the builds so far leave there (`Left`, `TypeIn`).
From this `TypeIsItsOwn` follows, that a build of Koji which is not the named
exception is listed with its own type, and with it that each package on disk is
one that belongs to its build (`Proper`).
What the property says of filtered packages is restricted to those the content
tag of a module led to: a plain build listed together with a module is not
filtered, and the code means it so.

Selection and release (`SecurityIsInspected`, `ReleaseIsJustified`): what a
configuration file makes of the settings is a fold over its flags and products,
a fold within a fold over the files. `FlagsKeep`, `RulesKeepTable` and
`FilesAreGood` show what each step keeps: the security inspections stay
selected unless a flag says ALL, the table of products stays a table, and the
release is that of the last file that gives one. `SelectInv` carries the first
from the options through the loop, where `HaveRun` says that what was passed is
what need not run; `ProductInv` carries the other to where the release is
worked out (`determine_release`), from `Candidates`, the products that the tags
of the two builds lead to.
Both presuppose what the properties presuppose (`Untouched`: no -T, no ALL).

`PeerInspectionsProofs`: for any files, rules and settings, all six invariants
of the run `inspections`. Each of the 43 drivers has a lemma on what it returns
and adds for one file, in the same words: it adds entries from a set that says
what may be said of the file (`Fit`: nothing to the security team if all rules
asked for say skip, nothing above INFO to anyone else if the file is ignored),
it adds something if it fails (`Accounts`), and if it does not fail it adds
notes only (`Honest`). `DriversSay` collects them; `annocheck`, whose tests of
a file pass severity and waiver on to the next, is an induction over the tests.
The invariant is then kept action by action. `Account` is what makes it
inductive: while files are looked at, `reported` holds exactly if something was
added, a success has notes only where the inspection goes by return values, and
what static variables or a driver keep of the files before is `Remembered`: by
`reported` (`specname`, `license`, `changelog`), and by `result`, which is
false already where a static variable makes later files fail (`specname`,
`javabytecode`, `patches`, `unicode`). `FailuresAreExplained` is about steps:
where `result` turns false the file at hand is not one of those, so its driver
has said something (`Says`), and `NewPosition` finds that among the new
results, with the place of this very file. `TypeOK` keeps of `rebase_build`
that it is 0 or the answer of a first call, so that no later answer denies that
the versions differ; `EarlierGrows` says that what was added for the files
before stays. Of the inputs it is assumed (`ItemsAssumption`) that a rule has
one of the four severities that can be configured, that counts are numbers and
lists finite, and that `desktop-file-validate` says something of a file it
rejects.

Induction. The library's theorems on induction and on recursive functions take
an operator as a parameter, which the provers cannot instantiate. `Induction`
states it of a set instead, and follows from the well-foundedness of the
numbers (`NatMin`); `Recursion` says that a function that takes one step after
another is there, and `AllAlong` and `Fold` that what each step keeps holds
along it. The three modules that need them have their own, since they share no
specification.

Only model-checked: everything under fairness (`EveryChildReaped`, `Ends`,
`ChildrenEnd`, `BothEnd`), since TLAPS proves no ENABLED formulas; and the
four disagreements of code and comment, which are counterexamples. Every
invariant of a passing run is stated by a theorem, and so are the action
properties `PairsAreKept` and `FailureIsExplained` and the refinement
`KeepsPromise`.

## 5. What is not modelled

* Remedies, wording, the layout of the reports, the diagnostics text.
* Configuration settings other than inspections, products and the product
  release: they are assigned or appended in the same two ways. The parsers.
* Of Koji's answers, the keys that name and locate a build; `get_all_arches()`;
  progress output.
* Whether a path is ignored and which security rules apply to it (`lib/paths.c`,
  `get_secrule_by_path()`): inputs of `VirusScan` and `PeerInspections`.
* How a path is rewritten in `find_one_peer()`: a parameter of `FilePeers`.
* In the inspections, the file formats and tools: what a diff, a MIME type,
  libelf, libabigail or a validator says is an input, as are `unicode`'s
  preparation of the source tree and the splitting of license expressions.
  Configuration lists (forbidden paths, bin paths, migrations) are what they
  say of the file. Counts and sets of names stand for the walks that produce
  them. Running out of memory and failing system calls inside a driver are left
  out, save where the driver goes on with another return value (`javabytecode`,
  `patches`). `desktop` is taken to see a validator print what it complains of.
* `inspect_arch`: peers have one architecture by construction, so that it never
  adds anything.
* `expected_deprule_change()`: it chooses the wording of an informational
  result.
* In `ParallelClient` children are no longer followed once the parent has given
  up; `VirusScan` follows them.
* Header accessors, spec files and macros (`lib/rpm.c`, `lib/spec.c`),
  readers of file formats (`lib/readelf.c`, `lib/abi.c`, `lib/kmods.c`): inputs.
* Vendored code (`libxdiff`, `libtoml`), tests, data, build files.

## 6. Plan

Done: the collector with its client; the virus inspection with its abstract
specification; `full_write` and the command runner; file peers; the
configuration files, Koji's answers and the program from its options to its
exit status and four reports; dependency rules and the rpmdeps inspection; and
all inspections but the one that can never report; each with proofs of its
invariants.

Next, in this order:

1. Security rules and ignored paths as operators on what was read, in place of
   the inputs of `PeerInspections`.
2. Lists, strings and paths as pure operators against reference definitions;
   `mkdirp` and `copyfile` with their failures.
3. License expressions as a pure algorithm.
4. The cache of headers.

Proofs to come: abstract specifications of the pairing of files and of the
command runner, shown to be implemented as `ScanPromise` is; and step properties
of the program (a result is never taken back, a later file never lowers a
verdict).
