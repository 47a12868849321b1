-------------------------- MODULE RpminspectProofs --------------------------
(***************************************************************************)
(* Proofs about Rpminspect: the exit status and the report agree with the  *)
(* results, the peers with what was gathered, the selection of inspections *)
(* and the product release with the configuration files, for every list of *)
(* inspections, every invocation and whatever the builds and the files     *)
(* hold.                                                                   *)
(***************************************************************************)
EXTENDS Rpminspect, WellFoundedInduction, TLAPS

Headers == Names \cup {"diagnostics"}
Result == [header : Headers, severity : Severities, plain : BOOLEAN]

\* Where the program is before its first result.
Gathers == {"gather", "copy", "download", "extract"}
Before == {"start", "options", "diagnose"} \cup Gathers
Ended == {"exited", "crashed"}

\* What the report needs to know of the program's state.
TypeOK ==
    /\ args \in Invocations
    /\ pc \in Before \cup {"release", "inspect", "finish"} \cup Ended
    /\ idx \in Nat \ {0}
    /\ results \in Seq(Result)
    /\ worst \in Severities

\* The worst result is the severity of some result and exceeded by none.
WorstOf(rs, w) ==
    /\ \A i \in DOMAIN rs : rs[i].severity <= w
    /\ \E i \in DOMAIN rs : rs[i].severity = w

WorstIsWorst == pc \notin Before \cup Ended => WorstOf(results, worst)

NoResultYet == pc \in Before => results = <<>>

\* The loop over the inspections starts after the builds are there, and it
\* is the only way to its end.
LoopIsLast ==
    /\ pc \in Before \cup {"release"} => idx = 1
    /\ pc = "finish" => idx > Len(Inspections)
    /\ pc = "crashed" => idx = 1

\* A result as severe as -s asks for is displayed if the report is written,
\* except for what the summary does not tell.
Unsaid(i) == results[i].plain \/ results[i].header = "diagnostics"

SevereIsShown ==
    args.writable =>
        \A i \in DOMAIN results :
            results[i].severity >= args.suppress =>
                i \in shown \/ (args.format = "summary" /\ Unsaid(i))

ReportIsComplete == pc = "finish" => SevereIsShown

\* What is left when main() returns after the loop.
ReturnedWith ==
    Reported => /\ WorstOf(results, worst)
                /\ SevereIsShown
                /\ code = IF worst >= args.threshold THEN RI_INSPECTION_FAILURE
                          ELSE RI_SUCCESS

IInv ==
    /\ TypeOK
    /\ NoResultYet
    /\ WorstIsWorst
    /\ LoopIsLast
    /\ ReportIsComplete
    /\ ReturnedWith

-----------------------------------------------------------------------------

\* There is an inspection, and the name of each may head a result.
LEMMA InspectionsAssumed ==
    /\ Len(Inspections) \in Nat \ {0}
    /\ \A i \in 1 .. Len(Inspections) : Inspections[i].name \in Headers
<1> DEFINE Kind == [name : STRING, security_checks : BOOLEAN, single_build : BOOLEAN]
<1>1. Inspections \in Seq(Kind) /\ Inspections # <<>>
  BY ConfigAssumption
<1> HIDE DEF Kind
<1>2. Len(Inspections) \in Nat \ {0} /\ DOMAIN Inspections = 1 .. Len(Inspections)
  BY <1>1
<1> QED
  BY <1>2 DEF Headers, Names

\* The thresholds of an invocation are severities.
LEMMA ThresholdsAssumed ==
    \A a \in Invocations : a.threshold \in Severities /\ a.suppress \in Severities
BY RpminspectAssumption

\* Adding a result keeps the worst the worst.
LEMMA AddResultKeepsWorst ==
    ASSUME NEW header \in Headers, NEW severity \in Severities,
           NEW plain \in BOOLEAN,
           results \in Seq(Result), worst \in Severities,
           WorstOf(results, worst),
           add_result(header, severity, plain)
    PROVE  /\ results' \in Seq(Result) /\ worst' \in Severities
           /\ WorstOf(results', worst')
<1> DEFINE r == Entry(header, severity, plain)
<1>1. r \in Result /\ r.severity = severity
  BY DEF Result, Entry
<1>2. /\ results' = Append(results, r)
      /\ worst' = IF severity > worst THEN severity ELSE worst
  BY DEF add_result
<1> HIDE DEF r
<1>3. /\ results' \in Seq(Result)
      /\ DOMAIN results = 1 .. Len(results)
      /\ DOMAIN results' = 1 .. Len(results) + 1
      /\ \A i \in 1 .. Len(results) : results'[i] = results[i]
      /\ results'[Len(results) + 1] = r
  BY <1>1, <1>2
<1>4. \A i \in 1 .. Len(results) : results[i].severity \in Severities
  <2>1. \A i \in 1 .. Len(results) : results[i] \in Result
    OBVIOUS
  <2> QED
    BY <2>1 DEF Result
<1>5. \A i \in DOMAIN results' : results'[i].severity <= worst'
  <2> TAKE i \in DOMAIN results'
  <2>1. CASE i = Len(results) + 1
    BY <2>1, <1>1, <1>2, <1>3 DEF Severities, RESULT_BAD
  <2>2. CASE i \in 1 .. Len(results)
    BY <2>2, <1>2, <1>3, <1>4 DEF WorstOf, Severities, RESULT_BAD
  <2> QED
    BY <2>1, <2>2, <1>3
<1>6. \E i \in DOMAIN results' : results'[i].severity = worst'
  <2>1. CASE severity > worst
    BY <2>1, <1>1, <1>2, <1>3
  <2>2. CASE ~(severity > worst)
    <3>1. PICK i \in 1 .. Len(results) : results[i].severity = worst
      BY <1>3 DEF WorstOf
    <3> QED
      BY <3>1, <2>2, <1>2, <1>3
  <2> QED
    BY <2>1, <2>2
<1>7. worst' \in Severities
  BY <1>2
<1> QED
  BY <1>3, <1>5, <1>6, <1>7 DEF WorstOf

\* Gathering adds no result, and ends in the diagnostics or the program.
LEMMA GatherLeads ==
    ASSUME gather
    PROVE  /\ pc \in Gathers
           /\ pc' \in Gathers \cup {"diagnose"} \cup Ended
           /\ UNCHANGED <<args, idx, results, worst, shown>>
<1>1. UNCHANGED <<idx, results, worst, shown>> /\ gather_builds
  BY DEF gather, reportVars
<1>2. CASE gather_local_build \/ copytree
  BY <1>2, <1>1 DEF gather_local_build, copytree, GatherFails, Gathers, Ended
<1>3. CASE download_rpm \/ start_download
  BY <1>3, <1>1 DEF download_rpm, start_download, GatherFails, Gathers, Ended
<1>4. CASE download_next \/ unable_to_find \/ program_error
  BY <1>4, <1>1 DEF download_next, unable_to_find, program_error,
                    GatherFails, Gathers, Ended
<1>5. CASE gathered \/ extract_peers
  BY <1>5, <1>1 DEF gathered, extract_peers, GatherFails, Gathers, Ended
<1> QED
  BY <1>1, <1>2, <1>3, <1>4, <1>5 DEF gather_builds
-----------------------------------------------------------------------------

\* Before the first result there is nothing to be wrong.
LEMMA InitHolds == Init => IInv
<1> SUFFICES ASSUME Init
             PROVE  IInv
  OBVIOUS
<1>1. TypeOK
  BY DEF Init, TypeOK, Before, NULL, Severities, RESULT_BAD
<1>2. LoopIsLast /\ NoResultYet
  BY DEF Init, LoopIsLast, NoResultYet
<1>3. WorstIsWorst /\ ReportIsComplete /\ ReturnedWith
  BY DEF Init, WorstIsWorst, ReportIsComplete, ReturnedWith, Reported, Before
<1> QED
  BY <1>1, <1>2, <1>3 DEF IInv

\* The program reads its configuration and options, gathers, or ends.
LEMMA PreparingKeeps ==
    ASSUME IInv, read_configuration \/ select_inspections \/ gather
    PROVE  IInv'
<1>1. /\ UNCHANGED <<args, idx, results, worst, shown>>
      /\ pc \in Before
      /\ pc' \in Before \cup Ended
  <2>1. CASE read_configuration
    BY <2>1 DEF read_configuration, reportVars, Before, Ended
  <2>2. CASE select_inspections
    BY <2>2 DEF select_inspections, reportVars, Before, Ended, Gathers
  <2>3. CASE gather
    BY <2>3, GatherLeads DEF Before
  <2> QED
    BY <2>1, <2>2, <2>3
<1>2. idx = 1
  BY <1>1 DEF IInv, LoopIsLast
<1>3. TypeOK' /\ NoResultYet'
  BY <1>1 DEF IInv, TypeOK, NoResultYet
<1>4. WorstIsWorst'
  BY <1>1 DEF WorstIsWorst
<1>5. LoopIsLast'
  BY <1>1, <1>2 DEF LoopIsLast, Before, Gathers, Ended
<1>6. ReportIsComplete'
  BY <1>1 DEF ReportIsComplete, Before, Gathers, Ended
<1>7. ReturnedWith'
  BY <1>1, <1>2, InspectionsAssumed DEF ReturnedWith, Reported
<1> QED
  BY <1>3, <1>4, <1>5, <1>6, <1>7 DEF IInv

\* The first result is the diagnostics', and the worst so far.
LEMMA DiagnosticsKeeps ==
    ASSUME IInv, diagnostics
    PROVE  IInv'
<1> DEFINE r == Entry("diagnostics", RESULT_DIAG, FALSE)
<1>1. /\ UNCHANGED <<args, idx, shown>>
      /\ pc = "diagnose" /\ pc' \in {"inspect", "release"}
      /\ results' = Append(results, r) /\ worst' = RESULT_DIAG
  BY DEF diagnostics
<1>2. r \in Result /\ r.severity = RESULT_DIAG
  <2>1. RESULT_DIAG \in Severities
    BY DEF Severities, RESULT_BAD, RESULT_DIAG
  <2>2. "diagnostics" \in Headers
    BY DEF Headers
  <2> QED
    BY <2>1, <2>2 DEF Result, Entry
<1> HIDE DEF r
<1>3. results = <<>> /\ idx = 1
  BY <1>1 DEF IInv, NoResultYet, LoopIsLast, Before
<1>4. /\ results' = <<r>>
      /\ DOMAIN results' = {1} /\ results'[1] = r
      /\ results' \in Seq(Result)
  BY <1>1, <1>2, <1>3
<1>5. WorstOf(results', worst')
  BY <1>1, <1>2, <1>4 DEF WorstOf, RESULT_DIAG
<1>6. TypeOK'
  BY <1>1, <1>4 DEF IInv, TypeOK, Severities, RESULT_BAD, RESULT_DIAG
<1>7. WorstIsWorst' /\ NoResultYet'
  BY <1>1, <1>5 DEF WorstIsWorst, NoResultYet, Before, Gathers
<1>8. LoopIsLast'
  BY <1>1, <1>3 DEF LoopIsLast
<1>9. ReportIsComplete' /\ ReturnedWith'
  BY <1>1 DEF ReportIsComplete, ReturnedWith, Reported
<1> QED
  BY <1>6, <1>7, <1>8, <1>9 DEF IInv

\* The product release is worked out, or the program ends.
LEMMA DetermineReleaseKeeps ==
    ASSUME IInv, no_peers \/ determine_release
    PROVE  IInv'
<1>1. /\ UNCHANGED <<args, idx, results, worst, shown>>
      /\ pc = "release" /\ pc' \in {"exited", "inspect"}
  BY DEF no_peers, determine_release, reportVars
<1>2. idx = 1 /\ WorstOf(results, worst)
  BY <1>1 DEF IInv, LoopIsLast, WorstIsWorst, Before, Gathers, Ended
<1>3. TypeOK' /\ NoResultYet'
  BY <1>1 DEF IInv, TypeOK, NoResultYet, Ended, Before, Gathers
<1>4. WorstIsWorst'
  BY <1>1, <1>2 DEF WorstIsWorst
<1>5. LoopIsLast'
  BY <1>1, <1>2 DEF LoopIsLast, Before, Gathers
<1>6. ReportIsComplete'
  BY <1>1 DEF ReportIsComplete
<1>7. ReturnedWith'
  BY <1>1, <1>2, InspectionsAssumed DEF ReturnedWith, Reported
<1> QED
  BY <1>3, <1>4, <1>5, <1>6, <1>7 DEF IInv

\* One turn of the loop skips an inspection or runs it.
LEMMA LoopKeeps ==
    ASSUME IInv, skip_inspection \/ needs_before_build \/ run_inspection
    PROVE  IInv'
<1>1. /\ UNCHANGED <<args, pc>> /\ pc = "inspect"
      /\ idx <= Len(Inspections) /\ idx' = idx + 1
      /\ \/ \E s \in Severities, q \in BOOLEAN : add_result(inspection.name, s, q)
         \/ UNCHANGED <<results, worst>>
  <2>1. {RESULT_SKIP, RESULT_OK, RESULT_INFO, RESULT_VERIFY, RESULT_BAD}
            \subseteq Severities
    BY DEF Severities, RESULT_SKIP, RESULT_OK, RESULT_INFO, RESULT_VERIFY, RESULT_BAD
  <2>2. CASE skip_inspection
    BY <2>1, <2>2 DEF skip_inspection, gatherVars
  <2>3. CASE needs_before_build
    BY <2>3 DEF needs_before_build, gatherVars, reportVars
  <2>4. CASE run_inspection
    BY <2>1, <2>4 DEF run_inspection, gatherVars
  <2> QED
    BY <2>2, <2>3, <2>4
<1>2. /\ results \in Seq(Result) /\ worst \in Severities /\ idx \in Nat \ {0}
      /\ WorstOf(results, worst)
  BY <1>1 DEF IInv, TypeOK, WorstIsWorst, Before, Gathers, Ended
<1>3. /\ results' \in Seq(Result) /\ worst' \in Severities
      /\ WorstOf(results', worst')
  <2>1. CASE UNCHANGED <<results, worst>>
    BY <2>1, <1>2
  <2>2. CASE \E s \in Severities, q \in BOOLEAN : add_result(inspection.name, s, q)
    <3>1. inspection.name \in Headers
      <4>1. PICK i \in 1 .. Len(Inspections) : i = idx
        BY <1>1, <1>2, InspectionsAssumed
      <4> QED
        BY <4>1, InspectionsAssumed DEF inspection
    <3> QED
      BY <2>2, <3>1, <1>2, AddResultKeepsWorst
  <2> QED
    BY <2>1, <2>2, <1>1
<1>4. TypeOK' /\ NoResultYet'
  BY <1>1, <1>2, <1>3 DEF IInv, TypeOK, NoResultYet, Before, Gathers
<1>5. WorstIsWorst'
  BY <1>3 DEF WorstIsWorst
<1>6. LoopIsLast'
  BY <1>1 DEF LoopIsLast, Before, Gathers
<1>7. ReportIsComplete' /\ ReturnedWith'
  BY <1>1 DEF ReportIsComplete, ReturnedWith, Reported
<1> QED
  BY <1>4, <1>5, <1>6, <1>7 DEF IInv

\* Each report displays every result that is severe enough, the summary
\* those it has something to tell of.
LEMMA OutputKeeps ==
    ASSUME IInv, output_results
    PROVE  IInv'
<1>1. /\ UNCHANGED <<args, idx, results, worst>>
      /\ pc = "inspect" /\ pc' = "finish" /\ idx > Len(Inspections)
  BY DEF output_results
<1>2. /\ args.suppress \in Nat
      /\ args.format \in {"text", "json", "xunit", "summary"}
  BY ThresholdsAssumed, RpminspectAssumption DEF IInv, TypeOK, Severities, RESULT_BAD
<1>3. ASSUME NEW i \in DOMAIN results, args.writable,
             results[i].severity >= args.suppress
      PROVE  i \in shown' \/ (args.format = "summary" /\ Unsaid(i))
  <2>1. results[i].severity \in Nat
    <3>1. results[i] \in Result
      BY DEF IInv, TypeOK
    <3> QED
      BY <3>1 DEF Result, Severities, RESULT_BAD
  <2>2. ~suppressed_results(results[i].header)
    BY <1>2, <1>3, <2>1 DEF suppressed_results
  <2>3. /\ i \in output_text /\ i \in output_json /\ i \in output_xunit
        /\ i \in output_summary \/ Unsaid(i)
    BY <1>3, <2>2 DEF output_text, output_json, output_xunit, output_summary, Unsaid
  <2> HIDE DEF output_text, output_json, output_xunit, output_summary
  <2>4. shown' = CASE args.format = "text" -> output_text
                   [] args.format = "json" -> output_json
                   [] args.format = "xunit" -> output_xunit
                   [] args.format = "summary" -> output_summary
    BY <1>2, <1>3 DEF output_results
  <2> QED
    BY <1>2, <2>3, <2>4
<1>4. ReportIsComplete'
  BY <1>1, <1>3 DEF ReportIsComplete, SevereIsShown, Unsaid
<1>5. TypeOK' /\ NoResultYet'
  BY <1>1 DEF IInv, TypeOK, NoResultYet, Before, Gathers
<1>6. WorstIsWorst'
  BY <1>1 DEF IInv, WorstIsWorst, Before, Gathers, Ended
<1>7. LoopIsLast' /\ ReturnedWith'
  BY <1>1 DEF LoopIsLast, ReturnedWith, Reported, Before, Gathers
<1> QED
  BY <1>4, <1>5, <1>6, <1>7 DEF IInv

\* The exit status is worked out from the worst result.
LEMMA FinishKeeps ==
    ASSUME IInv, finish
    PROVE  IInv'
<1>1. /\ UNCHANGED <<args, idx, results, worst, shown>>
      /\ pc = "finish" /\ pc' = "exited"
      /\ code' = IF worst >= args.threshold THEN RI_INSPECTION_FAILURE
                 ELSE RI_SUCCESS
  BY DEF finish, reportVars
<1>2. WorstOf(results, worst) /\ SevereIsShown
  BY <1>1 DEF IInv, WorstIsWorst, ReportIsComplete, Before, Gathers, Ended
<1>3. TypeOK' /\ NoResultYet'
  BY <1>1 DEF IInv, TypeOK, NoResultYet, Before, Gathers, Ended
<1>4. WorstIsWorst' /\ LoopIsLast' /\ ReportIsComplete'
  BY <1>1 DEF WorstIsWorst, LoopIsLast, ReportIsComplete, Before, Gathers, Ended
<1>5. ReturnedWith'
  BY <1>1, <1>2 DEF ReturnedWith, SevereIsShown, Unsaid
<1> QED
  BY <1>3, <1>4, <1>5 DEF IInv

\* Every step of the program keeps the invariant.
LEMMA NextKeeps == IInv /\ [Next]_vars => IInv'
<1> SUFFICES ASSUME IInv, [Next]_vars
             PROVE  IInv'
  OBVIOUS
<1>1. CASE read_configuration \/ select_inspections \/ gather
  BY <1>1, PreparingKeeps
<1>2. CASE diagnostics
  BY <1>2, DiagnosticsKeeps
<1>3. CASE no_peers \/ determine_release
  BY <1>3, DetermineReleaseKeeps
<1>4. CASE skip_inspection \/ needs_before_build \/ run_inspection
  BY <1>4, LoopKeeps
<1>5. CASE output_results
  BY <1>5, OutputKeeps
<1>6. CASE finish
  BY <1>6, FinishKeeps
<1>7. CASE Terminated \/ UNCHANGED vars
  <2>1. UNCHANGED <<args, pc, code, idx, results, worst, shown>>
    BY <1>7 DEF Terminated, vars, gatherVars, reportVars
  <2>2. TypeOK' /\ NoResultYet' /\ WorstIsWorst' /\ LoopIsLast'
    BY <2>1 DEF IInv, TypeOK, NoResultYet, WorstIsWorst, LoopIsLast
  <2>3. ReportIsComplete' /\ ReturnedWith'
    BY <2>1 DEF IInv, ReportIsComplete, ReturnedWith, Reported,
                    SevereIsShown, Unsaid
  <2> QED
    BY <2>2, <2>3 DEF IInv
<1> QED
  BY <1>1, <1>2, <1>3, <1>4, <1>5, <1>6, <1>7 DEF Next

-----------------------------------------------------------------------------

\* The variables of main() keep within their types.
THEOREM TypeCorrect == Spec => []TypeOK
<1>1. IInv => TypeOK
  BY DEF IInv
<1> QED
  BY InitHolds, NextKeeps, <1>1, PTL DEF Spec

\* A result is severe enough for -t if and only if the worst one is.
LEMMA ThresholdReached ==
    ASSUME IInv, WorstOf(results, worst)
    PROVE  worst >= args.threshold <=>
             \E i \in DOMAIN results : results[i].severity >= args.threshold
<1>1. args.threshold \in Nat /\ worst \in Nat
  BY ThresholdsAssumed DEF IInv, TypeOK, Severities, RESULT_BAD
<1>2. \A i \in DOMAIN results : results[i].severity \in Nat
  <2>1. \A i \in DOMAIN results : results[i] \in Result
    BY DEF IInv, TypeOK
  <2> QED
    BY <2>1 DEF Result, Severities, RESULT_BAD
<1> QED
  BY <1>1, <1>2 DEF WorstOf

\* The program exits with a failure if and only if some result, shown or
\* not, reached the threshold.
THEOREM ExitIsJustified == Spec => []ExitReflectsWorst
<1>1. IInv => ExitReflectsWorst
  <2> SUFFICES ASSUME IInv, Reported
               PROVE  code = RI_INSPECTION_FAILURE <=>
                        \E i \in DOMAIN results :
                            results[i].severity >= args.threshold
    BY DEF ExitReflectsWorst
  <2>1. /\ WorstOf(results, worst)
        /\ code = IF worst >= args.threshold THEN RI_INSPECTION_FAILURE
                  ELSE RI_SUCCESS
    BY DEF IInv, ReturnedWith
  <2>2. code = RI_INSPECTION_FAILURE <=> worst >= args.threshold
    BY <2>1 DEF RI_INSPECTION_FAILURE, RI_SUCCESS
  <2> QED
    BY <2>1, <2>2, ThresholdReached
<1> QED
  BY InitHolds, NextKeeps, <1>1, PTL DEF Spec

\* A failure is shown in the report, in whatever format, unless -s suppresses
\* more than -t lets pass, the report cannot be written, or the summary has
\* nothing to tell of any result that severe.
THEOREM FailureIsDisplayed == Spec => []FailureIsShown
<1>1. IInv => FailureIsShown
  <2> DEFINE Severe(i) == results[i].severity >= args.threshold
  <2> SUFFICES ASSUME IInv, Reported, code = RI_INSPECTION_FAILURE,
                      args.suppress <= args.threshold, args.writable
               PROVE  \/ \E i \in shown : Severe(i)
                      \/ /\ args.format = "summary"
                         /\ \A i \in DOMAIN results : Severe(i) => Unsaid(i)
    BY DEF FailureIsShown, Unsaid
  <2>1. WorstOf(results, worst) /\ SevereIsShown /\ worst >= args.threshold
    BY DEF IInv, ReturnedWith, RI_INSPECTION_FAILURE, RI_SUCCESS
  <2>2. PICK i \in DOMAIN results : Severe(i)
    BY <2>1, ThresholdReached
  <2>3. \A j \in DOMAIN results :
           Severe(j) => j \in shown \/ (args.format = "summary" /\ Unsaid(j))
    <3>1. args.threshold \in Nat /\ args.suppress \in Nat
      BY ThresholdsAssumed DEF IInv, TypeOK, Severities, RESULT_BAD
    <3>2. \A j \in DOMAIN results : results[j].severity \in Nat
      <4>1. \A j \in DOMAIN results : results[j] \in Result
        BY DEF IInv, TypeOK
      <4> QED
        BY <4>1 DEF Result, Severities, RESULT_BAD
    <3> QED
      BY <2>1, <3>1, <3>2 DEF SevereIsShown
  <2> QED
    BY <2>2, <2>3
<1> QED
  BY InitHolds, NextKeeps, <1>1, PTL DEF Spec

-----------------------------------------------------------------------------
\* A package is of one of the two builds; a peer has one or none a side.
Package == (1 .. 2) \X Nat
Peer == [before : Package \cup {NoPackage}, after : Package \cup {NoPackage}]

\* A package on disk was reached: its build was gathered, or the program is
\* past it.
Reached(p) ==
    /\ p[1] <= turn
    /\ p[1] = turn => /\ pc \notin {"start", "options", "gather"}
                      /\ pc \in {"copy", "download"} => p[2] < next

\* Where the program is in the list of builds, and that -f never gets past it.
Position ==
    /\ args \in Invocations
    /\ turn \in 1 .. args.n /\ next \in Nat
    /\ pc = "copy" => args.kind[turn] = "local"
    /\ args.fetch_only => pc # "extract" /\ ~Inspected
    /\ pc \in {"start", "options"} => turn = 1 /\ files = {} /\ peers = <<>>

\* A package is there by the type of its build, and filtered by no module.
Proper(p) == BelongsToItsBuild(p) /\ ~FilteredOut(p)

\* The packages and the peers belong together from the first package on.
Joined ==
    /\ peers \in Seq(Peer) /\ here \subseteq Package
    /\ turn = 1 => /\ \A i \in DOMAIN peers : peers[i].before = NoPackage
                   /\ \A p \in here : p[1] = 1
    /\ PeersAreThere
    /\ EachAfterHasItsPeer
    /\ NamesMeet
    /\ \A p \in here : Proper(p)

GatherInv ==
    /\ Position
    /\ ~args.fetch_only /\ pc \notin Ended => Joined /\ \A p \in here : Reached(p)

\* ri->buildtype after build b, with the one before it: what a local build
\* holds decides, a build in Koji only where nothing has.
Left(b, before) ==
    IF OwnType(b) # KOJI_BUILD_NULL /\ (args.kind[b] = "local" \/ before = KOJI_BUILD_NULL)
    THEN OwnType(b) ELSE before

\* The type that build b is gathered with.
TypeIn(b) == IF b = 1 THEN args.buildtype ELSE Left(1, args.buildtype)

TypeInv ==
    /\ pc \notin Ended =>
          buildtype = IF pc \in {"start", "options", "gather"} THEN TypeIn(turn)
                      ELSE Left(turn, TypeIn(turn))
    /\ pc = "extract" \/ Inspected => turn = args.n

-----------------------------------------------------------------------------
\* The numbers are well-founded, as a relation that can be picked.
LEMMA Descends ==
    \E R : /\ IsWellFoundedOn(R, Nat)
          /\ \A a, b \in Nat : a < b => <<a, b>> \in R
<1>1. \A a, b \in Nat : a < b => <<a, b>> \in OpToRel(<, Nat)
  BY DEF OpToRel
<1> QED
  BY <1>1, NatLessThanWellFounded, Zenon

\* A set of numbers has a least one.
LEMMA NatMin ==
    ASSUME NEW T, T \subseteq Nat, T # {}
    PROVE  \E m \in T : \A k \in T : m <= k
<1>1. PICK R : /\ IsWellFoundedOn(R, Nat)
               /\ \A a, b \in Nat : a < b => <<a, b>> \in R
  BY Descends
<1>2. PICK m \in T : \A y \in T : ~(<<y, m>> \in R)
  <2>1. IsWellFoundedOn(R, Nat)
    BY <1>1, Zenon
  <2> QED
    BY <2>1, WFMin, Zenon
<1>3. ASSUME NEW k \in T
      PROVE  m <= k
  <2>1. ~(k < m)
    BY <1>1, <1>2, Zenon
  <2> QED
    BY <2>1
<1> QED
  BY <1>3

\* Induction over the numbers.
LEMMA Induction ==
    ASSUME NEW S, 0 \in S, \A n \in Nat : n \in S => n + 1 \in S
    PROVE  Nat \subseteq S
<1> SUFFICES ASSUME NEW z \in Nat, z \notin S
             PROVE  FALSE
  OBVIOUS
<1> DEFINE T == {n \in Nat : n \notin S}
<1>1. T # {}
  OBVIOUS
<1>2. PICK m \in T : \A k \in T : m <= k
  BY <1>1, NatMin
<1>3. m # 0 /\ m - 1 \in Nat /\ m - 1 \notin T
  BY <1>2
<1> QED
  BY <1>3

\* One build or two are named.
LEMMA BuildsAssumed == \A a \in Invocations : a.n \in 1 .. 2
BY GatherAssumption

\* A package is not the absence of one.
LEMMA PackageFacts ==
    ASSUME NEW p \in Package
    PROVE  p # NoPackage /\ p[1] \in 1 .. 2 /\ p[2] \in Nat
BY DEF Package, NoPackage

\* What a package is to be is in the invocation.
LEMMA ProperStays ==
    ASSUME UNCHANGED args
    PROVE  \A q : NameOf(q)' = NameOf(q) /\ (Proper(q)' <=> Proper(q))
<1> SUFFICES ASSUME NEW q
             PROVE  NameOf(q)' = NameOf(q) /\ (Proper(q)' <=> Proper(q))
  OBVIOUS
<1>1. NameOf(q)' = NameOf(q)
  BY DEF NameOf
<1>2. \A b : is_koji_build(b)' <=> is_koji_build(b)
  BY DEF is_koji_build, allowed_arch, srpms
<1>3. \A b : OwnType(b)' = OwnType(b)
  BY <1>2 DEF OwnType
<1>4. \A b : TypeIsStale(b)' <=> TypeIsStale(b)
  BY <1>2, <1>3 DEF TypeIsStale
<1>5. BelongsToItsBuild(q)' <=> BelongsToItsBuild(q)
  BY <1>1, <1>2, <1>3, <1>4 DEF BelongsToItsBuild
<1>6. FilteredOut(q)' <=> FilteredOut(q)
  BY <1>1, <1>2 DEF FilteredOut
<1> QED
  BY <1>1, <1>5, <1>6 DEF Proper

\* A package of a build that Koji does not have is proper.
LEMMA OthersAreProper ==
    ASSUME NEW p, ~is_koji_build(p[1])
    PROVE  Proper(p)
BY DEF Proper, BelongsToItsBuild, FilteredOut

\* A build whose type is not stale leaves its own.
LEMMA TypeIsItsOwn ==
    ASSUME NEW b \in 1 .. 2, OwnType(b) # KOJI_BUILD_NULL, ~TypeIsStale(b)
    PROVE  Left(b, TypeIn(b)) = OwnType(b)
<1>1. CASE args.kind[b] = "local"
  BY <1>1 DEF Left
<1>2. CASE args.kind[b] # "local"
  <2>1. is_koji_build(b)
    BY <1>2 DEF OwnType
  <2>2. TypeIn(b) \in {KOJI_BUILD_NULL, OwnType(b)}
    <3>1. CASE b = 1
      BY <3>1, <2>1 DEF TypeIn, TypeIsStale
    <3>2. CASE b = 2
      <4> DEFINE kept == IF args.buildtype # KOJI_BUILD_NULL /\ args.kind[1] # "local"
                         THEN args.buildtype ELSE OwnType(1)
      <4>1. kept \in {KOJI_BUILD_NULL, OwnType(b)}
        BY <3>2, <2>1 DEF TypeIsStale
      <4>2. TypeIn(b) = kept
        <5>1. OwnType(1) = KOJI_BUILD_NULL => args.kind[1] # "local"
          BY DEF OwnType, KOJI_BUILD_NULL, KOJI_BUILD_RPM, KOJI_BUILD_MODULE
        <5> HIDE DEF OwnType
        <5> QED
          BY <5>1, <3>2 DEF TypeIn, Left
      <4> QED
        BY <4>1, <4>2
    <3> QED
      BY <3>1, <3>2
  <2> QED
    BY <2>2 DEF Left
<1> QED
  BY <1>1, <1>2

\* A file on disk is a package more.
LEMMA HereGrows ==
    ASSUME NEW p, NEW d, files' = files \cup {File(d, p)}
    PROVE  here' = here \cup {p}
<1>1. here' = {f.package : f \in files \cup {File(d, p)}}
  BY DEF here
<1>2. File(d, p).package = p
  BY DEF File
<1> HIDE DEF File
<1> QED
  BY <1>1, <1>2 DEF here

\* One more entry at the end of the list leaves the others where they are.
LEMMA Appended ==
    ASSUME peers \in Seq(Peer), NEW r \in Peer, peers' = Append(peers, r)
    PROVE  /\ peers' \in Seq(Peer)
           /\ DOMAIN peers' = DOMAIN peers \cup {Len(peers) + 1}
           /\ Len(peers) + 1 \notin DOMAIN peers
           /\ peers'[Len(peers) + 1] = r
           /\ \A i \in DOMAIN peers : peers'[i] = peers[i]
<1>1. peers' \in Seq(Peer)
  BY SMT
<1>2. Len(peers) \in Nat /\ DOMAIN peers = 1 .. Len(peers) /\ DOMAIN peers' = 1 .. Len(peers) + 1
  OBVIOUS
<1> QED
  BY <1>1, <1>2

\* The one entry that takes the new package in leaves the others as they are.
LEMMA TakenIn ==
    ASSUME peers \in Seq(Peer), NEW p \in Package, NEW k \in DOMAIN peers,
           whichbuild = "before",
           peers' = [peers EXCEPT ![k][whichbuild] = p]
    PROVE  /\ peers' \in Seq(Peer)
           /\ DOMAIN peers' = DOMAIN peers
           /\ peers'[k].before = p /\ peers'[k].after = peers[k].after
           /\ \A i \in DOMAIN peers : i # k => peers'[i] = peers[i]
<1> DEFINE r == [peers[k] EXCEPT ![whichbuild] = p]
<1>1. peers[k] \in Peer
  OBVIOUS
<1>2. r \in Peer /\ r.before = p /\ r.after = peers[k].after
  BY <1>1 DEF Peer
<1>3. peers' = [peers EXCEPT ![k] = r]
  OBVIOUS
<1> HIDE DEF r
<1>4. peers' \in Seq(Peer) /\ DOMAIN peers' = DOMAIN peers
  <2> DEFINE m == [peers EXCEPT ![k] = r]
  <2>1. m \in Seq(Peer) /\ DOMAIN m = DOMAIN peers
    BY <1>2
  <2> QED
    BY <1>3, <2>1
<1>5. peers'[k] = r /\ \A i \in DOMAIN peers : i # k => peers'[i] = peers[i]
  BY <1>3
<1> QED
  BY <1>2, <1>4, <1>5

\* A package of the after build is new, and gets an entry of its own.
LEMMA AfterArrives ==
    ASSUME Joined, UNCHANGED <<args, turn>>, turn = 1,
           ~args.fetch_only,
           NEW p \in Package, p[1] = turn, p \notin here, Proper(p),
           NEW d, files' = files \cup {File(d, p)}, peers' = add_peer(p)
    PROVE  Joined' /\ \E r \in Peer : peers' = Append(peers, r)
<1> DEFINE r == [before |-> NoPackage, after |-> p]
           new == Len(peers) + 1
<1>1. r \in Peer /\ r.before = NoPackage /\ r.after = p
  BY DEF Peer
<1>2. here' = here \cup {p} /\ p # NoPackage
  BY HereGrows, PackageFacts
<1>3. peers' = Append(peers, r)
  <2>1. whichbuild = "after"
    BY DEF whichbuild
  <2>2. \A i \in DOMAIN peers : ~Fits(i, p)
    BY <2>1 DEF Fits, Joined
  <2> QED
    BY <2>1, <2>2 DEF add_peer
<1> HIDE DEF r
<1>4. peers \in Seq(Peer)
  BY DEF Joined
<1>5. /\ peers' \in Seq(Peer)
      /\ DOMAIN peers' = DOMAIN peers \cup {new} /\ new \notin DOMAIN peers
      /\ peers'[new] = r /\ \A i \in DOMAIN peers : peers'[i] = peers[i]
  BY <1>1, <1>3, <1>4, Appended
<1> HIDE DEF new
<1>6. \A q : NameOf(q)' = NameOf(q) /\ (Proper(q)' <=> Proper(q))
  BY ProperStays
<1>7. \A i \in DOMAIN peers' : peers'[i].before = NoPackage
  BY <1>1, <1>5 DEF Joined
<1>8. PeersAreThere'
  BY <1>1, <1>2, <1>5, <1>6, <1>7 DEF Joined, PeersAreThere, Has
<1>9. EachAfterHasItsPeer'
  <2>1. \A i \in DOMAIN peers : peers[i].after # p
    BY <1>2 DEF Joined, PeersAreThere, Has
  <2> SUFFICES ASSUME NEW q \in here', q[1] = 1
               PROVE  \E i \in DOMAIN peers' :
                         /\ peers'[i].after = q
                         /\ \A j \in DOMAIN peers' : peers'[j].after = q => i = j
    BY DEF EachAfterHasItsPeer
  <2>2. CASE q = p
    BY <2>1, <2>2, <1>1, <1>5
  <2>3. CASE q # p
    <3>1. PICK i \in DOMAIN peers :
             /\ peers[i].after = q
             /\ \A j \in DOMAIN peers : peers[j].after = q => i = j
      BY <2>3, <1>2 DEF Joined, EachAfterHasItsPeer
    <3> QED
      BY <3>1, <2>3, <1>1, <1>5
  <2> QED
    BY <2>2, <2>3
<1>10. NamesMeet'
  <2> SUFFICES ASSUME NEW a \in here', NEW b \in here',
                      a[1] = 1, b[1] = 2, NameOf(a) = NameOf(b)
               PROVE  \E i \in DOMAIN peers' :
                         /\ Has(i, "after")' /\ Has(i, "before")'
                         /\ NameOf(peers'[i].after) = NameOf(a)
    BY <1>6 DEF NamesMeet
  <2> QED
    BY <1>2 DEF Joined
<1>11. \A q \in here' : Proper(q)'
  BY <1>2, <1>6 DEF Joined
<1>12. \A q \in here' : q[1] = 1
  BY <1>2 DEF Joined
<1> QED
  BY <1>1, <1>2, <1>3, <1>5, <1>7, <1>8, <1>9, <1>10, <1>11, <1>12 DEF Joined

\* A package of the before build with a name that no package of the after
\* build has gets an entry of its own.
LEMMA BeforeArrivesAlone ==
    ASSUME Joined, UNCHANGED <<args, turn>>, turn = 2,
           ~args.fetch_only,
           NEW p \in Package, p[1] = turn, p \notin here, Proper(p),
           NEW d, files' = files \cup {File(d, p)}, peers' = add_peer(p),
           \A i \in DOMAIN peers : ~Fits(i, p)
    PROVE  Joined'
<1> DEFINE r == [before |-> p, after |-> NoPackage]
           new == Len(peers) + 1
<1>1. r \in Peer /\ r.before = p /\ r.after = NoPackage
  BY DEF Peer
<1>2. here' = here \cup {p} /\ p # NoPackage
  BY HereGrows, PackageFacts
<1>3. whichbuild = "before"
  BY DEF whichbuild
<1>4. peers' = Append(peers, r)
  BY <1>3 DEF add_peer
<1> HIDE DEF r
<1>5. /\ peers' \in Seq(Peer)
      /\ DOMAIN peers' = DOMAIN peers \cup {new} /\ new \notin DOMAIN peers
      /\ peers'[new] = r /\ \A i \in DOMAIN peers : peers'[i] = peers[i]
  BY <1>1, <1>4, Appended DEF Joined
<1> HIDE DEF new
<1>6. \A q : NameOf(q)' = NameOf(q) /\ (Proper(q)' <=> Proper(q))
  BY ProperStays
<1>7. PeersAreThere'
  BY <1>1, <1>2, <1>5, <1>6 DEF Joined, PeersAreThere, Has
<1>8. EachAfterHasItsPeer'
  <2> SUFFICES ASSUME NEW q \in here', q[1] = 1
               PROVE  \E i \in DOMAIN peers' :
                         /\ peers'[i].after = q
                         /\ \A j \in DOMAIN peers' : peers'[j].after = q => i = j
    BY DEF EachAfterHasItsPeer
  <2>1. q \in here /\ q # NoPackage
    BY <1>2, PackageFacts DEF Joined
  <2>2. PICK i \in DOMAIN peers :
             /\ peers[i].after = q
             /\ \A j \in DOMAIN peers : peers[j].after = q => i = j
    BY <2>1 DEF Joined, EachAfterHasItsPeer
  <2> QED
    BY <2>1, <2>2, <1>1, <1>5
<1>9. NamesMeet'
  <2> SUFFICES ASSUME NEW a \in here', NEW b \in here',
                      a[1] = 1, b[1] = 2, NameOf(a) = NameOf(b)
               PROVE  \E i \in DOMAIN peers' :
                         /\ Has(i, "after")' /\ Has(i, "before")'
                         /\ NameOf(peers'[i].after) = NameOf(a)
    BY <1>6 DEF NamesMeet
  <2>1. a \in here
    BY <1>2
  <2>2. PICK k \in DOMAIN peers : peers[k].after = a
    BY <2>1 DEF Joined, EachAfterHasItsPeer
  <2>3. peers[k].after # NoPackage
    BY <2>1, <2>2, PackageFacts DEF Joined
  <2>4. b # p
    BY <2>2, <2>3, <1>3 DEF Fits
  <2>5. PICK i \in DOMAIN peers :
             /\ Has(i, "after") /\ Has(i, "before")
             /\ NameOf(peers[i].after) = NameOf(a)
    BY <2>1, <2>4, <1>2 DEF Joined, NamesMeet
  <2> QED
    BY <2>5, <1>5 DEF Has
<1>10. \A q \in here' : Proper(q)'
  BY <1>2, <1>6 DEF Joined
<1> QED
  BY <1>2, <1>5, <1>7, <1>8, <1>9, <1>10 DEF Joined

\* Else the first entry with the name takes it in.
LEMMA BeforeArrives ==
    ASSUME Joined, UNCHANGED <<args, turn>>, turn = 2,
           ~args.fetch_only,
           NEW p \in Package, p[1] = turn, p \notin here, Proper(p),
           NEW d, files' = files \cup {File(d, p)}, peers' = add_peer(p),
           NEW any \in DOMAIN peers, Fits(any, p)
    PROVE  Joined'
<1> DEFINE existing == {i \in DOMAIN peers : Fits(i, p)}
           k == CHOOSE i \in existing : \A j \in existing : i <= j
<1>1. here' = here \cup {p} /\ p # NoPackage
  BY HereGrows, PackageFacts
<1>2. whichbuild = "before"
  BY DEF whichbuild
<1>3. peers' = [peers EXCEPT ![k][whichbuild] = p]
  BY DEF add_peer
<1>4. k \in existing
  <2>1. existing # {} /\ existing \subseteq Nat
    BY DEF Joined
  <2> HIDE DEF existing
  <2>2. \E m \in existing : \A j \in existing : m <= j
    BY <2>1, NatMin
  <2> QED
    BY <2>2
<1>5. k \in DOMAIN peers /\ peers[k].after # NoPackage /\ NameOf(peers[k].after) = NameOf(p)
  BY <1>2, <1>4 DEF Fits
<1> HIDE DEF k, existing
<1>6. /\ peers' \in Seq(Peer) /\ DOMAIN peers' = DOMAIN peers
      /\ peers'[k].before = p /\ peers'[k].after = peers[k].after
      /\ \A i \in DOMAIN peers : i # k => peers'[i] = peers[i]
  BY <1>2, <1>3, <1>5, TakenIn DEF Joined
<1>7. \A q : NameOf(q)' = NameOf(q) /\ (Proper(q)' <=> Proper(q))
  BY ProperStays
<1>8. \A i \in DOMAIN peers : peers'[i].after = peers[i].after
  BY <1>6
<1>9. PeersAreThere'
  BY <1>1, <1>5, <1>6, <1>7, <1>8 DEF Joined, PeersAreThere, Has
<1>10. EachAfterHasItsPeer'
  <2> SUFFICES ASSUME NEW q \in here', q[1] = 1
               PROVE  \E i \in DOMAIN peers' :
                         /\ peers'[i].after = q
                         /\ \A j \in DOMAIN peers' : peers'[j].after = q => i = j
    BY DEF EachAfterHasItsPeer
  <2>1. q \in here
    BY <1>1
  <2>2. PICK i \in DOMAIN peers :
             /\ peers[i].after = q
             /\ \A j \in DOMAIN peers : peers[j].after = q => i = j
    BY <2>1 DEF Joined, EachAfterHasItsPeer
  <2> QED
    <3>1. i \in DOMAIN peers' /\ peers'[i].after = q
      BY <2>2, <1>6, <1>8
    <3>2. \A j \in DOMAIN peers' : peers'[j].after = q => i = j
      BY <2>2, <1>6, <1>8
    <3> QED
      BY <3>1, <3>2
<1>11. NamesMeet'
  <2> SUFFICES ASSUME NEW a \in here', NEW b \in here',
                      a[1] = 1, b[1] = 2, NameOf(a) = NameOf(b)
               PROVE  \E i \in DOMAIN peers' :
                         /\ Has(i, "after")' /\ Has(i, "before")'
                         /\ NameOf(peers'[i].after) = NameOf(a)
    BY <1>7 DEF NamesMeet
  <2>1. a \in here
    BY <1>1
  <2>2. CASE b = p
    BY <2>2, <1>1, <1>5, <1>6 DEF Has
  <2>3. CASE b # p
    <3>1. PICK i \in DOMAIN peers :
             /\ Has(i, "after") /\ Has(i, "before")
             /\ NameOf(peers[i].after) = NameOf(a)
      BY <2>1, <2>3, <1>1 DEF Joined, NamesMeet
    <3> QED
      BY <3>1, <1>1, <1>6, <1>8 DEF Has
  <2> QED
    BY <2>2, <2>3
<1>12. \A q \in here' : Proper(q)'
  BY <1>1, <1>7 DEF Joined
<1> QED
  BY <1>1, <1>6, <1>9, <1>10, <1>11, <1>12 DEF Joined

\* A package that is not there yet and that no module filters out.
LEMMA Arrives ==
    ASSUME Joined, Position, UNCHANGED <<args, turn>>, ~args.fetch_only,
           NEW p \in Package, p[1] = turn, p \notin here, Proper(p),
           NEW d, files' = files \cup {File(d, p)}, peers' = add_peer(p)
    PROVE  Joined'
<1>1. turn \in {1, 2}
  BY BuildsAssumed DEF Position
<1>2. CASE turn = 1
  BY <1>2, AfterArrives
<1>3. CASE turn = 2
  BY <1>3, BeforeArrives, BeforeArrivesAlone
<1> QED
  BY <1>1, <1>2, <1>3

\* Without a new package everything stays together.
LEMMA Waits ==
    ASSUME Joined, UNCHANGED <<args, turn, files, peers>>
    PROVE  Joined'
<1>1. \A q : NameOf(q)' = NameOf(q) /\ (Proper(q)' <=> Proper(q))
  BY ProperStays
<1>2. here' = here
  BY DEF here
<1> QED
  BY <1>1, <1>2 DEF Joined, PeersAreThere, EachAfterHasItsPeer, NamesMeet, Has

\* Once the program has ended nothing is promised.
LEMMA Leaves ==
    ASSUME GatherInv, pc' \in Ended, UNCHANGED <<args, turn>>, next' \in Nat
    PROVE  GatherInv'
BY DEF GatherInv, Position, Inspected, Ended

\* At most the package at the program's place has come, and the place moved on.
LEMMA Reaches ==
    ASSUME GatherInv, ~args.fetch_only,
           pc \in {"gather", "copy", "download"}, pc' \in {"copy", "download"},
           UNCHANGED <<args, turn>>, next' \in Nat,
           NEW k \in Nat, k < next', pc = "gather" \/ next <= next',
           here' \subseteq here \cup {<<turn, k>>}, here' \subseteq Package
    PROVE  \A q \in here' : Reached(q)'
<1> TAKE q \in here'
<1>1. q[2] \in Nat
  BY PackageFacts
<1>2. CASE q = <<turn, k>>
  BY <1>2, BuildsAssumed DEF Reached, GatherInv, Position
<1>3. CASE q \in here
  <2>1. Reached(q) /\ next \in Nat
    BY <1>3 DEF GatherInv, Position, Ended
  <2> QED
    BY <2>1, <1>1 DEF Reached
<1> QED
  BY <1>2, <1>3

\* The step that brings a package, or leaves it.
LEMMA OneMore ==
    ASSUME GatherInv, pc \in {"gather", "copy", "download"},
           pc' \in {"copy", "download"}, pc' = "copy" => args.kind[turn] = "local",
           UNCHANGED <<args, turn>>,
           NEW k \in Nat, next' = k + 1, pc = "gather" \/ k = next,
           \/ UNCHANGED <<files, peers>>
           \/ /\ Proper(<<turn, k>>)
              /\ \E d : files' = files \cup {File(d, <<turn, k>>)}
              /\ peers' = add_peer(<<turn, k>>)
    PROVE  GatherInv'
<1>1. Position'
  BY DEF GatherInv, Position, Inspected
<1>2. ASSUME ~args.fetch_only
      PROVE  Joined' /\ \A q \in here' : Reached(q)'
  <2> DEFINE p == <<turn, k>>
  <2>1. p \in Package /\ p[1] = turn /\ p[2] = k /\ p \notin here
    <3>1. turn \in 1 .. 2
      BY BuildsAssumed DEF GatherInv, Position
    <3>2. p \in Package /\ p[1] = turn /\ p[2] = k
      BY <3>1 DEF Package
    <3>3. \A q \in here : Reached(q)
      BY <1>2 DEF GatherInv, Ended
    <3>4. next \in Nat
      BY DEF GatherInv, Position
    <3> HIDE DEF p
    <3>5. p \notin here
      BY <3>2, <3>3, <3>4 DEF Reached
    <3> QED
      BY <3>2, <3>5
  <2>2. Joined
    BY <1>2 DEF GatherInv, Ended
  <2>3. Joined' /\ here' \subseteq here \cup {p}
    <3>1. CASE UNCHANGED <<files, peers>>
      BY <3>1, <2>2, Waits DEF here
    <3>2. CASE ~UNCHANGED <<files, peers>>
      <4>1. PICK d : files' = files \cup {File(d, p)}
        BY <3>2
      <4>2. peers' = add_peer(p) /\ Proper(p)
        BY <3>2
      <4> HIDE DEF p
      <4>3. here' = here \cup {p}
        BY <4>1, HereGrows
      <4>4. Joined'
        BY <4>1, <4>2, <2>1, <2>2, <1>2, Arrives DEF GatherInv
      <4> QED
        BY <4>3, <4>4
    <3> QED
      BY <3>1, <3>2
  <2>4. next' \in Nat /\ k < next' /\ (pc = "gather" \/ next <= next')
    BY DEF GatherInv, Position
  <2>5. here' \subseteq Package
    BY <2>3 DEF Joined
  <2>6. \A q \in here' : Reached(q)'
    BY <2>3, <2>4, <2>5, <1>2, Reaches
  <2> QED
    BY <2>3, <2>6
<1> QED
  BY <1>1, <1>2 DEF GatherInv

\* The step that does not touch the packages within a build.
LEMMA Starts ==
    ASSUME GatherInv, pc = "gather", pc' \in {"copy", "download"},
           pc' = "copy" => args.kind[turn] = "local",
           UNCHANGED <<args, turn, files, peers>>, next' \in Nat
    PROVE  GatherInv'
<1>1. Position'
  BY DEF GatherInv, Position, Inspected
<1>2. ASSUME ~args.fetch_only
      PROVE  Joined' /\ \A q \in here' : Reached(q)'
  <2>1. Joined /\ here' = here /\ \A q \in here : Reached(q)
    BY <1>2 DEF GatherInv, Ended, here
  <2>2. \A q \in here : Reached(q)'
    BY <2>1 DEF Reached
  <2> QED
    BY <2>1, <2>2, Waits
<1> QED
  BY <1>1, <1>2 DEF GatherInv

\* A local build is found and copied.
LEMMA LocalBuildKeeps ==
    ASSUME GatherInv, gather_local_build \/ copytree
    PROVE  GatherInv'
<1>0. next \in Nat
  BY DEF GatherInv, Position
<1>1. CASE gather_local_build
  <2>1. CASE pc' = "copy"
    BY <1>1, <2>1, Starts DEF gather_local_build, GatherFails
  <2>2. CASE pc' # "copy"
    BY <1>1, <2>2, <1>0, Leaves DEF gather_local_build, GatherFails, Ended
  <2> QED
    BY <2>1, <2>2
<1>2. CASE copytree
  <2>1. CASE pc' = "copy"
    <3>1. args.kind[turn] = "local"
      BY <1>2 DEF copytree, GatherInv, Position
    <3>2. Proper(<<turn, next>>)
      BY <3>1, OthersAreProper DEF is_koji_build
    <3> QED
      BY <1>0, <1>2, <2>1, <3>1, <3>2, OneMore DEF copytree, GatherFails
  <2>2. CASE pc' # "copy"
    BY <1>2, <2>2, <1>0, Leaves DEF copytree, GatherFails, Ended
  <2> QED
    BY <2>1, <2>2
<1> QED
  BY <1>1, <1>2

\* One package comes from its URL.
LEMMA RemoteRpmKeeps ==
    ASSUME GatherInv, download_rpm
    PROVE  GatherInv'
<1>1. CASE pc' = "download"
  <2>1. Proper(<<turn, 1>>)
    BY OthersAreProper DEF download_rpm, is_koji_build
  <2>2. /\ pc = "gather" /\ UNCHANGED <<args, turn>> /\ next' = 1 + 1
        /\ \/ UNCHANGED <<files, peers>>
           \/ /\ files' = files \cup {File(worksubdir, <<turn, 1>>)}
              /\ peers' = add_peer(<<turn, 1>>)
    <3>1. ~\E r \in {-1, RI_INSUFFICIENT_SPACE} : GatherFails(r)
      BY <1>1 DEF GatherFails
    <3>2. 1 + 1 = 2
      OBVIOUS
    <3> QED
      BY <1>1, <3>1, <3>2, Zenon DEF download_rpm
  <2> QED
    BY <1>1, <2>1, <2>2, OneMore
<1>2. CASE pc' # "download"
  BY <1>2, Leaves DEF download_rpm, GatherFails, Ended, GatherInv, Position
<1> QED
  BY <1>1, <1>2

\* A package that is fetched is of its build and none that a module filters
\* out: with the type of a module it was looked up, with another the tagged
\* builds have none.
LEMMA FetchedIsProper ==
    ASSUME GatherInv, TypeInv, pc = "download",
           next \in rpms(buildtype), ~filtered(NameOf(<<turn, next>>))
    PROVE  Proper(<<turn, next>>)
<1> DEFINE p == <<turn, next>>
<1>1. CASE ~is_koji_build(turn)
  BY <1>1, OthersAreProper
<1>2. CASE is_koji_build(turn)
  <2>1. is_build /\ next \in listed(answer, buildtype, DOMAIN content)
    BY <1>2 DEF is_build, rpms
  <2>2. ~FilteredOut(p)
    BY <2>1 DEF FilteredOut, filtered, is_module, listed, answer
  <2>3. BelongsToItsBuild(p)
    <3>1. CASE TypeIsStale(turn)
      BY <3>1 DEF BelongsToItsBuild
    <3>2. CASE ~TypeIsStale(turn)
      <4>1. turn \in 1 .. 2
        BY BuildsAssumed DEF GatherInv, Position
      <4>2. OwnType(turn) # KOJI_BUILD_NULL
        BY <1>2 DEF OwnType, KOJI_BUILD_NULL, KOJI_BUILD_RPM, KOJI_BUILD_MODULE
      <4>3. buildtype = OwnType(turn)
        BY <3>2, <4>1, <4>2, TypeIsItsOwn DEF TypeInv, Ended
      <4>4. OwnType(turn) = KOJI_BUILD_MODULE => NameOf(p) \notin answer.filter
        BY <2>1, <4>3 DEF filtered, is_module
      <4> QED
        BY <2>1, <4>3, <4>4 DEF BelongsToItsBuild, answer, content
    <3> QED
      BY <3>1, <3>2
  <2> QED
    BY <2>2, <2>3 DEF Proper
<1> QED
  BY <1>1, <1>2

\* The packages of a build or task come one after the other.
LEMMA KojiBuildKeeps ==
    ASSUME GatherInv, TypeInv, start_download \/ download_next
    PROVE  GatherInv'
<1>0. next \in Nat
  BY DEF GatherInv, Position
<1>1. CASE start_download
  <2>1. CASE pc' = "download"
    BY <1>1, <2>1, Starts DEF start_download, GatherFails
  <2>2. CASE pc' # "download"
    BY <1>1, <2>2, <1>0, Leaves DEF start_download, GatherFails, Ended
  <2> QED
    BY <2>1, <2>2
<1>2. CASE download_next
  <2>1. CASE UNCHANGED <<files, peers>>
    BY <1>0, <1>2, <2>1, OneMore DEF download_next
  <2>2. CASE ~UNCHANGED <<files, peers>>
    BY <1>0, <1>2, <2>2, OneMore, FetchedIsProper DEF download_next
  <2> QED
    BY <2>1, <2>2
<1> QED
  BY <1>1, <1>2

\* The next build begins, or the packages are complete and unpacked.
LEMMA GatheredKeeps ==
    ASSUME GatherInv, gathered \/ extract_peers
    PROVE  GatherInv'
<1>1. /\ UNCHANGED <<args, files, peers>> /\ turn' \in 1 .. args.n
      /\ next' \in Nat
      /\ \/ pc' \in Ended /\ turn' = turn
         \/ pc' = "gather" /\ turn' = turn + 1
         \/ pc' = "extract" /\ turn' = turn /\ ~args.fetch_only
         \/ pc' = "diagnose" /\ turn' = turn /\ pc = "extract"
  <2>1. CASE gathered
    BY <2>1, BuildsAssumed DEF gathered, GatherInv, Position, Ended
  <2>2. CASE extract_peers
    BY <2>2 DEF extract_peers, GatherFails, GatherInv, Position, Ended
  <2> QED
    BY <2>1, <2>2
<1>2. Position'
  BY <1>1 DEF GatherInv, Position, Inspected, Ended
<1>3. ASSUME ~args.fetch_only, pc' \notin Ended
      PROVE  Joined' /\ \A q \in here' : Reached(q)'
  <2>1. /\ Joined /\ here' = here /\ \A q \in here : Reached(q)
        /\ pc \notin {"start", "options", "gather"}
    BY <1>3 DEF GatherInv, Ended, here, gathered, extract_peers
  <2>2. turn \in 1 .. 2 /\ \A q \in here : q[1] \in 1 .. 2
    BY <2>1, PackageFacts, BuildsAssumed DEF Joined, GatherInv, Position
  <2>3. \A q \in here : Reached(q)'
    BY <1>1, <1>3, <2>1, <2>2 DEF Reached
  <2>4. Joined'
    <3>1. CASE turn' = turn
      BY <3>1, <1>1, <2>1, Waits
    <3>2. CASE turn' = turn + 1
      BY <3>2, <1>1, <2>1, <2>2, ProperStays
         DEF Joined, here, PeersAreThere, EachAfterHasItsPeer, NamesMeet, Has
    <3> QED
      BY <3>1, <3>2, <1>1, <1>3
  <2> QED
    BY <2>1, <2>3, <2>4
<1> QED
  BY <1>1, <1>2, <1>3 DEF GatherInv

\* What main() does around the gathering leaves the packages alone, until it
\* ends.
LEMMA AroundKeeps ==
    ASSUME GatherInv, UNCHANGED <<args, turn, next, files, peers>>,
           \/ pc' = pc
           \/ pc' \in Ended
           \/ pc = "start" /\ pc' = "options"
           \/ pc = "options" /\ pc' = "gather" /\ turn = 1
           \/ Inspected /\ pc' \in {"release", "inspect", "finish"}
    PROVE  GatherInv'
<1>1. CASE pc' \in Ended
  BY <1>1, Leaves DEF GatherInv, Position
<1>2. CASE pc' \notin Ended
  <2>1. Position'
    BY <1>2 DEF GatherInv, Position, Inspected, Ended
  <2>2. ASSUME ~args.fetch_only
        PROVE  Joined' /\ \A q \in here' : Reached(q)'
    <3>1. Joined /\ here' = here /\ \A q \in here : Reached(q)
      BY <1>2, <2>2 DEF GatherInv, Ended, Inspected, here
    <3>2. \A q \in here : Reached(q)'
      <4>1. CASE pc = "options"
        BY <4>1 DEF GatherInv, Position, here
      <4>2. CASE pc # "options"
        BY <4>2, <3>1, <1>2 DEF Reached, Inspected
      <4> QED
        BY <4>1, <4>2
    <3> QED
      BY <3>1, <3>2, Waits
  <2> QED
    BY <2>1, <2>2 DEF GatherInv
<1> QED
  BY <1>1, <1>2

\* Nothing was gathered at first.
LEMMA GatherInit == Init => GatherInv
<1> SUFFICES ASSUME Init
             PROVE  GatherInv
  OBVIOUS
<1>1. here = {} /\ peers = <<>>
  BY DEF Init, here
<1>2. Position
  BY BuildsAssumed DEF Init, Position, Inspected
<1>3. Joined
  BY <1>1 DEF Joined, PeersAreThere, EachAfterHasItsPeer, NamesMeet
<1> QED
  BY <1>1, <1>2, <1>3 DEF GatherInv

\* Every step keeps the packages and the peers together.
LEMMA GatherNext == GatherInv /\ TypeInv /\ [Next]_vars => GatherInv'
<1> SUFFICES ASSUME GatherInv, TypeInv, [Next]_vars
             PROVE  GatherInv'
  OBVIOUS
<1>1. CASE gather
  <2>1. gather_builds
    BY <1>1 DEF gather
  <2>2. CASE unable_to_find \/ program_error
    BY <2>2, Leaves DEF unable_to_find, program_error, GatherFails, Ended,
                        GatherInv, Position
  <2> QED
    BY <2>1, <2>2, LocalBuildKeeps, RemoteRpmKeeps, KojiBuildKeeps, GatheredKeeps
       DEF gather_builds
<1>2. CASE read_configuration
  BY <1>2, AroundKeeps DEF read_configuration, Ended
<1>3. CASE select_inspections
  BY <1>3, AroundKeeps DEF select_inspections, Ended, GatherInv, Position
<1>4. CASE diagnostics
  BY <1>4, AroundKeeps DEF diagnostics, Inspected
<1>5. CASE determine_release
  BY <1>5, AroundKeeps DEF determine_release, Inspected, Ended
<1>6. CASE skip_inspection
  BY <1>6, AroundKeeps DEF skip_inspection, gatherVars
<1>7. CASE needs_before_build
  BY <1>7, AroundKeeps DEF needs_before_build, gatherVars
<1>8. CASE run_inspection
  BY <1>8, AroundKeeps DEF run_inspection, gatherVars
<1>9. CASE output_results
  BY <1>9, AroundKeeps DEF output_results, Inspected
<1>10. CASE finish
  BY <1>10, Leaves DEF finish, Ended, GatherInv, Position
<1>11. CASE Terminated \/ UNCHANGED vars
  BY <1>11, AroundKeeps DEF Terminated, vars, gatherVars
<1>12. CASE no_peers
  BY <1>12, AroundKeeps DEF no_peers, Ended
<1> QED
  BY <1>1, <1>2, <1>3, <1>4, <1>5, <1>6, <1>7, <1>8, <1>9, <1>10, <1>11, <1>12 DEF Next

\* Nothing has set the type of the build but -b.
LEMMA TypeInit == Init => TypeInv
BY DEF Init, TypeInv, TypeIn, Inspected

\* Where the type does not change, it is the same as before.
LEMMA TypeStays ==
    ASSUME GatherInv, TypeInv, UNCHANGED <<args, turn, buildtype>>,
           \/ pc' \in Ended
           \/ /\ pc' \in {"start", "options", "gather"} => pc \in {"start", "options", "gather"}
              /\ pc' \notin {"start", "options", "gather"} =>
                     pc \notin {"start", "options", "gather"} \cup Ended
              /\ pc' = "extract" \/ Inspected' => pc = "extract" \/ Inspected \/ turn = args.n
    PROVE  TypeInv'
<1>1. CASE pc' \in Ended
  BY <1>1 DEF TypeInv, Ended, Inspected
<1>2. CASE pc' \notin Ended
  <2>1. pc \notin Ended
    BY <1>2 DEF Ended
  <2>2. \A b : OwnType(b)' = OwnType(b)
    BY DEF OwnType, is_koji_build, allowed_arch, srpms
  <2>3. \A b, t : Left(b, t)' = Left(b, t)
    BY <2>2 DEF Left
  <2>4. TypeIn(turn)' = TypeIn(turn)
    BY <2>3 DEF TypeIn
  <2>5. Left(turn, TypeIn(turn))' = Left(turn, TypeIn(turn))
    BY <2>3, <2>4
  <2>6. buildtype' = IF pc' \in {"start", "options", "gather"} THEN TypeIn(turn)'
                     ELSE Left(turn, TypeIn(turn))'
    BY <1>2, <2>1, <2>4, <2>5 DEF TypeInv
  <2>7. pc' = "extract" \/ Inspected' => turn' = args'.n
    BY <1>2, <2>1 DEF TypeInv
  <2> QED
    BY <2>6, <2>7 DEF TypeInv
<1> QED
  BY <1>1, <1>2

\* A build that is begun leaves its type.
LEMMA TypeIsLeft ==
    ASSUME TypeInv, pc = "gather", UNCHANGED <<args, turn>>,
           pc' \in {"copy", "download"}, buildtype' = Left(turn, TypeIn(turn))
    PROVE  TypeInv'
<1>1. \A b : OwnType(b)' = OwnType(b)
  BY DEF OwnType, is_koji_build, allowed_arch, srpms
<1>2. \A b, t : Left(b, t)' = Left(b, t)
  BY <1>1 DEF Left
<1>3. Left(turn, TypeIn(turn))' = Left(turn, TypeIn(turn))
  BY <1>2 DEF TypeIn
<1> QED
  BY <1>3 DEF TypeInv, Inspected

\* Gathering a build sets the type as the kind of the build has it.
LEMMA GatheringTypes ==
    ASSUME GatherInv, TypeInv, gather_builds
    PROVE  TypeInv'
<1>0. pc \in Gathers /\ pc \notin Ended
  BY DEF gather_builds, gather_local_build, copytree, download_rpm, start_download,
         download_next, unable_to_find, program_error, gathered, extract_peers, Gathers, Ended
<1>1. CASE gather_local_build
  <2>1. CASE pc' = "copy"
    <3>1. /\ pc = "gather" /\ UNCHANGED <<args, turn>> /\ args.kind[turn] = "local"
          /\ buildtype' = IF turn \in args.modulemd THEN KOJI_BUILD_MODULE ELSE KOJI_BUILD_RPM
      BY <1>1, <2>1 DEF gather_local_build, GatherFails
    <3>2. buildtype' = OwnType(turn) /\ OwnType(turn) # KOJI_BUILD_NULL
      BY <3>1 DEF OwnType, KOJI_BUILD_NULL, KOJI_BUILD_RPM, KOJI_BUILD_MODULE
    <3> QED
      BY <3>1, <3>2, <2>1, TypeIsLeft DEF Left
  <2>2. CASE pc' # "copy"
    BY <1>1, <2>2, TypeStays DEF gather_local_build, GatherFails, Ended
  <2> QED
    BY <2>1, <2>2
<1>2. CASE download_rpm
  <2>1. UNCHANGED <<args, turn, buildtype>> /\ pc = "gather" /\ args.kind[turn] = "remote rpm"
    BY <1>2 DEF download_rpm, GatherFails
  <2>2. pc' \in Ended \/ pc' = "download"
    BY <1>2 DEF download_rpm, GatherFails, Ended
  <2>3. Left(turn, TypeIn(turn)) = buildtype
    BY <2>1 DEF Left, OwnType, is_koji_build, TypeInv, Ended
  <2> QED
    BY <2>1, <2>2, <2>3, TypeStays, TypeIsLeft
<1>3. CASE start_download
  <2>1. CASE pc' = "download"
    <3>1. /\ pc = "gather" /\ UNCHANGED <<args, turn>> /\ args.kind[turn] \in {"task", "build"}
          /\ buildtype' = IF is_build THEN type_after(answer, buildtype) ELSE buildtype
      BY <1>3, <2>1 DEF start_download, GatherFails
    <3>2. buildtype = TypeIn(turn)
      BY <3>1, <1>0 DEF TypeInv
    <3>3. OwnType(turn) = IF ~is_build THEN KOJI_BUILD_NULL
                          ELSE IF has_module_metadata(answer) THEN KOJI_BUILD_MODULE
                          ELSE KOJI_BUILD_RPM
      BY <3>1 DEF OwnType, is_build, answer
    <3>4. buildtype' = Left(turn, TypeIn(turn))
      <4>1. CASE is_build
        BY <4>1, <3>1, <3>2, <3>3
           DEF Left, type_after, KOJI_BUILD_NULL, KOJI_BUILD_RPM, KOJI_BUILD_MODULE
      <4>2. CASE ~is_build
        BY <4>2, <3>1, <3>2, <3>3 DEF Left
      <4> QED
        BY <4>1, <4>2
    <3> QED
      BY <3>1, <3>4, <2>1, TypeIsLeft
  <2>2. CASE pc' # "download"
    BY <1>3, <2>2, TypeStays DEF start_download, GatherFails, Ended
  <2> QED
    BY <2>1, <2>2
<1>4. CASE copytree \/ download_next \/ unable_to_find \/ program_error
  <2>1. UNCHANGED <<args, turn, buildtype>>
    BY <1>4 DEF copytree, download_next, unable_to_find, program_error, GatherFails
  <2>2. pc' \in Ended \/ (pc' = pc /\ pc \in {"copy", "download"})
    BY <1>4 DEF copytree, download_next, unable_to_find, program_error, GatherFails, Ended
  <2> QED
    BY <2>1, <2>2, TypeStays DEF Ended, Inspected
<1>5. CASE gathered
  <2>1. UNCHANGED <<args, buildtype>> /\ turn \in 1 .. args.n /\ args.n \in 1 .. 2
    BY <1>5, BuildsAssumed DEF gathered, GatherInv, Position
  <2>2. CASE turn < args.n
    <3>1. turn = 1 /\ turn' = 2 /\ pc' = "gather" /\ pc \in {"copy", "download"}
      BY <2>1, <2>2, <1>5 DEF gathered
    <3>2. buildtype' = Left(1, args.buildtype)
      BY <2>1, <3>1 DEF TypeInv, TypeIn, Ended
    <3>3. OwnType(1)' = OwnType(1)
      BY <2>1 DEF OwnType, is_koji_build, allowed_arch, srpms
    <3>4. TypeIn(turn)' = Left(1, args.buildtype)
      BY <2>1, <3>1, <3>3 DEF TypeIn, Left
    <3> QED
      BY <3>1, <3>2, <3>4 DEF TypeInv, Inspected
  <2>3. CASE ~(turn < args.n)
    <3>1. /\ turn = args.n /\ UNCHANGED turn
          /\ pc \in {"copy", "download"} /\ pc' \in {"exited", "extract"}
      BY <2>1, <2>3, <1>5 DEF gathered
    <3> QED
      BY <2>1, <3>1, TypeStays DEF Ended, Inspected
  <2> QED
    BY <2>2, <2>3
<1>6. CASE extract_peers
  BY <1>6, TypeStays DEF extract_peers, GatherFails, Ended, Inspected
<1> QED
  BY <1>1, <1>2, <1>3, <1>4, <1>5, <1>6 DEF gather_builds

\* Every step keeps the reason for the type of the build.
LEMMA TypeNext == GatherInv /\ TypeInv /\ [Next]_vars => TypeInv'
<1> SUFFICES ASSUME GatherInv, TypeInv, [Next]_vars
             PROVE  TypeInv'
  OBVIOUS
<1>1. CASE gather
  BY <1>1, GatheringTypes DEF gather
<1>2. CASE read_configuration \/ select_inspections
  BY <1>2, TypeStays DEF read_configuration, select_inspections, Ended, Inspected
<1>3. CASE diagnostics \/ no_peers \/ determine_release
  BY <1>3, TypeStays DEF diagnostics, no_peers, determine_release, Ended, Inspected
<1>4. CASE skip_inspection \/ needs_before_build \/ run_inspection
  <2>1. UNCHANGED <<args, turn, buildtype, pc>> /\ pc = "inspect"
    BY <1>4 DEF skip_inspection, needs_before_build, run_inspection, gatherVars
  <2> QED
    BY <2>1, TypeStays DEF Ended, Inspected
<1>5. CASE output_results \/ finish
  BY <1>5, TypeStays DEF output_results, finish, Ended, Inspected
<1>6. CASE Terminated \/ UNCHANGED vars
  <2>1. UNCHANGED <<args, turn, buildtype, pc>>
    BY <1>6 DEF Terminated, vars, gatherVars
  <2> QED
    BY <2>1, TypeStays DEF Ended, Inspected
<1> QED
  BY <1>1, <1>2, <1>3, <1>4, <1>5, <1>6 DEF Next

\* The type that is left at the end is that of the builds.
LEMMA TypesAreOfTheBuilds ==
    ASSUME GatherInv, TypeInv, Inspected
    PROVE  TypeIsOfTheBuilds
<1>1. args.n \in 1 .. 2 /\ turn = args.n
  BY BuildsAssumed DEF GatherInv, Position, TypeInv
<1>2. buildtype = Left(args.n, TypeIn(args.n))
  BY <1>1 DEF TypeInv, Inspected, Ended
<1> SUFFICES ASSUME NEW b \in 1 .. args.n, OwnType(b) # KOJI_BUILD_NULL, ~TypeIsStale(b),
                    b = 1 => args.n = 1 \/ args.kind[2] # "local"
             PROVE  buildtype = OwnType(b)
  BY DEF TypeIsOfTheBuilds
<1>3. b \in 1 .. 2
  BY <1>1
<1>4. Left(b, TypeIn(b)) = OwnType(b)
  BY <1>3, TypeIsItsOwn
<1>5. CASE b = args.n
  BY <1>2, <1>4, <1>5
<1>6. CASE b = 1 /\ args.n = 2
  <2>1. TypeIn(2) = OwnType(1)
    BY <1>4, <1>6 DEF TypeIn
  <2>2. buildtype = TypeIn(2)
    BY <1>2, <1>6, <2>1 DEF Left
  <2> QED
    BY <2>1, <2>2, <1>6
<1> QED
  BY <1>1, <1>3, <1>5, <1>6

\* What is inspected is what was gathered, however many builds of whatever kind
\* bring it and whichever architectures are asked for (add_peer, copytree,
\* get_koji_build, download_build).
THEOREM PeersAreGathered == Spec => []PeersAreTheGatheredPackages
<1>1. GatherInv /\ TypeInv => PeersAreTheGatheredPackages
  <2> SUFFICES ASSUME GatherInv, TypeInv, Inspected
               PROVE  PeersAreTheGatheredPackages
    BY DEF PeersAreTheGatheredPackages
  <2>1. Joined
    BY DEF GatherInv, Position, Inspected, Ended
  <2>2. TypeIsOfTheBuilds
    BY TypesAreOfTheBuilds
  <2> QED
    BY <2>1, <2>2 DEF Joined, Proper, PeersAreTheGatheredPackages
<1> QED
  BY GatherInit, GatherNext, TypeInit, TypeNext, <1>1, PTL DEF Spec

-----------------------------------------------------------------------------
\* Each value of f after the first is what step makes of the one before it.
Follows(f, n, base, step) ==
    /\ f = [k \in 0 .. n |-> f[k]]
    /\ f[0] = base
    /\ \A k \in 1 .. n : f[k] = step[k][f[k - 1]]

\* A function that follows step is there.
LEMMA Recursion ==
    ASSUME NEW N \in Nat, NEW base, NEW step
    PROVE  \E f : Follows(f, N, base, step)
<1> DEFINE S == {n \in Nat : \E g : Follows(g, n, base, step)}
<1>1. 0 \in S
  <2> DEFINE g == [k \in 0 .. 0 |-> base]
  <2>1. Follows(g, 0, base, step)
    BY DEF Follows
  <2> QED
    BY <2>1
<1>2. ASSUME NEW n \in Nat, n \in S
      PROVE  n + 1 \in S
  <2>1. PICK g : Follows(g, n, base, step)
    BY <1>2
  <2> DEFINE h == [k \in 0 .. n + 1 |-> IF k = n + 1 THEN step[k][g[n]] ELSE g[k]]
  <2>2. \A k \in 0 .. n : h[k] = g[k]
    OBVIOUS
  <2>3. h[n + 1] = step[n + 1][g[n]] /\ h = [k \in 0 .. n + 1 |-> h[k]]
    OBVIOUS
  <2> HIDE DEF h
  <2>4. \A k \in 1 .. n + 1 : h[k] = step[k][h[k - 1]]
    <3> TAKE k \in 1 .. n + 1
    <3>1. CASE k = n + 1
      <4>1. (n + 1) - 1 = n /\ h[n] = g[n]
        BY <2>2
      <4> QED
        BY <3>1, <4>1, <2>3
    <3>2. CASE k \in 1 .. n
      <4>1. k \in 0 .. n /\ k - 1 \in 0 .. n
        BY <3>2
      <4> QED
        BY <3>2, <4>1, <2>1, <2>2 DEF Follows
    <3> QED
      BY <3>1, <3>2
  <2>5. h[0] = base
    BY <2>1, <2>2 DEF Follows
  <2>6. Follows(h, n + 1, base, step)
    BY <2>3, <2>4, <2>5, Zenon DEF Follows
  <2>7. n + 1 \in Nat
    OBVIOUS
  <2> QED
    BY <2>6, <2>7
<1> HIDE DEF S
<1>3. N \in S
  BY <1>1, <1>2, Induction
<1> QED
  BY <1>3 DEF S

\* What every step keeps holds all along.
LEMMA AllAlong ==
    ASSUME NEW N \in Nat, NEW f, NEW X,
           f[0] \in X[0],
           \A n \in 1 .. N : f[n - 1] \in X[n - 1] => f[n] \in X[n]
    PROVE  \A n \in 0 .. N : f[n] \in X[n]
<1> DEFINE S == {n \in Nat : n <= N => f[n] \in X[n]}
<1>1. 0 \in S
  OBVIOUS
<1>2. ASSUME NEW n \in Nat, n \in S
      PROVE  n + 1 \in S
  <2>1. CASE n + 1 <= N
    <3>1. n + 1 \in 1 .. N /\ (n + 1) - 1 = n /\ f[n] \in X[n]
      BY <2>1, <1>2
    <3>2. f[n + 1] \in X[n + 1]
      BY <3>1
    <3> QED
      BY <3>2
  <2>2. CASE ~(n + 1 <= N)
    BY <2>2
  <2> QED
    BY <2>1, <2>2
<1> HIDE DEF S
<1>3. \A n \in Nat : n \in S
  BY <1>1, <1>2, Induction
<1> QED
  BY <1>3 DEF S

\* What a sequence is.
LEMMA Elements ==
    ASSUME NEW R, NEW s \in Seq(R)
    PROVE  /\ Len(s) \in Nat /\ DOMAIN s = 1 .. Len(s)
           /\ \A n \in 1 .. Len(s) : s[n] \in R
OBVIOUS

\* What makes one.
LEMMA FunctionIsSequence ==
    ASSUME NEW R, NEW n \in Nat, NEW f \in [1 .. n -> R]
    PROVE  f \in Seq(R)
OBVIOUS

\* The function that takes one step after the other is there, and what every
\* step keeps holds along it.
LEMMA Fold ==
    ASSUME NEW N \in Nat, NEW base, NEW step, NEW X,
           base \in X[0],
           \A n \in 1 .. N : \A x \in X[n - 1] : step[n][x] \in X[n]
    PROVE  \E f : Follows(f, N, base, step) /\ \A n \in 0 .. N : f[n] \in X[n]
<1>1. PICK f : Follows(f, N, base, step)
  BY Recursion
<1>2. \A n \in 1 .. N : f[n - 1] \in X[n - 1] => f[n] \in X[n]
  BY <1>1 DEF Follows
<1>3. f[0] \in X[0]
  BY <1>1 DEF Follows
<1> QED
  BY <1>1, <1>2, <1>3, AllAlong

\* The inspections selected by the flags of a section are of the kind that
\* every flag keeps, if those before are.
LEMMA FlagsKeep ==
    ASSUME NEW Kind, NEW selected \in Kind,
           NEW flags, Len(flags) \in Nat,
           \A s \in Kind : \A n \in 1 .. Len(flags) :
              process_inspection_flag(s, flags[n].name, flags[n].exclude) \in Kind
    PROVE  handle_inspections(selected, flags) \in Kind
<1> DEFINE N == Len(flags)
           flag(s, n) == process_inspection_flag(s, flags[n].name, flags[n].exclude)
           step == [n \in 1 .. N |-> [s \in Kind |-> flag(s, n)]]
           X == [n \in 0 .. N |-> Kind]
           After(g) == g = [n \in 0 .. N |-> IF n = 0 THEN selected ELSE flag(g[n - 1], n)]
           left[n \in 0 .. N] == IF n = 0 THEN selected ELSE flag(left[n - 1], n)
<1>1. N \in Nat /\ \A n \in 1 .. N : \A s \in Kind : flag(s, n) \in Kind
  OBVIOUS
<1>2. handle_inspections(selected, flags) = left[N]
  BY DEF handle_inspections
<1>3. left = CHOOSE g : After(g)
  OBVIOUS
<1>4. \A n \in 1 .. N : \A s \in Kind : step[n][s] = flag(s, n)
  OBVIOUS
<1>5. selected \in X[0] /\ \A n \in 0 .. N : X[n] = Kind
  OBVIOUS
<1> HIDE DEF N, flag, step, X, left
<1>6. PICK f : Follows(f, N, selected, step) /\ \A n \in 0 .. N : f[n] \in X[n]
  <2>1. ASSUME NEW n \in 1 .. N, NEW s \in X[n - 1]
        PROVE  step[n][s] \in X[n]
    BY <1>1, <1>4, <1>5
  <2> QED
    BY <1>1, <1>5, <2>1, Fold
<1>7. After(f)
  <2>1. ASSUME NEW n \in 0 .. N, n # 0
        PROVE  f[n] = flag(f[n - 1], n)
    <3>1. n \in 1 .. N /\ n - 1 \in 0 .. N
      BY <2>1, <1>1
    <3> QED
      BY <3>1, <1>4, <1>5, <1>6 DEF Follows
  <2> QED
    BY <1>6, <2>1 DEF Follows
<1>8. After(left)
  <2> HIDE DEF After
  <2> QED
    BY <1>3, <1>7
<1>9. left[N] \in X[N]
  <2>1. left[0] \in X[0]
    BY <1>1, <1>5, <1>8
  <2>2. ASSUME NEW n \in 1 .. N, left[n - 1] \in X[n - 1]
        PROVE  left[n] \in X[n]
    <3>1. left[n] = flag(left[n - 1], n)
      BY <1>1, <1>8
    <3> QED
      BY <2>2, <3>1, <1>1, <1>5
  <2>3. \A n \in 0 .. N : left[n] \in X[n]
    BY <1>1, <2>1, <2>2, AllAlong
  <2> QED
    BY <2>3, <1>1
<1> QED
  BY <1>1, <1>2, <1>5, <1>9

\* The rules of a section leave a table a table.
Rule == [key : Nat, value : SUBSET Nat]
Product == [key : Nat, values : Seq(SUBSET Nat)]

LEMMA RuleKeepsTable ==
    ASSUME NEW table \in Seq(Product), NEW rule \in Rule
    PROVE  process_table(table, rule) \in Seq(Product)
<1>1. CASE \E i \in DOMAIN table : table[i].key = rule.key
  <2> DEFINE m == [i \in DOMAIN table |->
                     IF table[i].key = rule.key
                     THEN [table[i] EXCEPT !.values = Append(@, rule.value)]
                     ELSE table[i]]
  <2>1. process_table(table, rule) = m
    BY <1>1 DEF process_table
  <2>2. Len(table) \in Nat /\ DOMAIN table = 1 .. Len(table)
    OBVIOUS
  <2>3. ASSUME NEW i \in DOMAIN table
        PROVE  m[i] \in Product
    <3>1. table[i] \in Product
      OBVIOUS
    <3>2. table[i].values \in Seq(SUBSET Nat) /\ rule.value \in SUBSET Nat
      BY <3>1 DEF Product, Rule
    <3>3. Append(table[i].values, rule.value) \in Seq(SUBSET Nat)
      BY <3>2
    <3>4. [table[i] EXCEPT !.values = Append(@, rule.value)] \in Product
      BY <3>1, <3>3 DEF Product
    <3> QED
      BY <3>1, <3>4
  <2>4. m \in [1 .. Len(table) -> Product]
    <3>1. m = [i \in 1 .. Len(table) |-> m[i]]
      BY <2>2
    <3> HIDE DEF m
    <3> QED
      BY <2>2, <2>3, <3>1
  <2> HIDE DEF m
  <2> QED
    BY <2>1, <2>2, <2>4, FunctionIsSequence
<1>2. CASE ~\E i \in DOMAIN table : table[i].key = rule.key
  <2> DEFINE e == [key |-> rule.key, values |-> <<rule.value>>]
  <2>1. process_table(table, rule) = Append(table, e)
    BY <1>2 DEF process_table
  <2>2. e \in Product
    <3>1. rule.value \in SUBSET Nat /\ rule.key \in Nat
      BY DEF Rule
    <3>2. <<rule.value>> \in Seq(SUBSET Nat)
      BY <3>1
    <3> QED
      BY <3>1, <3>2 DEF Product
  <2> HIDE DEF e
  <2> QED
    BY <2>1, <2>2
<1> QED
  BY <1>1, <1>2

\* Nor do all the rules of a section make it anything else.
LEMMA RulesKeepTable ==
    ASSUME NEW table \in Seq(Product), NEW rules \in Seq(Rule)
    PROVE  process_products(table, rules) \in Seq(Product)
<1> DEFINE N == Len(rules)
           T == Seq(Product)
           rule(t, n) == process_table(t, rules[n])
           step == [n \in 1 .. N |-> [t \in T |-> rule(t, n)]]
           X == [n \in 0 .. N |-> T]
           After(g) == g = [n \in 0 .. N |-> IF n = 0 THEN table ELSE rule(g[n - 1], n)]
           grown[n \in 0 .. N] == IF n = 0 THEN table ELSE rule(grown[n - 1], n)
<1>1. N \in Nat /\ \A n \in 1 .. N : \A t \in T : rule(t, n) \in T
  <2>1. N \in Nat /\ \A n \in 1 .. N : rules[n] \in Rule
    BY Elements
  <2>2. \A n \in 1 .. N : \A t \in T : rule(t, n) \in T
    BY <2>1, RuleKeepsTable
  <2> HIDE DEF N, T, rule
  <2> QED
    BY <2>1, <2>2
<1>2. process_products(table, rules) = grown[N]
  BY DEF process_products
<1>3. grown = CHOOSE g : After(g)
  OBVIOUS
<1>4. \A n \in 1 .. N : \A t \in T : step[n][t] = rule(t, n)
  OBVIOUS
<1>5. table \in X[0] /\ \A n \in 0 .. N : X[n] = T
  BY <1>1
<1> HIDE DEF N, T, rule, step, X, grown
<1>6. PICK f : Follows(f, N, table, step) /\ \A n \in 0 .. N : f[n] \in X[n]
  <2>1. ASSUME NEW n \in 1 .. N, NEW t \in X[n - 1]
        PROVE  step[n][t] \in X[n]
    BY <1>1, <1>4, <1>5
  <2> QED
    BY <1>1, <1>5, <2>1, Fold
<1>7. After(f)
  <2>1. ASSUME NEW n \in 0 .. N, n # 0
        PROVE  f[n] = rule(f[n - 1], n)
    <3>1. n \in 1 .. N /\ n - 1 \in 0 .. N
      BY <2>1, <1>1
    <3> QED
      BY <3>1, <1>4, <1>5, <1>6 DEF Follows
  <2> QED
    BY <1>6, <2>1 DEF Follows
<1>8. After(grown)
  <2> HIDE DEF After
  <2> QED
    BY <1>3, <1>7
<1>9. grown[N] \in X[N]
  <2>1. grown[0] \in X[0]
    BY <1>1, <1>5, <1>8
  <2>2. ASSUME NEW n \in 1 .. N, grown[n - 1] \in X[n - 1]
        PROVE  grown[n] \in X[n]
    <3>1. grown[n] = rule(grown[n - 1], n)
      BY <1>1, <1>8
    <3> QED
      BY <2>2, <3>1, <1>1, <1>5
  <2>3. \A n \in 0 .. N : grown[n] \in X[n]
    BY <1>1, <2>1, <2>2, AllAlong
  <2> QED
    BY <2>3, <1>1
<1>10. grown[N] \in T
  BY <1>1, <1>5, <1>9
<1> QED
  BY <1>2, <1>10 DEF T

-----------------------------------------------------------------------------
\* What the reading of a file leaves, after n of the files.
SecurityNames == {m \in Names : security_checks(m)}
Settings == [tests : SUBSET STRING, product_release : Nat, products : Seq(Product)]

WithoutAll(file) == \A n \in DOMAIN file.inspections : file.inspections[n].name # "ALL"
Taken(fs, n) == {i \in 1 .. n : ~fs[i].malformed}
Giving(fs, n) == {i \in Taken(fs, n) : fs[i].product_release # Unset}

Secured(s, fs, n) ==
    (\A i \in Taken(fs, n) : WithoutAll(fs[i])) => SecurityNames \subseteq s.tests

LastGiven(s, fs, n) ==
    \/ Giving(fs, n) = {} /\ s.product_release = Unset
    \/ \E i \in Giving(fs, n) : /\ \A j \in Giving(fs, n) : j <= i
                               /\ s.product_release = fs[i].product_release

Good(fs, n) == {s \in Settings : Secured(s, fs, n) /\ LastGiven(s, fs, n)}

\* The inspections have names.
LEMMA NamesAreStrings == Names \subseteq STRING
<1> DEFINE Kind == [name : STRING, security_checks : BOOLEAN, single_build : BOOLEAN]
<1>1. \A i \in DOMAIN Inspections : Inspections[i] \in Kind
  <2>1. Inspections \in Seq(Kind)
    BY ConfigAssumption
  <2> HIDE DEF Kind
  <2> QED
    BY <2>1, Elements
<1> QED
  BY <1>1 DEF Names

\* A flag cannot take a security inspection away.
LEMMA FlagKeepsSecurity ==
    ASSUME NEW s \in SUBSET STRING, NEW name \in STRING, NEW exclude \in BOOLEAN
    PROVE  /\ process_inspection_flag(s, name, exclude) \in SUBSET STRING
           /\ name # "ALL" /\ SecurityNames \subseteq s =>
                 SecurityNames \subseteq process_inspection_flag(s, name, exclude)
BY NamesAreStrings DEF process_inspection_flag, SecurityNames

\* Nor can all the flags of a section.
LEMMA SectionKeepsSecurity ==
    ASSUME NEW s \in SUBSET STRING,
           NEW flags \in Seq([name : STRING, exclude : BOOLEAN])
    PROVE  /\ handle_inspections(s, flags) \in SUBSET STRING
           /\ SecurityNames \subseteq s
              /\ (\A n \in DOMAIN flags : flags[n].name # "ALL") =>
                 SecurityNames \subseteq handle_inspections(s, flags)
<1>1. Len(flags) \in Nat /\ DOMAIN flags = 1 .. Len(flags)
  OBVIOUS
<1>2. \A n \in 1 .. Len(flags) : flags[n].name \in STRING /\ flags[n].exclude \in BOOLEAN
  <2>1. \A n \in 1 .. Len(flags) : flags[n] \in [name : STRING, exclude : BOOLEAN]
    BY Elements
  <2> QED
    BY <2>1
<1>3. handle_inspections(s, flags) \in SUBSET STRING
  BY <1>1, <1>2, FlagKeepsSecurity, FlagsKeep
<1>4. ASSUME SecurityNames \subseteq s, \A n \in DOMAIN flags : flags[n].name # "ALL"
      PROVE  SecurityNames \subseteq handle_inspections(s, flags)
  <2> DEFINE Kind == {t \in SUBSET STRING : SecurityNames \subseteq t}
  <2>1. s \in Kind
    BY <1>4
  <2>2. \A t \in Kind : \A n \in 1 .. Len(flags) :
            process_inspection_flag(t, flags[n].name, flags[n].exclude) \in Kind
    BY <1>1, <1>2, <1>4, FlagKeepsSecurity
  <2>3. handle_inspections(s, flags) \in Kind
    <3> HIDE DEF Kind
    <3> QED
      BY <1>1, <2>1, <2>2, FlagsKeep
  <2> QED
    BY <2>3
<1> QED
  BY <1>3, <1>4

\* One file more.
LEMMA FileKeepsGood ==
    ASSUME NEW fs, NEW n \in Nat, n # 0, fs[n] \in ConfigFile, NEW s \in Good(fs, n - 1)
    PROVE  read_cfgfile(s, fs[n]) \in Good(fs, n)
<1> DEFINE file == fs[n]
           t == read_cfgfile(s, file)
<1>0. s \in Settings /\ Secured(s, fs, n - 1) /\ LastGiven(s, fs, n - 1)
  BY DEF Good
<1>1. CASE file.malformed
  <2>1. Taken(fs, n) = Taken(fs, n - 1) /\ t = s
    BY <1>1 DEF Taken, read_cfgfile
  <2>2. Giving(fs, n) = Giving(fs, n - 1)
    BY <2>1 DEF Giving
  <2> QED
    BY <1>0, <2>1, <2>2 DEF Good, Secured, LastGiven
<1>2. CASE ~file.malformed
  <2>1. Taken(fs, n) = Taken(fs, n - 1) \cup {n}
    BY <1>2 DEF Taken
  <2>2. /\ file.inspections \in Seq([name : STRING, exclude : BOOLEAN])
        /\ file.products \in Seq(Rule) /\ file.product_release \in Nat
    BY DEF ConfigFile, Rule
  <2>3. /\ s.tests \in SUBSET STRING /\ s.product_release \in Nat
        /\ s.products \in Seq(Product)
    BY <1>0 DEF Settings
  <2>4. /\ t.tests = handle_inspections(s.tests, file.inspections)
        /\ t.product_release = IF file.product_release = Unset THEN s.product_release
                               ELSE file.product_release
        /\ t.products = process_products(s.products, file.products)
        /\ t = [tests |-> t.tests, product_release |-> t.product_release,
                products |-> t.products]
    BY <1>2 DEF read_cfgfile
  <2> HIDE DEF t, file
  <2>5. t \in Settings
    <3>1. t.tests \in SUBSET STRING
      BY <2>2, <2>3, <2>4, SectionKeepsSecurity
    <3>2. t.products \in Seq(Product)
      BY <2>2, <2>3, <2>4, RulesKeepTable
    <3>3. t.product_release \in Nat
      BY <2>2, <2>3, <2>4
    <3> QED
      BY <2>4, <3>1, <3>2, <3>3 DEF Settings
  <2>6. Secured(t, fs, n)
    <3> SUFFICES ASSUME \A i \in Taken(fs, n) : WithoutAll(fs[i])
                 PROVE  SecurityNames \subseteq t.tests
      BY DEF Secured
    <3>1. SecurityNames \subseteq s.tests
      BY <1>0, <2>1 DEF Secured
    <3>2. \A k \in DOMAIN file.inspections : file.inspections[k].name # "ALL"
      BY <2>1 DEF WithoutAll, file
    <3> QED
      BY <2>2, <2>3, <2>4, <3>1, <3>2, SectionKeepsSecurity
  <2>7. LastGiven(t, fs, n)
    <3>1. CASE file.product_release = Unset
      <4>1. Giving(fs, n) = Giving(fs, n - 1)
        BY <2>1, <3>1 DEF Giving, file
      <4>2. t.product_release = s.product_release
        BY <2>4, <3>1
      <4> QED
        BY <1>0, <4>1, <4>2 DEF LastGiven
    <3>2. CASE file.product_release # Unset
      <4>1. n \in Giving(fs, n)
        BY <2>1, <3>2 DEF Giving, file
      <4>2. \A j \in Giving(fs, n) : j <= n
        BY DEF Giving, Taken
      <4>3. t.product_release = fs[n].product_release
        BY <2>4, <3>2 DEF file
      <4> QED
        BY <4>1, <4>2, <4>3 DEF LastGiven
    <3> QED
      BY <3>1, <3>2
  <2>8. t \in Good(fs, n)
    BY <2>5, <2>6, <2>7 DEF Good
  <2> QED
    BY <2>8 DEF t, file
<1> QED
  BY <1>1, <1>2

\* All of them, one over the other.
LEMMA FilesAreGood ==
    ASSUME NEW cfg, files_read(cfg) \in Seq(ConfigFile)
    PROVE  init_rpminspect(cfg) \in Good(files_read(cfg), Len(files_read(cfg)))
<1> DEFINE fs == files_read(cfg)
           N == Len(fs)
           file(s, n) == read_cfgfile(s, fs[n])
           X == [n \in 0 .. N |-> Good(fs, n)]
           step == [n \in 1 .. N |-> [s \in Settings |-> file(s, n)]]
           base == xalloc_rpminspect
           After(g) == g = [n \in 0 .. N |-> IF n = 0 THEN base ELSE file(g[n - 1], n)]
           settings[n \in 0 .. N] == IF n = 0 THEN base ELSE file(settings[n - 1], n)
<1>1. /\ N \in Nat
      /\ \A n \in 1 .. N : \A s \in Good(fs, n - 1) : file(s, n) \in Good(fs, n)
  <2>1. N \in Nat /\ \A n \in 1 .. N : fs[n] \in ConfigFile
    BY Elements
  <2>2. \A n \in 1 .. N : n \in Nat /\ n # 0
    BY <2>1
  <2> HIDE DEF N
  <2> QED
    BY <2>1, <2>2, FileKeepsGood
<1>2. init_rpminspect(cfg) = settings[N]
  BY DEF init_rpminspect
<1>3. settings = CHOOSE g : After(g)
  OBVIOUS
<1>4. \A n \in 1 .. N : \A s \in Settings : step[n][s] = file(s, n)
  OBVIOUS
<1>5. base \in X[0] /\ \A n \in 0 .. N : X[n] = Good(fs, n)
  <2>1. base \in Settings
    <3>1. <<>> \in Seq(Product)
      OBVIOUS
    <3> QED
      BY <3>1, NamesAreStrings DEF xalloc_rpminspect, Settings, Unset
  <2>2. Secured(base, fs, 0)
    BY DEF Secured, SecurityNames, xalloc_rpminspect
  <2>3. LastGiven(base, fs, 0)
    BY DEF LastGiven, Giving, Taken, xalloc_rpminspect
  <2>4. base \in Good(fs, 0)
    BY <2>1, <2>2, <2>3 DEF Good
  <2> HIDE DEF base
  <2> QED
    BY <1>1, <2>4
<1>6. \A n \in 0 .. N : Good(fs, n) \subseteq Settings
  BY DEF Good
<1> HIDE DEF N, fs, file, step, X, base, settings
<1>7. PICK f : Follows(f, N, base, step) /\ \A n \in 0 .. N : f[n] \in X[n]
  <2>1. ASSUME NEW n \in 1 .. N, NEW s \in X[n - 1]
        PROVE  step[n][s] \in X[n]
    <3>1. n - 1 \in 0 .. N /\ n \in 0 .. N
      BY <1>1
    <3> QED
      BY <3>1, <1>1, <1>4, <1>5, <1>6
  <2> QED
    BY <1>1, <1>5, <2>1, Fold
<1>8. After(f)
  <2>1. ASSUME NEW n \in 0 .. N, n # 0
        PROVE  f[n] = file(f[n - 1], n)
    <3>1. n \in 1 .. N /\ n - 1 \in 0 .. N
      BY <2>1, <1>1
    <3>2. f[n - 1] \in Settings
      BY <3>1, <1>5, <1>6, <1>7
    <3> QED
      BY <3>1, <3>2, <1>4, <1>7 DEF Follows
  <2> QED
    BY <1>7, <2>1 DEF Follows
<1>9. After(settings)
  <2> HIDE DEF After
  <2> QED
    BY <1>3, <1>8
<1>10. settings[N] \in X[N]
  <2>1. settings[0] \in X[0]
    BY <1>1, <1>5, <1>9
  <2>2. ASSUME NEW n \in 1 .. N, settings[n - 1] \in X[n - 1]
        PROVE  settings[n] \in X[n]
    <3>1. settings[n] = file(settings[n - 1], n)
      BY <1>1, <1>9
    <3>2. n - 1 \in 0 .. N /\ n \in 0 .. N
      BY <1>1
    <3> QED
      BY <2>2, <3>1, <3>2, <1>1, <1>5
  <2>3. \A n \in 0 .. N : settings[n] \in X[n]
    BY <1>1, <2>1, <2>2, AllAlong
  <2> QED
    BY <2>3, <1>1
<1>11. settings[N] \in Good(fs, N)
  BY <1>1, <1>5, <1>10
<1> QED
  BY <1>2, <1>11 DEF N, fs

\* If the reading of the files does not end the program they were all found.
LEMMA FilesAreThere ==
    ASSUME NEW cfg, IsConfiguration(cfg), configuration_status(cfg) = RI_SUCCESS
    PROVE  files_read(cfg) \in Seq(ConfigFile)
<1> DEFINE main == main_file(cfg)
<1>1. main # Missing /\ cfg.profile # <<Missing>>
  BY DEF configuration_status, RI_SUCCESS, RI_PROGRAM_ERROR, RI_MISSING_PROFILE
<1>2. main \in ConfigFile
  <2>1. main \in Found
    <3>1. cfg.option # <<>> => cfg.option[1] \in Found
      <4>1. cfg.option \in Seq(Found)
        BY DEF IsConfiguration
      <4>2. cfg.option # <<>> => 1 \in 1 .. Len(cfg.option)
        BY <4>1
      <4> QED
        BY <4>1, <4>2, Elements
    <3> QED
      BY <3>1 DEF main_file, IsConfiguration
  <2> QED
    BY <2>1, <1>1 DEF Found
<1>3. release_profile(cfg) \in Seq(ConfigFile)
  <2> DEFINE release == read_cfgfile(xalloc_rpminspect, main).product_release
  <2>1. CASE release = Unset \/ cfg.releases[release] = Missing
    <3>1. release_profile(cfg) = <<>>
      BY <2>1 DEF release_profile
    <3> QED
      BY <3>1
  <2>2. CASE release # Unset /\ cfg.releases[release] # Missing
    <3>1. release = main.product_release
      BY <2>2 DEF read_cfgfile, xalloc_rpminspect
    <3>2. release \in DOMAIN cfg.releases
      BY <3>1, <2>2, <1>1 DEF IsConfiguration
    <3>3. cfg.releases[release] \in ConfigFile
      BY <3>2, <2>2 DEF IsConfiguration, Found
    <3>4. release_profile(cfg) = <<cfg.releases[release]>>
      BY <2>2 DEF release_profile
    <3> HIDE DEF release
    <3> QED
      BY <3>3, <3>4
  <2> QED
    BY <2>1, <2>2
<1>4. cfg.profile \in Seq(ConfigFile)
  <2>1. cfg.profile \in Seq(Found) /\ Len(cfg.profile) \in {0, 1}
    BY DEF IsConfiguration
  <2>2. cfg.profile = <<>> \/ (Len(cfg.profile) = 1 /\ cfg.profile[1] \in Found)
    <3>1. Len(cfg.profile) \in Nat /\ (Len(cfg.profile) = 1 => cfg.profile[1] \in Found)
      BY <2>1, Elements
    <3>2. Len(cfg.profile) = 0 => cfg.profile = <<>>
      BY <2>1
    <3>3. Len(cfg.profile) = 0 \/ Len(cfg.profile) = 1
      BY <2>1, <3>1
    <3> QED
      BY <3>1, <3>2, <3>3, Zenon
  <2>3. ASSUME Len(cfg.profile) = 1
        PROVE  cfg.profile = <<cfg.profile[1]>>
    BY <2>1, <2>3
  <2>4. CASE Len(cfg.profile) = 1 /\ cfg.profile[1] \in Found
    <3>1. cfg.profile[1] \in ConfigFile
      BY <2>3, <2>4, <1>1 DEF Found
    <3> QED
      BY <3>1, <2>3, <2>4
  <2>5. CASE cfg.profile = <<>>
    <3>1. <<>> \in Seq(ConfigFile)
      OBVIOUS
    <3> QED
      BY <2>5, <3>1
  <2> QED
    BY <2>2, <2>4, <2>5
<1>5. (IF cfg.local = Missing \/ cfg.local.empty THEN <<>> ELSE <<cfg.local>>)
          \in Seq(ConfigFile)
  <2>1. CASE cfg.local = Missing \/ cfg.local.empty
    BY <2>1
  <2>2. CASE ~(cfg.local = Missing \/ cfg.local.empty)
    <3>1. cfg.local \in ConfigFile
      BY <2>2 DEF IsConfiguration, Found
    <3> QED
      BY <2>2, <3>1
  <2> QED
    BY <2>1, <2>2
<1>6. <<main>> \in Seq(ConfigFile)
  BY <1>2
<1> DEFINE local == IF cfg.local = Missing \/ cfg.local.empty THEN <<>> ELSE <<cfg.local>>
<1>7. files_read(cfg) = <<main>> \o release_profile(cfg) \o cfg.profile \o local
  BY DEF files_read
<1> HIDE DEF main, local
<1>8. local \in Seq(ConfigFile)
  BY <1>5 DEF local
<1> QED
  BY <1>3, <1>4, <1>6, <1>7, <1>8

\* What main() has once its configuration is read.
LEMMA SettingsAreGood ==
    ASSUME args \in Invocations, read_configuration, pc' = "options"
    PROVE  \E s \in Good(read, Len(read)) :
              /\ DOMAIN read = 1 .. Len(read)
              /\ tests' = s.tests /\ products' = s.products
              /\ product' = IF args.release = Unset THEN s.product_release ELSE args.release
<1>1. configuration_status(args.cfg) = RI_SUCCESS
  BY DEF read_configuration
<1>2. IsConfiguration(args.cfg)
  BY RpminspectAssumption
<1>3. read \in Seq(ConfigFile)
  BY <1>1, <1>2, FilesAreThere DEF read
<1>4. init_rpminspect(args.cfg) \in Good(read, Len(read))
  BY <1>3, FilesAreGood DEF read
<1>5. DOMAIN read = 1 .. Len(read)
  BY <1>3
<1>6. /\ tests' = init_rpminspect(args.cfg).tests
      /\ products' = init_rpminspect(args.cfg).products
      /\ product' = IF args.release = Unset THEN init_rpminspect(args.cfg).product_release
                    ELSE args.release
  BY <1>1 DEF read_configuration
<1> QED
  BY <1>4, <1>5, <1>6
-----------------------------------------------------------------------------
\* No "ALL" and no -T: the inspections with security checks stay selected, and
\* those that the loop is past have run.
Untouched ==
    /\ args.option # "T"
    /\ \A i \in DOMAIN args.list : args.list[i] # "ALL"
    /\ \A i \in taken : WithoutAll(read[i])

StaySelected == pc \notin {"start"} \cup Ended => SecurityNames \subseteq tests

Required(i) ==
    Inspections[i].security_checks /\ (args.n = 2 \/ Inspections[i].single_build)

HaveRun ==
    \A i \in 1 .. Len(Inspections) :
        i < idx /\ Required(i) => Inspections[i].name \in ran

SelectInv == Untouched => StaySelected /\ HaveRun

\* No inspection was passed over at first.
LEMMA SelectInit == Init => SelectInv
BY InspectionsAssumed DEF Init, SelectInv, StaySelected, HaveRun

\* The configuration files leave the security inspections selected.
LEMMA ReadingSelects ==
    ASSUME IInv, SelectInv, read_configuration
    PROVE  SelectInv'
<1>1. UNCHANGED <<args, idx, ran>> /\ pc' \in {"options", "exited"}
  BY DEF read_configuration, reportVars
<1>2. (Untouched' <=> Untouched) /\ HaveRun' = HaveRun
  BY <1>1 DEF Untouched, taken, read, HaveRun, Required
<1>3. ASSUME Untouched, pc' = "options"
      PROVE  SecurityNames \subseteq tests'
  <2>1. PICK s \in Good(read, Len(read)) :
           DOMAIN read = 1 .. Len(read) /\ tests' = s.tests
    BY <1>3, SettingsAreGood DEF IInv, TypeOK
  <2>2. taken = Taken(read, Len(read))
    BY <2>1 DEF taken, Taken
  <2> QED
    BY <1>3, <2>1, <2>2 DEF Good, Secured, Untouched
<1> QED
  BY <1>1, <1>2, <1>3 DEF SelectInv, StaySelected, Ended

\* So does -E.
LEMMA OptionSelects ==
    ASSUME IInv, SelectInv, select_inspections
    PROVE  SelectInv'
<1>1. /\ UNCHANGED <<args, idx, ran>> /\ pc = "options"
      /\ \/ pc' = "exited"
         \/ pc' = "gather"
            /\ tests' = IF args.option = "none" THEN tests ELSE selected_by_option
  BY DEF select_inspections, reportVars
<1>2. (Untouched' <=> Untouched) /\ HaveRun' = HaveRun
  BY <1>1 DEF Untouched, taken, read, HaveRun, Required
<1>3. ASSUME Untouched, pc' = "gather", args.option # "none"
      PROVE  SecurityNames \subseteq tests'
  <2> DEFINE flags == [i \in DOMAIN args.list |-> [name |-> args.list[i], exclude |-> TRUE]]
  <2>1. args.option = "E" /\ args.list \in Seq(STRING)
    BY <1>3, RpminspectAssumption DEF IInv, TypeOK, Untouched
  <2>2. tests' = handle_inspections(Names, flags)
    BY <1>1, <1>3, <2>1 DEF selected_by_option
  <2>3. /\ Len(args.list) \in Nat /\ DOMAIN args.list = 1 .. Len(args.list)
        /\ \A i \in 1 .. Len(args.list) : args.list[i] \in STRING
    BY <2>1, Elements
  <2>4. /\ flags \in Seq([name : STRING, exclude : BOOLEAN])
        /\ \A i \in DOMAIN flags : flags[i].name # "ALL"
    <3>1. flags \in [1 .. Len(args.list) -> [name : STRING, exclude : BOOLEAN]]
      BY <2>3
    <3>2. flags \in Seq([name : STRING, exclude : BOOLEAN])
      <4> HIDE DEF flags
      <4> QED
        BY <2>3, <3>1, FunctionIsSequence
    <3>3. \A i \in DOMAIN flags : flags[i].name # "ALL"
      BY <1>3 DEF Untouched
    <3> QED
      BY <3>2, <3>3
  <2> HIDE DEF flags
  <2>5. Names \in SUBSET STRING /\ SecurityNames \subseteq Names
    BY NamesAreStrings DEF SecurityNames
  <2> QED
    BY <2>2, <2>4, <2>5, SectionKeepsSecurity
<1> QED
  BY <1>1, <1>2, <1>3 DEF SelectInv, StaySelected, Ended

\* The loop runs what is selected and can be run.
LEMMA LoopRuns ==
    ASSUME IInv, SelectInv, skip_inspection \/ needs_before_build \/ run_inspection
    PROVE  SelectInv'
<1>1. /\ UNCHANGED <<args, pc, tests>> /\ pc = "inspect"
      /\ idx <= Len(Inspections) /\ idx' = idx + 1 /\ ran \subseteq ran'
  BY DEF skip_inspection, needs_before_build, run_inspection, gatherVars, reportVars
<1>2. Untouched' <=> Untouched
  BY <1>1 DEF Untouched, taken, read
<1>3. ASSUME Untouched
      PROVE  StaySelected' /\ HaveRun'
  <2>1. StaySelected /\ HaveRun
    BY <1>3 DEF SelectInv
  <2>2. StaySelected'
    BY <1>1, <2>1 DEF StaySelected
  <2>3. idx \in 1 .. Len(Inspections) /\ idx \in DOMAIN Inspections
    BY <1>1, InspectionsAssumed, ConfigAssumption DEF IInv, TypeOK
  <2>4. Required(idx) => Inspections[idx].name \in ran'
    <3> SUFFICES ASSUME Required(idx)
                 PROVE  Inspections[idx].name \in ran'
      OBVIOUS
    <3>1. Inspections[idx].name \in tests
      BY <1>1, <2>1, <2>3 DEF Required, StaySelected, SecurityNames, Names, security_checks,
                              Ended
    <3>2. args.n = 2 \/ Inspections[idx].single_build
      BY DEF Required
    <3>3. CASE skip_inspection
      BY <3>1, <3>3 DEF skip_inspection, inspection
    <3>4. CASE needs_before_build
      BY <3>2, <3>4 DEF needs_before_build, inspection
    <3>5. CASE run_inspection
      BY <3>5 DEF run_inspection, inspection
    <3> QED
      BY <3>3, <3>4, <3>5
  <2>5. \A i \in 1 .. Len(Inspections) : i < idx' => i < idx \/ i = idx
    BY <1>1, <2>3
  <2>6. HaveRun'
    <3> SUFFICES ASSUME NEW i \in 1 .. Len(Inspections), i < idx', Required(i)
                 PROVE  Inspections[i].name \in ran'
      BY <1>1 DEF HaveRun, Required
    <3>1. CASE i < idx
      BY <3>1, <1>1, <2>1 DEF HaveRun
    <3>2. CASE i = idx
      BY <3>2, <2>4
    <3> QED
      BY <3>1, <3>2, <2>5
  <2> QED
    BY <2>2, <2>6
<1> QED
  BY <1>2, <1>3 DEF SelectInv

\* Every step of the program keeps them selected and run.
LEMMA SelectNext == IInv /\ SelectInv /\ [Next]_vars => SelectInv'
<1> SUFFICES ASSUME IInv, SelectInv, [Next]_vars
             PROVE  SelectInv'
  OBVIOUS
<1>1. CASE /\ UNCHANGED <<args, idx, ran, tests>>
           /\ pc' \in Ended \/ pc \notin {"start"} \cup Ended \/ pc' = pc
  BY <1>1 DEF SelectInv, Untouched, taken, read, StaySelected, HaveRun, Required
<1>2. CASE gather
  BY <1>1, <1>2, GatherLeads DEF gather, reportVars, Gathers, Ended
<1>3. CASE diagnostics \/ no_peers \/ determine_release \/ output_results \/ finish
  <2>1. UNCHANGED <<args, idx, ran, tests>>
    BY <1>3 DEF diagnostics, no_peers, determine_release, output_results, finish, reportVars
  <2>2. pc \in {"diagnose", "release", "inspect", "finish"}
    BY <1>3 DEF diagnostics, no_peers, determine_release, output_results, finish
  <2> QED
    BY <1>1, <2>1, <2>2 DEF Ended
<1>4. CASE Terminated \/ UNCHANGED vars
  BY <1>1, <1>4 DEF Terminated, vars, gatherVars, reportVars
<1> QED
  BY <1>2, <1>3, <1>4, ReadingSelects, OptionSelects, LoopRuns DEF Next

\* Whatever the configuration files and -E say, short of "ALL", no inspection
\* with security checks is left out of a run that reports (flags.c, main()).
THEOREM SecurityIsInspected == Spec => []SecurityInspectionsRun
<1>1. IInv /\ SelectInv => SecurityInspectionsRun
  <2> SUFFICES ASSUME IInv, SelectInv, Reported, Untouched
               PROVE  \A i \in DOMAIN Inspections :
                        Required(i) => Inspections[i].name \in ran
    BY DEF SecurityInspectionsRun, Untouched, WithoutAll, Required
  <2>1. DOMAIN Inspections = 1 .. Len(Inspections)
    BY ConfigAssumption, Elements
  <2>2. idx \in Nat /\ idx > Len(Inspections) /\ Len(Inspections) \in Nat
    BY InspectionsAssumed DEF Reported, IInv, TypeOK
  <2> QED
    BY <2>1, <2>2 DEF SelectInv, HaveRun
<1> QED
  BY InitHolds, NextKeeps, SelectInit, SelectNext, <1>1, PTL DEF Spec
-----------------------------------------------------------------------------
\* The products that the dist tags of the builds name.
Candidates == {match_product(products, args.rel[b]) : b \in 1 .. args.n} \ {Unmatched}

Favored(S, p) ==
    /\ args.favor = "newest" => \A q \in S : q <= p
    /\ args.favor = "oldest" => \A q \in S : p <= q
    /\ args.favor = "none" => S = {p}

BothSides == {i \in DOMAIN peers : peers[i].before # NoPackage /\ peers[i].after # NoPackage}

WorkedOut == product \in Candidates /\ (BothSides # {} => Favored(Candidates, product))

\* Where the product release comes from.
Chosen ==
    LET given == Giving(read, Len(read)) IN
    IF args.release # Unset THEN product = args.release
    ELSE IF given # {}
    THEN \E i \in given : /\ \A j \in given : j <= i
                         /\ product = read[i].product_release
    ELSE product = Unset \/ (pc \in {"inspect", "finish"} /\ WorkedOut)

ProductInv ==
    /\ pc \notin {"start"} \cup Ended =>
          /\ products \in Seq(Product)
          /\ DOMAIN read = 1 .. Len(read)
          /\ Chosen
    /\ pc = "release" => product = Unset

\* A tag has the product of a rule, is one, or matches none.
LEMMA ProductOfTag ==
    ASSUME products \in Seq(Product), NEW tag \in Nat
    PROVE  match_product(products, tag) \in Nat \cup {Unmatched}
<1> DEFINE matching == {i \in DOMAIN products : /\ Len(products[i].values) = 1
                                               /\ tag \in products[i].values[1]}
           first == CHOOSE i \in matching : \A j \in matching : i <= j
<1>1. /\ matching \subseteq Nat /\ matching \subseteq DOMAIN products
      /\ \A i \in DOMAIN products : products[i] \in Product
  BY Elements
<1>2. match_product(products, tag) = IF products = <<>> THEN tag
                                    ELSE IF matching = {} THEN Unmatched
                                    ELSE products[first].key
  BY DEF match_product
<1> HIDE DEF matching
<1>3. ASSUME matching # {}
      PROVE  products[first].key \in Nat
  <2>1. \E m \in matching : \A j \in matching : m <= j
    BY <1>1, <1>3, NatMin
  <2>2. first \in matching
    BY <2>1
  <2> HIDE DEF first
  <2>3. products[first] \in Product
    BY <1>1, <2>2
  <2> QED
    BY <2>3 DEF Product
<1> HIDE DEF first
<1> QED
  BY <1>2, <1>3

\* Of two products the one that favor_release asks for, and none if it does
\* not say.
LEMMA FavoredIs ==
    ASSUME args \in Invocations, NEW a \in Nat, NEW b \in Nat
    PROVE  /\ favored(b, a) = NULL \/ (favored(b, a) \in {a, b} /\ args.favor # "none")
           /\ args.favor = "newest" => a <= favored(b, a) /\ b <= favored(b, a)
           /\ args.favor = "oldest" => favored(b, a) <= a /\ favored(b, a) <= b
<1>1. args.favor \in {"none", "oldest", "newest"}
  BY RpminspectAssumption
<1>2. CASE args.favor = "newest"
  <2>1. favored(b, a) = IF b >= a THEN b ELSE a
    BY <1>2, Zenon DEF favored
  <2> QED
    BY <1>2, <2>1
<1>3. CASE args.favor = "oldest"
  <2>1. favored(b, a) = IF b <= a THEN b ELSE a
    BY <1>3, Zenon DEF favored
  <2> QED
    BY <1>3, <2>1
<1>4. CASE args.favor = "none"
  <2>1. favored(b, a) = NULL
    BY <1>4, Zenon DEF favored
  <2> QED
    BY <1>4, <2>1
<1> QED
  BY <1>1, <1>2, <1>3, <1>4

\* get_product_release() finds one of the two products, and of two that differ
\* the favored one.
LEMMA ProductOfTags ==
    ASSUME args \in Invocations, products \in Seq(Product),
           NEW before \in Nat \cup {Unmatched}, NEW after \in Nat \cup {Unmatched},
           NEW a, a = match_product(products, after),
           NEW b, b = match_product(products, before),
           NEW p, p = get_product_release(before, after), p # NULL
    PROVE  /\ after \in Nat /\ p # Unmatched
           /\ p = a \/ (before \in Nat /\ p = b)
           /\ before \in Nat => Favored({a, b} \ {Unmatched}, p)
<1> DEFINE product_of == IF before = Unmatched \/ a = b \/ b = Unmatched THEN a
                         ELSE IF a = Unmatched THEN b
                         ELSE favored(b, a)
<1>1. p = IF after \in {Unmatched, NULL} \/ product_of = Unmatched THEN NULL ELSE product_of
  BY DEF get_product_release
<1>2. after \in Nat /\ p = product_of /\ p # Unmatched
  BY <1>1
<1>3. a \in Nat \cup {Unmatched} /\ (before \in Nat => b \in Nat \cup {Unmatched})
  BY <1>2, ProductOfTag
<1>4. Unmatched \notin Nat
  BY DEF Unmatched
<1>5. CASE before = Unmatched
  BY <1>2, <1>4, <1>5
<1>6. CASE before \in Nat /\ (a = b \/ b = Unmatched)
  <2>1. p = a /\ {a, b} \ {Unmatched} = {p} /\ p \in Nat
    BY <1>2, <1>3, <1>6
  <2> QED
    BY <1>2, <2>1 DEF Favored
<1>7. CASE before \in Nat /\ a = Unmatched /\ a # b /\ b # Unmatched
  <2>1. p = b /\ {a, b} \ {Unmatched} = {p} /\ p \in Nat
    BY <1>2, <1>3, <1>4, <1>7
  <2> QED
    BY <1>2, <1>7, <2>1 DEF Favored
<1>8. CASE before \in Nat /\ a # b /\ b # Unmatched /\ a # Unmatched
  <2>1. p = favored(b, a) /\ a \in Nat /\ b \in Nat
    BY <1>2, <1>3, <1>4, <1>8
  <2>2. /\ p \in {a, b} /\ args.favor # "none"
        /\ args.favor = "newest" => a <= p /\ b <= p
        /\ args.favor = "oldest" => p <= a /\ p <= b
    BY <2>1, FavoredIs
  <2>3. \A q \in {a, b} \ {Unmatched} : q = a \/ q = b
    OBVIOUS
  <2> QED
    BY <1>2, <1>8, <2>2, <2>3 DEF Favored
<1> QED
  BY <1>5, <1>6, <1>7, <1>8

\* There is no product release yet.
LEMMA ProductInit == Init => ProductInv
BY DEF Init, ProductInv, Inspected

\* The configuration is read: the product release is of -r or the last file.
LEMMA ReadingChooses ==
    ASSUME IInv, ProductInv, read_configuration
    PROVE  ProductInv'
<1>1. UNCHANGED args /\ pc' \in {"options", "exited"}
  BY DEF read_configuration
<1>2. read' = read
  BY <1>1 DEF read
<1>3. CASE pc' = "options"
  <2>1. PICK s \in Good(read, Len(read)) :
              /\ DOMAIN read = 1 .. Len(read)
              /\ tests' = s.tests /\ products' = s.products
              /\ product' = IF args.release = Unset THEN s.product_release ELSE args.release
    BY <1>3, SettingsAreGood DEF IInv, TypeOK
  <2>2. products' \in Seq(Product)
    BY <2>1 DEF Good, Settings
  <2>3. LastGiven(s, read, Len(read))
    BY <2>1 DEF Good
  <2>4. Chosen'
    <3>1. CASE args.release # Unset
      BY <3>1, <1>1, <2>1 DEF Chosen
    <3>2. CASE args.release = Unset /\ Giving(read, Len(read)) = {}
      BY <3>2, <1>1, <1>2, <2>1, <2>3 DEF Chosen, LastGiven
    <3>3. CASE args.release = Unset /\ Giving(read, Len(read)) # {}
      BY <3>3, <1>1, <1>2, <2>1, <2>3 DEF Chosen, LastGiven
    <3> QED
      BY <3>1, <3>2, <3>3
  <2> QED
    BY <1>2, <1>3, <2>1, <2>2, <2>4 DEF ProductInv, Inspected
<1>4. CASE pc' = "exited"
  BY <1>4 DEF ProductInv, Ended, Inspected
<1> QED
  BY <1>1, <1>3, <1>4

\* Nothing else changes it before the tags are looked at.
LEMMA ProductStays ==
    ASSUME ProductInv, UNCHANGED <<args, product, products>>,
           \/ pc' \in Ended
           \/ /\ pc \notin {"start"} \cup Ended
              /\ pc' = "release" => product = Unset /\ pc = "diagnose"
              /\ pc' \in {"inspect", "finish"} \/ pc \notin {"inspect", "finish"}
              /\ pc = "inspect" \/ Inspected => UNCHANGED peers
    PROVE  ProductInv'
<1>1. read' = read
  BY DEF read
<1>2. CASE pc' \in Ended
  BY <1>2 DEF ProductInv, Inspected, Ended
<1>3. CASE pc' \notin Ended
  <2>1. Chosen'
    <3>1. Chosen
      BY <1>3 DEF ProductInv
    <3>2. ASSUME product # Unset, pc \in {"inspect", "finish"}, WorkedOut
          PROVE  WorkedOut' /\ pc' \in {"inspect", "finish"}
      <4>1. UNCHANGED peers /\ pc' \in {"inspect", "finish"}
        BY <1>3, <3>2 DEF Inspected
      <4> QED
        BY <4>1, <3>2 DEF WorkedOut, Candidates, BothSides, Favored
    <3> QED
      BY <1>1, <3>1, <3>2 DEF Chosen
  <2> QED
    BY <1>1, <1>3, <2>1 DEF ProductInv, Inspected
<1> QED
  BY <1>2, <1>3

\* The dist tag of a side of a peer is that of the build on that side.
LEMMA TagOfSide ==
    ASSUME GatherInv, Inspected, NEW i \in DOMAIN peers
    PROVE  /\ 1 \in 1 .. args.n /\ args.rel[1] \in Nat
           /\ peers[i].after # NoPackage => args.rel[peers[i].after[1]] = args.rel[1]
           /\ peers[i].before # NoPackage =>
                 /\ 2 \in 1 .. args.n /\ args.rel[2] \in Nat
                 /\ args.rel[peers[i].before[1]] = args.rel[2]
<1>1. Position /\ Joined /\ \A q \in here : Reached(q)
  BY DEF GatherInv, Position, Inspected, Ended
<1>2. args.n \in 1 .. 2 /\ \A b \in 1 .. args.n : args.rel[b] \in Nat
  BY <1>1, BuildsAssumed, RpminspectAssumption DEF Position
<1>3. peers[i].after # NoPackage => peers[i].after[1] = 1
  BY <1>1 DEF Joined, PeersAreThere, Has
<1>4. ASSUME peers[i].before # NoPackage
      PROVE  peers[i].before[1] = 2 /\ 2 \in 1 .. args.n
  <2>1. peers[i].before \in here /\ peers[i].before[1] = 2
    BY <1>1, <1>4 DEF Joined, PeersAreThere, Has
  <2>2. 2 <= turn /\ turn \in 1 .. args.n
    BY <1>1, <2>1 DEF Reached, Position
  <2> QED
    BY <2>1, <2>2, <1>2
<1> QED
  BY <1>2, <1>3, <1>4

\* The product release is worked out from the tags of a peer, one with both
\* sides if there is any.
LEMMA DetermineChooses ==
    ASSUME IInv, GatherInv, ProductInv, determine_release
    PROVE  ProductInv'
<1>1. /\ pc = "release" /\ UNCHANGED <<args, products, peers>>
      /\ Inspected /\ peers # <<>>
  BY DEF determine_release, Inspected
<1>2. /\ product = Unset /\ Chosen
      /\ products \in Seq(Product) /\ DOMAIN read = 1 .. Len(read)
  BY <1>1 DEF ProductInv, Ended
<1>3. args.release = Unset /\ Giving(read, Len(read)) = {}
  BY <1>1, <1>2 DEF Chosen, Giving
<1>4. read' = read
  BY <1>1 DEF read
<1>5. CASE pc' = "exited"
  BY <1>5 DEF ProductInv, Inspected, Ended
<1>6. CASE pc' # "exited"
  <2> DEFINE k == IF BothSides = {} THEN Len(peers)
                  ELSE CHOOSE i \in BothSides : \A j \in BothSides : i <= j
             rel(side) == IF peers[k][side] = NoPackage THEN Unmatched
                          ELSE args.rel[peers[k][side][1]]
             before == rel("before")
             after == rel("after")
             a == match_product(products, after)
             b == match_product(products, before)
  <2>1. pc' = "inspect" /\ product' = get_product_release(before, after) /\ product' # NULL
    <3> DEFINE peer == IF BothSides = {} THEN peers[Len(peers)]
                       ELSE peers[CHOOSE i \in BothSides : \A j \in BothSides : i <= j]
               tag(side) == IF peer[side] = NoPackage THEN Unmatched
                            ELSE args.rel[peer[side][1]]
    <3>1. peers[k] = peer
      <4>1. CASE BothSides = {}
        BY <4>1
      <4>2. CASE BothSides # {}
        BY <4>2
      <4> QED
        BY <4>1, <4>2
    <3>2. product' = get_product_release(tag("before"), tag("after"))
      BY DEF determine_release, BothSides
    <3>3. pc' = "inspect" /\ product' # NULL
      BY <1>6 DEF determine_release
    <3> HIDE DEF k, peer
    <3> QED
      BY <3>1, <3>2, <3>3
  <2>2. k \in DOMAIN peers /\ (BothSides # {} => k \in BothSides)
    <3>1. peers \in Seq(Peer)
      BY <1>1 DEF GatherInv, Position, Inspected, Ended, Joined
    <3>2. Len(peers) \in DOMAIN peers /\ DOMAIN peers \subseteq Nat
      BY <3>1, <1>1
    <3>3. BothSides # {} => \E m \in BothSides : \A j \in BothSides : m <= j
      BY <3>2, NatMin DEF BothSides
    <3>4. BothSides \subseteq DOMAIN peers
      BY DEF BothSides
    <3> QED
      BY <3>2, <3>3, <3>4
  <2> HIDE DEF k
  <2>3. /\ 1 \in 1 .. args.n
        /\ after = Unmatched \/ (after = args.rel[1] /\ after \in Nat)
        /\ \/ before = Unmatched
           \/ 2 \in 1 .. args.n /\ before = args.rel[2] /\ before \in Nat
    BY <1>1, <2>2, TagOfSide
  <2>4. BothSides # {} => before # Unmatched
    <3>1. BothSides # {} => peers[k].before # NoPackage
      BY <2>2 DEF BothSides
    <3>2. Unmatched \notin Nat
      BY DEF Unmatched
    <3> QED
      BY <3>1, <3>2, <1>1, <2>2, TagOfSide
  <2> HIDE DEF before, after
  <2>5. args \in Invocations
    BY DEF GatherInv, Position
  <2> DEFINE p == product'
  <2>6. /\ after \in Nat /\ p # Unmatched
        /\ p = a \/ (before \in Nat /\ p = b)
        /\ before \in Nat => Favored({a, b} \ {Unmatched}, p)
    <3> HIDE DEF a, b, p
    <3>1. p = get_product_release(before, after) /\ p # NULL
      BY <2>1 DEF p
    <3>2. a = match_product(products, after) /\ b = match_product(products, before)
      BY DEF a, b
    <3>3. before \in Nat \cup {Unmatched} /\ after \in Nat \cup {Unmatched}
      BY <2>3
    <3>4. PICK u, v, x, y, z : u = before /\ v = after /\ x = a /\ y = b /\ z = p
      OBVIOUS
    <3>5. /\ v \in Nat /\ z # Unmatched
          /\ z = x \/ (u \in Nat /\ z = y)
          /\ u \in Nat => Favored({x, y} \ {Unmatched}, z)
      BY <1>2, <2>5, <3>1, <3>2, <3>3, <3>4, ProductOfTags
    <3> QED
      BY <3>4, <3>5
  <2>7. after = args.rel[1] /\ (before \in Nat => 2 \in 1 .. args.n /\ before = args.rel[2])
    <3>1. Unmatched \notin Nat
      BY DEF Unmatched
    <3> QED
      BY <3>1, <2>3, <2>6
  <2>8. p \in Candidates
    BY <2>3, <2>6, <2>7 DEF Candidates
  <2>9. ASSUME before \in Nat
        PROVE  Favored(Candidates, p)
    <3>1. 1 .. args.n = {1, 2}
      BY <2>5, <2>7, <2>9, BuildsAssumed
    <3>2. Candidates = {a, b} \ {Unmatched}
      BY <3>1, <2>7, <2>9 DEF Candidates
    <3> QED
      BY <3>2, <2>6, <2>9
  <2>10. WorkedOut'
    <3>1. Candidates' = Candidates /\ BothSides' = BothSides
      BY <1>1 DEF Candidates, BothSides
    <3>2. Favored(Candidates, p) => Favored(Candidates, product)'
      BY <1>1, <3>1 DEF Favored
    <3> QED
      BY <2>3, <2>4, <2>8, <2>9, <3>1, <3>2 DEF WorkedOut
  <2>11. Chosen'
    BY <1>1, <1>3, <1>4, <2>1, <2>10 DEF Chosen
  <2> QED
    BY <1>1, <1>2, <1>4, <2>1, <2>11 DEF ProductInv, Inspected
<1> QED
  BY <1>5, <1>6

\* Every step of the program keeps the reason for the product release.
LEMMA ProductNext == IInv /\ GatherInv /\ ProductInv /\ [Next]_vars => ProductInv'
<1> SUFFICES ASSUME IInv, GatherInv, ProductInv, [Next]_vars
             PROVE  ProductInv'
  OBVIOUS
<1>1. CASE select_inspections
  BY <1>1, ProductStays DEF select_inspections, Ended, Inspected
<1>2. CASE gather
  <2>1. /\ UNCHANGED <<product, products, idx, results, worst, shown>> /\ gather_builds
        /\ UNCHANGED args
    BY <1>2, GatherLeads DEF gather
  <2>2. pc \in Gathers /\ pc' \in Gathers \cup {"diagnose"} \cup Ended
    BY <1>2, GatherLeads
  <2> QED
    BY <2>1, <2>2, ProductStays DEF Gathers, Ended, Inspected
<1>3. CASE diagnostics
  BY <1>3, ProductStays DEF diagnostics, Ended, Inspected
<1>4. CASE skip_inspection \/ needs_before_build \/ run_inspection
  <2>1. UNCHANGED <<args, peers, pc, product, products>> /\ pc = "inspect"
    BY <1>4 DEF skip_inspection, needs_before_build, run_inspection, gatherVars
  <2> QED
    BY <2>1, ProductStays DEF Ended, Inspected
<1>5. CASE output_results \/ finish
  <2>1. UNCHANGED <<args, peers, product, products>>
    BY <1>5 DEF output_results, finish
  <2>2. (pc = "inspect" /\ pc' = "finish") \/ pc' = "exited"
    BY <1>5 DEF output_results, finish
  <2> QED
    BY <2>1, <2>2, ProductStays DEF Ended, Inspected
<1>6. CASE Terminated \/ UNCHANGED vars
  <2>1. UNCHANGED <<args, peers, pc, product, products>>
    BY <1>6 DEF Terminated, vars, gatherVars
  <2>2. read' = read
    BY <2>1 DEF read
  <2> QED
    BY <2>1, <2>2 DEF ProductInv, Chosen, WorkedOut, Candidates, BothSides, Favored, Inspected
<1>7. CASE no_peers
  BY <1>7, ProductStays DEF no_peers, Ended
<1> QED
  BY <1>1, <1>2, <1>3, <1>4, <1>5, <1>6, <1>7, ReadingChooses, DetermineChooses DEF Next

\* The product release is the one that -r or the last file that has one gives,
\* and is else worked out from the dist tags of the two builds as
\* favor_release asks (init_rpminspect, get_product_release).
THEOREM ReleaseIsJustified == Spec => []ProductReleaseIsJustified
<1>1. ProductInv => ProductReleaseIsJustified
  <2> SUFFICES ASSUME ProductInv, Inspected
               PROVE  ProductReleaseIsJustified
    BY DEF ProductReleaseIsJustified
  <2>1. DOMAIN read = 1 .. Len(read) /\ Chosen
    BY DEF ProductInv, Inspected, Ended
  <2>2. Giving(read, Len(read)) = {i \in taken : read[i].product_release # Unset}
    BY <2>1 DEF Giving, Taken, taken
  <2>3. (\E i \in DOMAIN peers : NoPackage \notin {peers[i].before, peers[i].after})
            => BothSides # {}
    BY DEF BothSides
  <2> QED
    BY <2>1, <2>2, <2>3
       DEF ProductReleaseIsJustified, Chosen, WorkedOut, Candidates, Favored
<1> QED
  BY InitHolds, NextKeeps, GatherInit, GatherNext, TypeInit, TypeNext, ProductInit, ProductNext, <1>1, PTL DEF Spec
=============================================================================
