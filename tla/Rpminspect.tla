----------------------------- MODULE Rpminspect -----------------------------
(* One run of the program: main() of src/rpminspect.c around the gathering  *)
(* of GatherBuilds, with the selection of inspections (lib/flags.c), the    *)
(* product release, the list of results (lib/results.c), the four reports   *)
(* (lib/output_*.c) and the exit status.  An inspection is what main() sees *)
(* of it: a driver that adds a result of some severity, or none.            *)
(* Further fields of an invocation:                                         *)
(*   cfg         the configuration files it may find, see Config            *)
(*   option      "T", "E" or "none", and list, the argument of that option  *)
(*   threshold, suppress, keep    -t, -s, -k                                *)
(*   release     the product release of -r, or Unset                        *)
(*   rel         the dist tag of each build: 0 is none, higher is newer     *)
(*   favor       the setting favor_release                                  *)
(*   format      -F, and writable, whether the file named by -o can be      *)
(*               opened                                                     *)
EXTENDS GatherBuilds

RESULT_DIAG == 1
RESULT_SKIP == 2
RESULT_OK == 3
RESULT_INFO == 4
RESULT_VERIFY == 5
RESULT_BAD == 6
Severities == 0 .. RESULT_BAD

ASSUME RpminspectAssumption ==
    \A a \in Invocations : /\ IsConfiguration(a.cfg)
                           /\ a.list \in Seq(STRING)
                           /\ \A b \in 1 .. a.n : a.rel[b] \in Nat
                           /\ a.option \in {"T", "E", "none"}
                           /\ a.threshold \in Severities
                           /\ a.suppress \in Severities
                           /\ a.favor \in {"none", "oldest", "newest"}
                           /\ a.format \in {"text", "json", "xunit", "summary"}
                           /\ a.writable \in BOOLEAN

VARIABLES tests,    \* ri->tests: the inspections selected
          product,  \* ri->product_release
          products, \* ri->products
          idx,      \* the inspection the loop of main() is at
          ran,      \* the inspections whose driver was called
          results,  \* ri->results
          worst,    \* ri->worst_result
          shown     \* the results the report displays

reportVars == <<ran, results, worst, shown>>
vars == <<gatherVars, tests, product, products, idx, reportVars>>

-----------------------------------------------------------------------------
(* The configuration files are read, and -r overrides what they say.        *)
read_configuration ==
    /\ pc = "start"
    /\ code' = configuration_status(args.cfg)
    /\ IF code' = RI_SUCCESS
       THEN LET settings == init_rpminspect(args.cfg) IN
            /\ tests' = settings.tests /\ products' = settings.products
            /\ product' = IF args.release = Unset THEN settings.product_release ELSE args.release
            /\ pc' = "options"
       ELSE pc' = "exited" /\ UNCHANGED <<tests, product, products>>
    /\ UNCHANGED <<args, turn, next, worksubdir, buildtype, files, peers, idx, reportVars>>

(* -E starts again from all of them and -T from none.                       *)
selected_by_option ==
    LET exclude == args.option = "E" IN
    handle_inspections(IF exclude THEN Names ELSE {},
                       [i \in DOMAIN args.list |-> [name |-> args.list[i], exclude |-> exclude]])

(* The arguments are read; a name that is no inspection ends the program.   *)
select_inspections ==
    /\ pc = "options"
    /\ IF \A i \in DOMAIN args.list : args.list[i] \in Names \cup {"ALL"}
       THEN /\ tests' = IF args.option = "none" THEN tests ELSE selected_by_option
            /\ pc' = "gather"
            /\ UNCHANGED code
       ELSE /\ pc' = "exited" /\ code' = RI_PROGRAM_ERROR
            /\ UNCHANGED tests
    /\ UNCHANGED <<args, turn, next, worksubdir, buildtype, files, peers, product, products, idx, reportVars>>

gather ==
    /\ gather_builds
    /\ UNCHANGED <<tests, product, products, idx, reportVars>>

-----------------------------------------------------------------------------
(* A plain result has the verb VERB_OK and no noun.                         *)
Entry(header, severity, plain) ==
    [header |-> header, severity |-> severity, plain |-> plain]

(* Faulty variant: the last result counts, not the worst.                   *)
AddLastResult(header, severity, plain) ==
    /\ worst' = severity
    /\ results' = Append(results, Entry(header, severity, plain))

add_result(header, severity, plain) ==
    /\ worst' = IF severity > worst THEN severity ELSE worst
    /\ results' = Append(results, Entry(header, severity, plain))

(* Versions, command line and builds, in results that add_result_entry()    *)
(* stores without touching the worst result; main() then sets that itself.  *)
diagnostics ==
    /\ pc = "diagnose"
    /\ results' = Append(results, Entry("diagnostics", RESULT_DIAG, FALSE))
    /\ worst' = RESULT_DIAG
    /\ pc' = IF product # Unset THEN "inspect" ELSE "release"
    /\ UNCHANGED <<args, turn, next, worksubdir, buildtype, files, peers, code, tests, product, products, idx, ran, shown>>

(* Faulty variant: newest and oldest the other way round.                   *)
favored_swapped(b, a) ==
    CASE args.favor = "newest" -> IF b <= a THEN b ELSE a
      [] args.favor = "oldest" -> IF b >= a THEN b ELSE a
      [] args.favor = "none" -> NULL

(* Of two products that differ, the one that favor_release asks for.        *)
favored(b, a) ==
    CASE args.favor = "oldest" -> IF b <= a THEN b ELSE a
      [] args.favor = "newest" -> IF b >= a THEN b ELSE a
      [] args.favor = "none" -> NULL

(* get_product_release() of two dist tags; NULL when it cannot tell.        *)
get_product_release(before, after) ==
    LET a == match_product(products, after)
        b == match_product(products, before)
        product_of ==
            IF before = Unmatched \/ a = b \/ b = Unmatched THEN a
            ELSE IF a = Unmatched THEN b
            ELSE favored(b, a)
    IN  IF after \in {Unmatched, NULL} \/ product_of = Unmatched THEN NULL ELSE product_of

(* With no peers the program ends.  The loop over them stops at one that    *)
(* has both sides, and keeps what the last one gave if there is none.       *)
no_peers ==
    /\ pc = "release" /\ peers = <<>>
    /\ pc' = "exited" /\ code' = RI_PROGRAM_ERROR
    /\ UNCHANGED <<args, turn, next, worksubdir, buildtype, files, peers, tests, product, products, idx, reportVars>>

determine_release ==
    /\ pc = "release" /\ peers # <<>>
    /\ LET both == {i \in DOMAIN peers : /\ peers[i].before # NoPackage
                                         /\ peers[i].after # NoPackage}
           peer == IF both = {} THEN peers[Len(peers)]
                   ELSE peers[CHOOSE i \in both : \A j \in both : i <= j]
           rel(side) == IF peer[side] = NoPackage THEN Unmatched ELSE args.rel[peer[side][1]]
       IN  product' = get_product_release(rel("before"), rel("after"))
    /\ IF product' = NULL
       THEN pc' = "exited" /\ code' = RI_PROGRAM_ERROR
       ELSE pc' = "inspect" /\ UNCHANGED code
    /\ UNCHANGED <<args, turn, next, worksubdir, buildtype, files, peers, tests, products, idx, reportVars>>

inspection == Inspections[idx]

(* The three ways one turn of the inspection loop goes.                     *)
skip_inspection ==
    /\ pc = "inspect" /\ idx <= Len(Inspections)
    /\ inspection.name \notin tests
    /\ add_result(inspection.name, RESULT_SKIP, FALSE)
    /\ idx' = idx + 1
    /\ UNCHANGED <<gatherVars, tests, product, products, ran, shown>>

needs_before_build ==
    /\ pc = "inspect" /\ idx <= Len(Inspections)
    /\ inspection.name \in tests
    /\ args.n = 1 /\ ~inspection.single_build
    /\ idx' = idx + 1
    /\ UNCHANGED <<gatherVars, tests, product, products, reportVars>>

run_inspection ==
    /\ pc = "inspect" /\ idx <= Len(Inspections)
    /\ inspection.name \in tests
    /\ args.n = 2 \/ inspection.single_build
    /\ ran' = ran \cup {inspection.name}
    /\ \/ \E s \in {RESULT_INFO, RESULT_VERIFY, RESULT_BAD} : add_result(inspection.name, s, FALSE)
       \/ \E s \in {RESULT_OK, RESULT_INFO} : add_result(inspection.name, s, TRUE)
       \/ UNCHANGED <<results, worst>>
    /\ idx' = idx + 1
    /\ UNCHANGED <<gatherVars, tests, product, products, shown>>

-----------------------------------------------------------------------------
(* Faulty variant: a result just as severe as -s asks for is suppressed.    *)
SuppressedOneMore(header) ==
    /\ header # "diagnostics"
    /\ \A i \in DOMAIN results :
          results[i].header = header => results[i].severity <= args.suppress

(* No result of this header is as severe as -s asks for.                    *)
suppressed_results(header) ==
    /\ header # "diagnostics"
    /\ \A i \in DOMAIN results :
          results[i].header = header => results[i].severity < args.suppress

(* Which results each report displays.  Nothing is displayed if the file    *)
(* for it cannot be opened, and nobody is told but by a warning.            *)
output_text ==
    {i \in DOMAIN results : /\ ~suppressed_results(results[i].header)
                            /\ \/ results[i].header = "diagnostics"
                               \/ results[i].severity >= args.suppress}

output_json ==
    {i \in DOMAIN results : ~suppressed_results(results[i].header)}

output_xunit ==
    {i \in DOMAIN results : ~suppressed_results(results[i].header)}

output_summary ==
    {i \in DOMAIN results : /\ results[i].header # "diagnostics"
                            /\ ~results[i].plain
                            /\ results[i].severity >= args.suppress
                            /\ ~suppressed_results(results[i].header)}

output_results ==
    /\ pc = "inspect" /\ idx > Len(Inspections)
    /\ shown' = CASE ~args.writable -> {}
                  [] args.format = "text" -> output_text
                  [] args.format = "json" -> output_json
                  [] args.format = "xunit" -> output_xunit
                  [] args.format = "summary" -> output_summary
    /\ pc' = "finish"
    /\ UNCHANGED <<args, turn, next, worksubdir, buildtype, files, peers, code, tests, product,
                   products, idx, ran, results, worst>>

finish ==
    /\ pc = "finish"
    /\ pc' = "exited"
    /\ code' = IF worst >= args.threshold THEN RI_INSPECTION_FAILURE ELSE RI_SUCCESS
    /\ files' = IF args.keep THEN files ELSE rmtree(worksubdir)
    /\ UNCHANGED <<args, turn, next, worksubdir, buildtype, peers, tests, product, products, idx, reportVars>>

Terminated ==
    /\ pc \in {"exited", "crashed"}
    /\ UNCHANGED vars

-----------------------------------------------------------------------------
Init ==
    /\ args \in Invocations
    /\ turn = 1 /\ next = 1 /\ worksubdir = NULL /\ buildtype = args.buildtype
    /\ files = {} /\ peers = <<>>
    /\ pc = "start" /\ code = RI_SUCCESS
    /\ tests = Names /\ product = Unset /\ products = <<>> /\ idx = 1
    /\ ran = {} /\ results = <<>> /\ worst = NULL /\ shown = {}

Next ==
    \/ read_configuration \/ select_inspections \/ gather \/ diagnostics \/ no_peers \/ determine_release
    \/ skip_inspection \/ needs_before_build \/ run_inspection
    \/ output_results \/ finish
    \/ Terminated

Spec == Init /\ [][Next]_vars

-----------------------------------------------------------------------------
(* The files that are read, and those of them that can be parsed.           *)
read == files_read(args.cfg)
taken == {i \in DOMAIN read : ~read[i].malformed}
Inspected == pc \in {"diagnose", "release", "inspect", "finish"}
Reported == pc = "exited" /\ idx > Len(Inspections)

(* The exit status says whether some result, shown or suppressed, reached   *)
(* the threshold of -t: rpminspect.c sets it from the worst result alone.   *)
ExitReflectsWorst ==
    Reported => (code = RI_INSPECTION_FAILURE <=>
                     \E i \in DOMAIN results : results[i].severity >= args.threshold)

(* A run that fails because of its inspections shows why, unless the user   *)
(* suppressed results above the threshold: a report hides results through   *)
(* suppressed_results() and through the severity of each.  The summary      *)
(* shows neither the diagnostics nor a result that says no more than OK,    *)
(* and a report that could not be written shows nothing.                    *)
FailureIsShown ==
    LET severe(i) == results[i].severity >= args.threshold
        unsaid(i) == results[i].plain \/ results[i].header = "diagnostics"
    IN  Reported /\ code = RI_INSPECTION_FAILURE
                 /\ args.suppress <= args.threshold /\ args.writable =>
          \/ \E i \in shown : severe(i)
          \/ args.format = "summary" /\ \A i \in DOMAIN results : severe(i) => unsaid(i)

(* Inspections with security checks cannot be excluded by name, neither by  *)
(* -E nor in any of the configuration files, read one over the other: in a  *)
(* run without -T and "ALL" they all run, those that compare builds only    *)
(* when there are two.                                                      *)
SecurityInspectionsRun ==
    Reported /\ args.option # "T"
             /\ (\A i \in DOMAIN args.list : args.list[i] # "ALL")
             /\ (\A i \in taken : \A n \in DOMAIN read[i].inspections :
                    read[i].inspections[n].name # "ALL")
        => \A i \in DOMAIN Inspections :
              Inspections[i].security_checks /\ (args.n = 2 \/ Inspections[i].single_build)
                  => Inspections[i].name \in ran

(* Each peer joins packages of one name, from the right build and on disk.  *)
here == {f.package : f \in files}
Has(i, side) == peers[i][side] # NoPackage

PeersAreThere ==
    \A i \in DOMAIN peers :
        /\ Has(i, "after") => peers[i].after \in here /\ peers[i].after[1] = 1
        /\ Has(i, "before") => peers[i].before \in here /\ peers[i].before[1] = 2
        /\ Has(i, "after") /\ Has(i, "before") =>
              NameOf(peers[i].after) = NameOf(peers[i].before)

EachAfterHasItsPeer ==
    \A p \in here : p[1] = 1 =>
        \E i \in DOMAIN peers : /\ peers[i].after = p
                                /\ \A j \in DOMAIN peers : peers[j].after = p => i = j

NamesMeet ==
    \A p, q \in here : p[1] = 1 /\ q[1] = 2 /\ NameOf(p) = NameOf(q) =>
        \E i \in DOMAIN peers : /\ Has(i, "after") /\ Has(i, "before")
                                /\ NameOf(peers[i].after) = NameOf(p)

(* The type that a build has by itself, if any.                             *)
OwnType(b) ==
    IF args.kind[b] = "local"
    THEN IF b \in args.modulemd THEN KOJI_BUILD_MODULE ELSE KOJI_BUILD_RPM
    ELSE IF ~is_koji_build(b) THEN KOJI_BUILD_NULL
    ELSE IF has_module_metadata(args.koji[b]) THEN KOJI_BUILD_MODULE ELSE KOJI_BUILD_RPM

(* The type of Koji build b is not looked for: -b or the build before it    *)
(* has set ri->buildtype already, and to another.                           *)
TypeIsStale(b) ==
    LET kept == IF args.buildtype # KOJI_BUILD_NULL /\ (b = 1 \/ args.kind[1] # "local")
                THEN args.buildtype
                ELSE IF b = 1 THEN KOJI_BUILD_NULL ELSE OwnType(1)
    IN  is_koji_build(b) /\ kept \notin {KOJI_BUILD_NULL, OwnType(b)}

(* A build that Koji has consists of what its own type makes it consist of. *)
BelongsToItsBuild(p) ==
    LET koji == args.koji[p[1]]
        type == OwnType(p[1])
    IN  is_koji_build(p[1]) /\ ~TypeIsStale(p[1]) =>
            /\ p[2] \in listed(koji, type, DOMAIN args.content[p[1]])
            /\ type = KOJI_BUILD_MODULE => NameOf(p) \notin koji.filter

(* p is of a build that the content tag of a module led to, and filtered.   *)
FilteredOut(p) ==
    /\ is_koji_build(p[1]) /\ has_module_metadata(args.koji[p[1]])
    /\ p[2] \in args.koji[p[1]].tagged
    /\ NameOf(p) \in args.koji[p[1]].filter

(* The inspections go by the type of a build that has one, unless it was    *)
(* not looked for or a local build came after it.                           *)
TypeIsOfTheBuilds ==
    \A b \in 1 .. args.n :
        OwnType(b) # KOJI_BUILD_NULL /\ ~TypeIsStale(b) /\ (b = 1 => args.n = 1 \/ args.kind[2] # "local")
            => buildtype = OwnType(b)

(* What is inspected is what was gathered: each peer joins packages of one  *)
(* name, from the right build and still on disk, each package of the after  *)
(* build on disk has a peer of its own, and a name found in both builds has *)
(* a peer with both sides (add_peer, copytree, the removal of worksubdir).  *)
(* A package of a build in Koji is there only if a build of that type lists *)
(* it and does not filter it out, and the type inspections go by is that of *)
(* the builds, except where get_koji_build() keeps the type of the build    *)
(* before, or of -b, for one of another type.  Even then, what a module     *)
(* filters out of the builds its content tag leads to is not there.         *)
PeersAreTheGatheredPackages ==
    Inspected => /\ PeersAreThere /\ EachAfterHasItsPeer /\ NamesMeet
                 /\ \A p \in here : BelongsToItsBuild(p) /\ ~FilteredOut(p)
                 /\ TypeIsOfTheBuilds

(* A product release that main() worked out is the product of one of the    *)
(* two builds; where they differ it is the one that favor_release asks for  *)
(* (get_product_release on the tags the peers gave).  It is worked out if   *)
(* and only if neither -r nor the last file that has one gives it.          *)
ProductReleaseIsJustified ==
    Inspected =>
        LET P == {match_product(products, args.rel[b]) : b \in 1 .. args.n} \ {Unmatched}
            given == {i \in taken : read[i].product_release # Unset}
        IN  IF args.release # Unset THEN product = args.release
            ELSE IF given # {}
            THEN \E i \in given : /\ \A j \in given : j <= i
                                  /\ product = read[i].product_release
            ELSE product # Unset =>
                  /\ product \in P
                  /\ (\E i \in DOMAIN peers : NoPackage \notin {peers[i].before, peers[i].after}) =>
                        /\ args.favor = "newest" => \A p \in P : p <= product
                        /\ args.favor = "oldest" => \A p \in P : product <= p
                        /\ args.favor = "none" => P = {product}
=============================================================================
