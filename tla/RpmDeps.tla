------------------------------ MODULE RpmDeps ------------------------------
(***************************************************************************)
(* lib/inspect_rpmdeps.c: the inspection gathers and pairs the dependency  *)
(* rules of every package, checks those of the new build against all of    *)
(* its subpackages, and reports what changed.                              *)
(*                                                                         *)
(* A package is a record: its name, the source package it is built from    *)
(* (srpm, NULL for a source package), its epoch, whether it has debugging  *)
(* data, whether only the old build has it (gone), and the rules in the    *)
(* headers of both builds.  All are of one version and release, "vr"; with *)
(* the epoch that is "evr".                                                *)
(***************************************************************************)
EXTENDS DepRules

CONSTANTS
    Inputs,         \* records [packages, rebase, module, two_builds]
    Libs,           \* names that start with "lib" and have ".so" in them
    NotFollowed,    \* paths, and names that start with "lib" or have ".so"
    Bare            \* remove_isa_substring()

ASSUME RpmDepsAssumption ==
    /\ Libs \subseteq NotFollowed /\ NotFollowed \subseteq Names
    /\ Bare \in [Names -> Names] /\ NULL \notin Names
    /\ \A in \in Inputs :
          /\ Len(in.packages) \in Nat /\ DOMAIN in.packages = 1 .. Len(in.packages)
          /\ \A i \in DOMAIN in.packages :
                /\ in.packages[i].before \in Seq(Rule)
                /\ in.packages[i].after \in Seq(Rule)
                /\ in.packages[i].debug \in BOOLEAN

VARIABLES
    input,
    deps,           \* before_deprules and after_deprules, once they are peers
    phase,          \* the loop the inspection is in
    k, r,           \* the package, and the place of a rule of it
    transitive, visited,    \* the list of names, and how far the loop over it is
    findings,       \* what was added: records [what, severity, pkg, rule]
    result

inspecting == <<input, deps, phase, k, r, transitive, visited, findings, result>>
vars == <<before, after, peer_before, peer_after, strict, side, pos, input, deps, phase, k, r,
          transitive, visited, findings, result>>

packages == input.packages
after_deps(i) == deps[i].after

\* The source package, when there is one, is the main package.
mainpkgname ==
    LET sources == {i \in DOMAIN packages : packages[i].srpm = NULL /\ ~packages[i].gone} IN
    IF sources = {} THEN NULL ELSE packages[CHOOSE i \in sources : First(i, sources)].name

Finding(what, severity, i, n) == [what |-> what, severity |-> severity, pkg |-> i, rule |-> n]

-----------------------------------------------------------------------------
Init ==
    /\ input \in Inputs
    /\ deps = <<>> /\ phase = "gather" /\ k = 1 /\ r = 1
    /\ transitive = {} /\ visited = {}
    /\ findings = {} /\ result = TRUE
    /\ before = <<>> /\ after = <<>> /\ peer_before = <<>> /\ peer_after = <<>>
    /\ strict = TRUE /\ side = "none" /\ pos = 1

\* First pass: the rules of the package are gathered and paired.
Gather ==
    /\ phase = "gather" /\ k \in DOMAIN packages
    /\ Call(gather_deprules(packages[k].before), gather_deprules(packages[k].after))
    /\ phase' = "pair"
    /\ UNCHANGED <<input, deps, k, r, transitive, visited, findings, result>>

Pair ==
    /\ phase = "pair"
    /\ FindPeers
    /\ UNCHANGED inspecting

have_unexpanded_macros ==
    {Finding("macro", "BAD", k, n) : n \in {n \in DOMAIN after : after[n].version = "macro"}}

Gathered ==
    /\ phase = "pair" /\ side = "none"
    /\ deps' = Append(deps, [before |-> before, after |-> after,
                             peer_before |-> peer_before, peer_after |-> peer_after])
    /\ findings' = findings \cup have_unexpanded_macros
    /\ result' = (result /\ have_unexpanded_macros = {})
    /\ k' = k + 1
    /\ phase' = "gather"
    /\ UNCHANGED <<peering, input, r, transitive, visited>>

SecondPass ==
    /\ phase = "gather" /\ k \notin DOMAIN packages
    /\ phase' = "libs" /\ k' = 1
    /\ UNCHANGED <<peering, input, deps, r, transitive, visited, findings, result>>

-----------------------------------------------------------------------------
\* check_explicit_lib_deps(): a rule about a shared library.
IsLib(rule) == rule.type # "Provides" /\ rule.name \in Libs

\* The packages of the build that provide it; those of a module only if they
\* come from the same source package.
Provides(i, name) ==
    \E n \in DOMAIN after_deps(i) :
        after_deps(i)[n].type = "Provides" /\ Bare[after_deps(i)[n].name] = Bare[name]

providers(i, n) ==
    {packages[j].name : j \in {j \in DOMAIN packages :
        /\ input.module => packages[j].srpm \in {NULL, packages[i].srpm}
        /\ Provides(j, after_deps(i)[n].name)}}

\* What any package requires by the name of one of several providers.
explicit_requires(i, n) ==
    {name \in providers(i, n) : \E j \in DOMAIN packages : \E m \in DOMAIN after_deps(j) :
        /\ after_deps(j)[m].type = "Requires" /\ after_deps(j)[m].name = name
        /\ <<i, n>> # <<j, m>>}

\* A rule on the provider with this very version and release.  Its type may
\* be any but Provides.
direct(i, pn) ==
    \E m \in DOMAIN after_deps(i) :
        LET rule == after_deps(i)[m] IN
        /\ rule.type # "Provides" /\ rule.name \notin Libs
        /\ Bare[rule.name] = pn /\ rule.op = "=" /\ rule.version \in {"vr", "evr"}

is_subpackage(name) == \E i \in DOMAIN packages : ~packages[i].gone /\ packages[i].name = name

\* The subpackages that a package requires, by rules that are followed.
Followed(i) ==
    {Bare[after_deps(i)[m].name] : m \in {m \in DOMAIN after_deps(i) :
        /\ after_deps(i)[m].type = "Requires" /\ after_deps(i)[m].name \notin NotFollowed
        /\ is_subpackage(Bare[after_deps(i)[m].name])}}

\* What the packages of a name require.
RequiredBy(name) ==
    UNION {Followed(i) : i \in {i \in DOMAIN packages : ~packages[i].gone
                                                        /\ packages[i].name = name}}

report_missing(pn) ==
    /\ findings' = IF packages[k].debug THEN findings
                   ELSE findings \cup {Finding("missing", "VERIFY", k, r)}
    /\ result' = (result /\ packages[k].debug)

NextRule == r' = r + 1

SkipRule ==
    /\ phase = "libs" /\ k \in DOMAIN packages /\ r \in DOMAIN after_deps(k)
    /\ ~IsLib(after_deps(k)[r])
    /\ NextRule
    /\ UNCHANGED <<peering, input, deps, phase, k, transitive, visited, findings, result>>

\* A library that several packages provide, or none of this build.
SeveralProviders ==
    /\ phase = "libs" /\ k \in DOMAIN packages /\ r \in DOMAIN after_deps(k)
    /\ IsLib(after_deps(k)[r])
    /\ Cardinality(providers(k, r)) # 1
    /\ IF explicit_requires(k, r) # {}
       THEN /\ findings' = findings \cup {Finding("multiple", "VERIFY", k, r)}
            /\ result' = FALSE
       ELSE UNCHANGED <<findings, result>>
    /\ NextRule
    /\ UNCHANGED <<peering, input, deps, phase, k, transitive, visited>>

\* One provider: fine if the package requires it directly or is it; else
\* what it requires is collected.
OneProvider ==
    /\ phase = "libs" /\ k \in DOMAIN packages /\ r \in DOMAIN after_deps(k)
    /\ IsLib(after_deps(k)[r])
    /\ \E pn \in Names :
          /\ providers(k, r) = {pn}
          /\ IF direct(k, pn) \/ packages[k].name = pn
             THEN NextRule /\ UNCHANGED <<phase, transitive, visited>>
             ELSE /\ transitive' = Followed(k) /\ visited' = {}
                  /\ phase' = "closure"
                  /\ UNCHANGED r
    /\ UNCHANGED <<peering, input, deps, k, findings, result>>

\* Faulty variant: what the collected packages require is not collected.
CollectNothingMore ==
    /\ phase = "closure"
    /\ \E name \in transitive \ visited : visited' = visited \cup {name}
    /\ UNCHANGED <<peering, input, deps, phase, k, r, transitive, findings, result>>

\* The loop over the list goes on over what it adds at the end of it.
Collect ==
    /\ phase = "closure"
    /\ \E name \in transitive \ visited :
          /\ transitive' = transitive \cup RequiredBy(name)
          /\ visited' = visited \cup {name}
    /\ UNCHANGED <<peering, input, deps, phase, k, r, findings, result>>

\* The provider is among them, or the main package, or it requires this one.
Decide ==
    /\ phase = "closure" /\ transitive \subseteq visited
    /\ \E pn \in providers(k, r) :
          IF \/ {pn, mainpkgname} \cap transitive # {}
             \/ \E name \in RequiredBy(pn) : name = packages[k].name
          THEN UNCHANGED <<findings, result>>
          ELSE report_missing(pn)
    /\ transitive' = {} /\ visited' = {}
    /\ phase' = "libs"
    /\ NextRule
    /\ UNCHANGED <<peering, input, deps, k>>

\* check_explicit_epoch(): a version without an epoch, on a package of the
\* build that has one.  In a rebase that is no more than information, and
\* the inspection fails all the same.  The inspection has called is_rebase()
\* before, so its list of packages does not count here.
LacksEpoch(i, n) ==
    LET rule == after_deps(i)[n] IN
    /\ rule.version \notin {NULL, "evr"}
    /\ \E j \in DOMAIN packages :
          ~packages[j].gone /\ packages[j].name = rule.name /\ packages[j].epoch > 0

\* Faulty variant: the verdict is that of the last package.
CheckEpochLast ==
    /\ phase = "libs" /\ k \in DOMAIN packages /\ r \notin DOMAIN after_deps(k)
    /\ LET lacking == {n \in DOMAIN after_deps(k) : LacksEpoch(k, n)} IN
       /\ findings' = findings \cup {Finding("epoch", IF input.rebase THEN "INFO" ELSE "BAD", k, n) :
                                     n \in lacking}
       /\ result' = (lacking = {})
    /\ k' = k + 1 /\ r' = 1
    /\ UNCHANGED <<peering, input, deps, phase, transitive, visited>>

CheckEpoch ==
    /\ phase = "libs" /\ k \in DOMAIN packages /\ r \notin DOMAIN after_deps(k)
    /\ LET lacking == {n \in DOMAIN after_deps(k) : LacksEpoch(k, n)} IN
       /\ findings' = findings \cup {Finding("epoch", IF input.rebase THEN "INFO" ELSE "BAD", k, n) :
                                     n \in lacking}
       /\ result' = (result /\ lacking = {})
    /\ k' = k + 1 /\ r' = 1
    /\ UNCHANGED <<peering, input, deps, phase, transitive, visited>>

LastPass ==
    /\ phase = "libs" /\ k \notin DOMAIN packages
    /\ phase' = IF input.two_builds THEN "report" ELSE "verdict"
    /\ k' = 1
    /\ UNCHANGED <<peering, input, deps, r, transitive, visited, findings, result>>

\* What became of the rules of a package that the new build has.
change(d, n) ==
    IF d.peer_after[n] = 0 THEN "gained"
    ELSE IF deprules_match(d.after[n], d.before[d.peer_after[n]]) THEN "retained" ELSE "changed"

Report ==
    /\ phase = "report" /\ k \in DOMAIN packages
    /\ findings' =
         IF packages[k].gone THEN findings
         ELSE findings
              \cup {Finding(change(deps[k], n), "INFO", k, n) : n \in DOMAIN deps[k].after}
              \cup {Finding("lost", "INFO", k, n) :
                    n \in {n \in DOMAIN deps[k].before : deps[k].peer_before[n] = 0}}
    /\ k' = k + 1
    /\ UNCHANGED <<peering, input, deps, phase, r, transitive, visited, result>>

Return ==
    /\ \/ phase = "verdict"
       \/ phase = "report" /\ k \notin DOMAIN packages
    /\ phase' = "done"
    /\ findings' = findings \cup (IF result THEN {Finding("fine", "OK", 0, 0)} ELSE {})
    /\ UNCHANGED <<peering, input, deps, k, r, transitive, visited, result>>

Terminated == phase = "done" /\ UNCHANGED vars

Next ==
    \/ Gather \/ Pair \/ Gathered \/ SecondPass
    \/ SkipRule \/ SeveralProviders \/ OneProvider \/ Collect \/ Decide \/ CheckEpoch
    \/ LastPass \/ Report \/ Return \/ Terminated

Spec == Init /\ [][Next]_vars

-----------------------------------------------------------------------------
\* Every variable holds a value of its type.
TypeOK ==
    /\ PeeringTypeOK
    /\ phase \in {"gather", "pair", "libs", "closure", "report", "verdict", "done"}
    /\ k \in Nat \ {0} /\ r \in Nat \ {0}
    /\ transitive \subseteq Names /\ visited \subseteq transitive
    /\ result \in BOOLEAN

\* A set of names with what the packages of these names require.
Closed(S) == \A name \in S : RequiredBy(name) \subseteq S

\* What a package requires, directly or not: what is in every closed set
\* that has what it requires itself.
Reachable(i) ==
    {name \in Names : \A S \in SUBSET Names : Followed(i) \subseteq S /\ Closed(S) => name \in S}

\* The library of a package comes with the same build of its provider:
\* by a rule on it, because the package is the provider or requires it, or
\* the main package, by way of other packages, or is required by it.
Justified(i, pn) ==
    \/ direct(i, pn) \/ packages[i].name = pn
    \/ {pn, mainpkgname} \cap Reachable(i) # {}
    \/ packages[i].name \in RequiredBy(pn)

\* A missing explicit requirement is reported for a library of one provider
\* if and only if nothing justifies it, however long the chain of packages
\* and whatever their order.
LibraryRequirementsChecked ==
    phase = "done" => \A i \in DOMAIN packages : \A n \in DOMAIN after_deps(i) :
        Finding("missing", "VERIFY", i, n) \in findings
        <=> /\ IsLib(after_deps(i)[n]) /\ ~packages[i].debug
            /\ \E pn \in Names : providers(i, n) = {pn} /\ ~Justified(i, pn)

\* The inspection fails if and only if it added something that is worse than
\* information, or says that an epoch lacks; and it says that all is well if
\* and only if it does not fail.
VerdictMatchesFindings ==
    phase = "done" =>
        /\ result <=> \A f \in findings : f.severity \in {"INFO", "OK"} /\ f.what # "epoch"
        /\ result <=> Finding("fine", "OK", 0, 0) \in findings
=============================================================================
