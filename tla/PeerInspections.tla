--------------------------- MODULE PeerInspections ---------------------------
(***************************************************************************)
(* Inspections that go through the files or packages of the peers and add  *)
(* results: the loop of lib/inspect.c, the security rules, the fileinfo    *)
(* list, and what each driver decides about one file.                      *)
(*                                                                         *)
(* A file is what a driver looks at, as a record.  Fields used by several: *)
(*   subject   no early return on the kind of package, path or file applies*)
(*   peer      it has a peer file                                          *)
(*   ignored   the configuration says to ignore its path                   *)
(*   rules     its security rules: a severity for some types of rules      *)
(*   mode      the permission bits that matter, see Bits                   *)
(* The drivers run only for inspections that are selected, so the tests of *)
(* ri->tests inside them are true.                                         *)
(***************************************************************************)
EXTENDS ContentDrivers, Rebase

CONSTANTS
    Items,      \* for each inspection, the files or packages it may be given
    Settings    \* for each of them, the settings it may run with: [build, asked,
                \* size_threshold, rebaseable, failure_severity, ready]; asked: an
                \* earlier inspection called is_rebase(); ready: the tool, the data
                \* or the kind of build that it needs is there

\* setuid or setgid, the sticky bit; others may write, the group may write,
\* others may execute
Bits == {"id", "vtx", "w", "gw", "x"}

\* inspections[]: the ones modelled here, and those with security checks
\* among them
inspections ==
    {"abidiff", "addedfiles", "annocheck", "badfuncs", "capabilities", "changedfiles",
     "changelog", "config", "debuginfo", "desktop", "disttag", "doc", "dsodeps", "elf",
     "emptyrpm", "files", "filesize", "javabytecode", "kmidiff", "kmod", "license",
     "lostpayload", "lto", "manpage", "metadata", "modularity", "movedfiles",
     "ownership", "patches", "pathmigration", "permissions", "politics", "removedfiles",
     "runpath", "shellsyntax", "specname", "subpackages", "symlinks", "types",
     "udevrules", "unicode", "upstream", "xml"}
security_checks == {"addedfiles", "annocheck", "capabilities", "changedfiles", "elf",
                    "ownership", "permissions", "removedfiles"}

ASSUME InspectionsAssumption ==
    /\ DOMAIN Items \subseteq inspections
    /\ \A i \in DOMAIN Items : \A s \in Settings[i] :
          /\ s.build \in Build
          /\ {s.asked, s.rebaseable, s.ready} \subseteq BOOLEAN
          /\ s.size_threshold \in Int
          /\ s.failure_severity \in RESULT_NULL .. RESULT_BAD

\* A rule without a known severity is not taken from the configuration
\* (get_secrule_severity).  Of what a file has, the counts are numbers and
\* the lists finite; desktop-file-validate says why a file is not valid.
ASSUME ItemsAssumption ==
    \A i \in DOMAIN Items : \A f \in Items[i] :
        /\ \A t \in DOMAIN f.rules :
               f.rules[t] \in {RESULT_SKIP, RESULT_INFO, RESULT_VERIFY, RESULT_BAD}
        /\ i \in {"capabilities", "ownership"} => f.forbidden \in Nat
        /\ i = "changelog" => {f.bad_words, f.forbidden} \subseteq Nat
        /\ i = "license" => /\ {f.unapproved, f.booleans} \subseteq Nat
                            /\ f.license \in {"none", "unbalanced", "tokens"}
        /\ i = "lto" => f.symbols \in Nat
        /\ i = "kmod" => f.changes \in Nat
        /\ i = "metadata" => IsFiniteSet(f.words) /\ IsFiniteSet(f.changed)
        /\ i = "manpage" => IsFiniteSet(f.errors)
        /\ i = "files" => f.lines \in Seq(STRING)
        /\ i = "runpath" => {f.rpath, f.runpath} \subseteq Seq(STRING)
        /\ i = "javabytecode" => f.classes \in Seq(STRING)
        /\ i = "shellsyntax" => f.syntax \in {"valid", "extglob", "invalid"}
        /\ i = "desktop" => f.valid \/ f.output
        /\ i = "annocheck" => f.tests \in Seq([fails : BOOLEAN, fortify : BOOLEAN])
        /\ i = "patches" => f.kind \in {"unhandled", "removed", "patch"}
        /\ i = "symlinks" => f.target \in {"unreadable", "unresolvable", "reachable",
                                          "dangling", "loop"}

VARIABLES
    insp, settings, files,      \* what runs on what
    rebase_build,               \* ri->rebase_build
    idx,                        \* the file the loop is at
    result, reported,           \* the driver's variables of these names
    results,                    \* what was added, with the file it is about
    returned

vars == <<insp, settings, files, rebase_build, idx, result, reported, results, returned>>

\* The inspections that call is_rebase() once, before they look at anything,
\* leave rebase_build as it is here: their answer is the same for all files.
rebase == is_rebase(settings.build, rebase_build)

\* Those whose driver calls it, and for which files.
asks(f) ==
    \/ insp \in {"abidiff", "changedfiles", "config"} /\ f.peer
    \/ insp = "doc" /\ f.peer /\ (Cardinality(f.marked) = 1 \/ (f.marked # {} /\ f.diff))
    \/ insp = "kmidiff" /\ f.peer /\ f.kernel
    \/ insp = "movedfiles" /\ f.peer /\ f.moved
    \/ insp = "metadata"

-----------------------------------------------------------------------------
\* Faulty variant: files that are not on the list are never looked at.
MatchListedOnly(f, carries, insecure) ==
    LET added == IF carries = "expected" THEN Inform
                 ELSE When(carries = "unexpected", Security(f, "modes")) IN
    [allowed |-> carries # "unlisted" /\ added # <<>>,
     ok |-> carries = "expected" \/ added = <<>>, added |-> added]

\* The fileinfo list has the expected mode, owner and group of some files;
\* an insecure file that is not on it is reported too.
match_fileinfo(f, carries, insecure) ==
    LET added == IF carries = "expected" THEN Inform
                 ELSE When(carries = "unexpected" \/ insecure, Security(f, "modes")) IN
    [allowed |-> carries # "unlisted" /\ added # <<>>,
     ok |-> carries = "expected" \/ added = <<>>, added |-> added]

-----------------------------------------------------------------------------
\* Both modes are cut to 0777 first, so the setuid, setgid and sticky bits
\* are left to match_fileinfo().
check_permissions(f) ==
    LET Low == Bits \ {"id", "vtx"}
        after == f.mode \cap Low
        before == IF f.peer THEN f.before_mode \cap Low ELSE {}
        diff == (before \ after) \cup (after \ before)
        m == match_fileinfo(f, f.listed.mode, "id" \in f.mode)
        id_bit == "id" \notin before /\ "id" \in after
        relaxed == /\ f.kind = "dir"
                   /\ ("vtx" \in diff /\ "vtx" \notin after) \/ after \cap diff # {}
        changed ==
            When((~f.ignored \/ id_bit) /\ diff # {} /\ f.peer /\ ~m.allowed,
                 IF id_bit THEN <<Entry(RESULT_VERIFY, "security")>>
                 ELSE IF relaxed THEN Verify ELSE Inform)
        writable == When(~m.allowed /\ f.kind # "link" /\ "w" \in after,
                         Security(f, "worldwritable"))
    IN  Verdict(m.ok /\ ~Failing(changed) /\ writable = <<>>, m.added \o changed \o writable)

\* was_reported is the variable "reported" of the inspection: whatever it
\* added before, for this file or another, stops the report of an insecure
\* file that is not on the fileinfo list.
check_ownership(f, was_reported) ==
    LET insecure(added) == "id" \in f.mode /\ ~was_reported /\ added = <<>>
        a1 == When(~f.ignored, [i \in 1 .. f.forbidden |-> Bad[1]])
        a2 == a1 \o match_fileinfo(f, f.listed.owner, insecure(a1)).added
        a3 == a2 \o match_fileinfo(f, f.listed.group, insecure(a2)).added
        again(carries, added) ==
            LET m == match_fileinfo(f, carries, insecure(added)) IN
            m.added \o When(~m.allowed, Bad)
        a4 == a3 \o When(f.bin /\ ~f.ignored /\ ~f.bin_owner, again(f.listed.owner, a3))
        a5 == a4 \o When(f.bin /\ ~f.bin_group,
                         IF f.cap_setuid
                         THEN When("x" \in f.mode, Security(f, "setuid"))
                              \o When("gw" \in f.mode, Security(f, "setuid"))
                         ELSE When(~f.ignored, again(f.listed.group, a4)))
        to_bin == f.bin /\ \/ f.bin_owner /\ f.changed = {"owner"}
                           \/ f.bin_group /\ f.changed = {"group"}
                           \/ f.changed = {"owner", "group"}
        changes == When(~f.ignored /\ f.peer /\ f.changed # {},
                        IF to_bin THEN Inform ELSE Verify)
    IN  Verdict(changes = <<>> /\ \A i \in DOMAIN a5 : a5[i].waiverauth = "not", a5 \o changes)

\* The file's capabilities before and after, and those on the list.  If the
\* file has none and should have none, what the two checks said of it is
\* not returned.
capabilities_driver(f) ==
    LET p == check_permissions(f)
        o == check_ownership(f, reported \/ p.added # <<>>)
        before == IF f.peer THEN f.before_caps ELSE "none"
        compared == When("none" \notin {before, f.caps},
                         IF before = f.caps THEN Inform ELSE Security(f, "caps"))
        unlisted == {f.caps, f.caps_list} = {"none"}
        against_list == When(before = "none" /\ ~unlisted,
                             IF f.caps = f.caps_list THEN Inform ELSE Security(f, "caps"))
    IN  Verdict(unlisted \/ (p.ok /\ o.ok /\ ~Failing(compared \o against_list)),
                p.added \o o.added \o compared \o against_list)

-----------------------------------------------------------------------------
\* origin: "kept" or "renamed" for a file with a peer, "new" for one without
\* and "single" if there is no before build.
addedfiles_driver(f) ==
    LET forbidden == f.forbidden /\ ~f.ignored
        secure == f.security /\ f.kind = "reg" /\ f.origin \in {"renamed", "new"}
        added == IF forbidden THEN (IF rebase THEN Inform ELSE Bad)
                 ELSE IF secure THEN (IF rebase THEN Inform ELSE Security(f, "securitypath"))
                 ELSE When(~f.ignored /\ f.origin = "new", Inform)
    IN  Verdict(~Failing(added), added)

\* Faulty variant: the security path prefixes count in a rebase too.
RemovedAlsoInRebase(f) ==
    LET severity == IF f.sentry \/ f.security
                    THEN get_secrule_result_severity(f, "securitypath") ELSE RESULT_INFO
        added == When(~f.peer /\ severity \notin {RESULT_NULL, RESULT_SKIP},
                      IF severity = RESULT_INFO THEN Inform
                      ELSE <<Entry(severity, "security")>>)
    IN  Verdict(~Failing(added), added)

\* sentry: some security rule is about the path.
removedfiles_driver(f) ==
    LET severity == IF f.sentry \/ (f.security /\ ~rebase)
                    THEN get_secrule_result_severity(f, "securitypath") ELSE RESULT_INFO
        added == When(~f.peer /\ severity \notin {RESULT_NULL, RESULT_SKIP},
                      IF severity = RESULT_INFO THEN Inform
                      ELSE <<Entry(severity, "security")>>)
    IN  Verdict(~Failing(added), added)

\* Faulty variant: a security path fails though nothing was reported.
FailsUnreported(severity, reports) == severity >= RESULT_VERIFY

\* The last test of changedfiles_driver(); reports is what the inspection has
\* reported, for this file or another.
fails(severity, reports) == severity >= RESULT_VERIFY /\ reports

\* change: "none", only "bytes", the "content" as the kind of file is
\* compared, or "broken" for a message catalog that msgunfmt cannot read.
changedfiles_driver(f) ==
    LET base == IF f.security THEN Entry(RESULT_BAD, "security") ELSE Inform[1]
        Report(severity) == <<Entry(severity, base.waiverauth)>>
        ignore == f.ignored /\ ~f.security
        added ==
            IF ~f.peer \/ ignore THEN <<>>
            ELSE IF f.content = "compressed" THEN When(f.change = "content", Report(base.severity))
            ELSE IF f.content = "mo" /\ f.change = "broken" THEN Report(RESULT_BAD)
            ELSE IF f.content \in {"mo", "header"} /\ f.change = "content" THEN Report(RESULT_INFO)
            ELSE When(~rebase /\ f.change # "none", Report(RESULT_INFO))
        severity == IF added = <<>> THEN base.severity ELSE added[1].severity
    IN  Verdict(~f.peer \/ ~fails(severity, reported \/ added # <<>>), added)

\* marked: %config, or %doc, "before", "after", or both; change: the content
\* or the destination of a link.
config_driver(f) ==
    LET Report == IF rebase THEN Inform ELSE Verify IN
    IF ~f.peer \/ f.marked = {} THEN Quiet
    ELSE IF f.marked # {"before", "after"} THEN Verdict(FALSE, Report)
    ELSE Verdict(rebase \/ f.change = "none", When(f.change # "none", Report))

\* diff: the contents differ and both are text.
doc_driver(f) ==
    IF ~f.peer \/ f.marked = {} THEN Quiet
    ELSE IF f.marked = {"before", "after"} THEN Verdict(TRUE, When(f.change # "none", Inform))
    ELSE Verdict(rebase, IF rebase THEN Inform ELSE Verify)

\* change: "content" if both parts of the MIME type changed.
types_driver(f) == Verdict(TRUE, When(f.peer /\ f.change = "content", Inform))

filesize_driver(f) ==
    LET difference == IF f.size > f.before_size THEN f.size - f.before_size
                      ELSE f.before_size - f.size
        emptiness == f.size = 0 \/ f.before_size = 0
        change == (difference * 100) \div f.before_size
        large == emptiness \/ (settings.size_threshold > 0 /\ change >= settings.size_threshold)
        severity == IF large /\ settings.size_threshold # -1 THEN RESULT_VERIFY ELSE RESULT_INFO
    IN  IF ~f.peer \/ difference = 0 \/ (~emptiness /\ change = 0) THEN Quiet
        ELSE Verdict(severity = RESULT_INFO,
                     <<Entry(severity, IF large THEN "anyone" ELSE "not")>>)

pathmigration_driver(f) == Verdict(~f.migrates, When(f.migrates, Verify))

\* was: what the peer is, or "none"; target: what became of the link's
\* destination.
symlinks_driver(f) ==
    LET became == When(f.was \in {"dir", "file"},
                       IF f.was = "dir" THEN Bad
                       ELSE IF f.target = "reachable" THEN Inform ELSE Verify)
    IN  CASE f.target = "unreadable" -> Verdict(FALSE, Bad)
          [] f.target = "unresolvable" -> Verdict(FALSE, <<Entry(RESULT_VERIFY, "none")>>)
          [] f.target = "reachable" -> Verdict(f.was # "dir", became)
          [] f.target = "dangling" -> Verdict(TRUE, became \o Inform)
          [] f.target = "loop" -> Verdict(FALSE, became \o Bad)

-----------------------------------------------------------------------------
\* Of these three a file is a package: "full", "empty" or "none" in each
\* build.
subpackages_item(p) ==
    LET severity == IF rebase THEN RESULT_INFO ELSE RESULT_VERIFY
        added == IF p.after = "none" THEN <<Entry(severity, "anyone")>>
                 ELSE When(p.before = "none", <<Entry(severity, "not")>>)
    IN  Verdict(rebase \/ added = <<>>, added)

lostpayload_item(p) ==
    LET lost == IF p.after = "none" THEN TRUE ELSE p.after = "empty" /\ ~p.expected
    IN  Verdict(rebase \/ ~lost, When(lost, IF rebase THEN Inform ELSE Verify))

emptyrpm_item(p) ==
    LET new == p.after = "empty" /\ p.before = "none"
        fine == p.expected \/ p.ghosts
    IN  Verdict(~new \/ fine, When(new, IF fine THEN Inform ELSE Verify))

\* A spec file stands for the prepared source tree and itself; what was
\* found for one file makes the driver return false for all that follow.
unicode_driver(f) ==
    LET severity == get_secrule_result_severity(f, "unicode")
        finding == IF severity = RESULT_INFO THEN Inform ELSE Security(f, "unicode")
        added == IF f.spec /\ ~f.prepared THEN Final
                 ELSE When(f.spec /\ f.in_tree, finding) \o When(f.in_file /\ ~f.ignored, finding)
        all == results \o added
    IN  Verdict(/\ \A i \in DOMAIN all : all[i].waiverauth # "security"
                /\ f.spec => f.prepared,
                added)

-----------------------------------------------------------------------------
\* These have a loop of their own, which looks at every file or package.
own_loop == {"changelog", "disttag", "emptyrpm", "files", "license", "lostpayload",
             "metadata", "modularity", "patches", "removedfiles", "subpackages", "unicode"}

\* Faulty variant: the two conditions of foreach_peer_file() mixed up.
SkippedIfSecurity(f) == f.ignored /\ insp \in security_checks

\* foreach_peer_file() goes past an ignored file, but not in an inspection
\* with security checks.
skipped(f) ==
    f.ignored /\ insp \notin own_loop /\ insp \notin security_checks

-----------------------------------------------------------------------------
\* What variables of some inspections keep of the files looked at before.
earlier == {files[i] : i \in {i \in 1 .. idx - 1 : files[i].subject /\ ~skipped(files[i])}}
specgood == \E f \in earlier : f.matches
jar_result == \A f \in earlier : f.jar => javabytecode_driver(f, TRUE).added = <<>>
unhandled == \E f \in earlier : f.kind = "unhandled"
found_kernel_image == \E f \in earlier : f.peer /\ f.kernel

driver(f) ==
    CASE insp = "permissions" -> check_permissions(f)
      [] insp = "ownership" -> check_ownership(f, reported)
      [] insp = "capabilities" -> capabilities_driver(f)
      [] insp = "addedfiles" -> addedfiles_driver(f)
      [] insp = "removedfiles" -> removedfiles_driver(f)
      [] insp = "changedfiles" -> changedfiles_driver(f)
      [] insp = "movedfiles" -> movedfiles_driver(f, rebase)
      [] insp = "config" -> config_driver(f)
      [] insp = "doc" -> doc_driver(f)
      [] insp = "types" -> types_driver(f)
      [] insp = "filesize" -> filesize_driver(f)
      [] insp = "pathmigration" -> pathmigration_driver(f)
      [] insp = "symlinks" -> symlinks_driver(f)
      [] insp = "subpackages" -> subpackages_item(f)
      [] insp = "lostpayload" -> lostpayload_item(f)
      [] insp = "emptyrpm" -> emptyrpm_item(f)
      [] insp = "unicode" -> unicode_driver(f)
      [] insp = "files" -> files_driver(f)
      [] insp = "disttag" -> disttag_driver(f)
      [] insp = "specname" -> specname_driver(f, specgood)
      [] insp = "upstream" -> upstream_driver(f, rebase \/ settings.rebaseable)
      [] insp = "patches" -> patches_driver(f, unhandled)
      [] insp = "metadata" -> metadata_item(f, rebase)
      [] insp = "changelog" -> changelog_item(f)
      [] insp = "modularity" -> modularity_item(f)
      [] insp = "license" -> license_item(f)
      [] insp = "dsodeps" -> dsodeps_driver(f)
      [] insp = "lto" -> lto_driver(f)
      [] insp = "badfuncs" -> badfuncs_driver(f)
      [] insp = "kmod" -> kmod_driver(f)
      [] insp = "runpath" -> runpath_driver(f)
      [] insp = "debuginfo" -> debuginfo_driver(f)
      [] insp = "abidiff" -> abidiff_driver(f, rebase)
      [] insp = "kmidiff" -> kmidiff_driver(f)
      [] insp = "elf" -> elf_driver(f)
      [] insp = "annocheck" -> annocheck_driver(f, settings.failure_severity)
      [] insp = "politics" -> politics_driver(f)
      [] insp = "udevrules" -> udevrules_driver(f)
      [] insp = "xml" -> xml_driver(f)
      [] insp = "manpage" -> manpage_driver(f)
      [] insp = "javabytecode" -> javabytecode_driver(f, jar_result)
      [] insp = "shellsyntax" -> shellsyntax_driver(f)
      [] insp = "desktop" -> desktop_driver(f)

-----------------------------------------------------------------------------
Start ==
    /\ insp \in DOMAIN Items
    /\ settings \in Settings[insp]
    /\ rebase_build = IF settings.asked THEN detected(settings.build, 0) ELSE 0
    /\ idx = 1
    /\ result = TRUE
    /\ reported = FALSE
    /\ results = <<>>
    /\ returned = FALSE

Init == Start /\ files \in Seq(Items[insp])

\* What an inspection needs to look at anything; without it there are these
\* results at once.
needs ==
    [i \in {"udevrules", "javabytecode", "annocheck", "changelog", "modularity", "upstream",
            "patches", "license", "politics", "lto", "badfuncs"} |->
        CASE i = "udevrules" -> Verdict(TRUE, <<Entry(RESULT_SKIP, "none")>>)
          [] i = "javabytecode" -> Verdict(FALSE, <<>>)
          [] i = "annocheck" -> Quiet
          [] i \in {"changelog", "modularity", "upstream", "patches"} -> Verdict(TRUE, Inform)
          [] i = "license" -> Verdict(FALSE, Final)
          [] i \in {"politics", "lto", "badfuncs"} ->
                Verdict(TRUE, <<Entry(RESULT_OK, "none")>>)]

ready == settings.ready \/ insp \notin DOMAIN needs

Looks(f) ==
    f.subject /\ ~skipped(f) /\ ~(insp = "kmidiff" /\ found_kernel_image)

add_result(at, added) ==
    results' = results \o [i \in DOMAIN added |->
                              [at |-> at, severity |-> added[i].severity,
                               waiverauth |-> added[i].waiverauth]]

Unready ==
    /\ ~ready /\ ~returned
    /\ add_result(0, needs[insp].added)
    /\ result' = needs[insp].ok
    /\ returned' = TRUE
    /\ UNCHANGED <<insp, settings, files, rebase_build, idx, reported>>

Skip ==
    /\ ready /\ idx \in DOMAIN files
    /\ ~Looks(files[idx])
    /\ idx' = idx + 1
    /\ UNCHANGED <<insp, settings, files, rebase_build, result, reported, results, returned>>

\* The loop goes on after a failure; in two inspections it is the last source
\* package that counts.
Inspect ==
    /\ ready /\ idx \in DOMAIN files
    /\ Looks(files[idx])
    /\ LET v == driver(files[idx]) IN
       /\ add_result(idx, v.added)
       /\ reported' = (reported \/ v.added # <<>>)
       /\ result' = ((result \/ insp \in {"files", "disttag"}) /\ v.ok)
    /\ rebase_build' = IF asks(files[idx]) THEN detected(settings.build, rebase_build)
                       ELSE rebase_build
    /\ idx' = idx + 1
    /\ UNCHANGED <<insp, settings, files, returned>>

\* Faulty variant: what was reported is forgotten.
FineIfPassed == result

\* The last one looked at added nothing; there is one.
last_was_quiet ==
    \E i \in DOMAIN files :
        /\ files[i].subject
        /\ \A j \in DOMAIN files : j > i => ~files[j].subject
        /\ driver(files[i]).added = <<>>

\* Something was there to look at.
seen ==
    CASE insp = "unicode" -> \E f \in earlier : f.spec
      [] insp = "disttag" -> \E i \in DOMAIN files : files[i].source
      [] OTHER -> earlier # {}

\* When the inspection says that all is well.
everything_is_ok ==
    CASE insp \in {"types", "lostpayload"} -> ~reported
      [] insp \in {"abidiff", "badfuncs", "debuginfo", "desktop", "dsodeps", "elf",
                   "javabytecode", "kmidiff", "lto", "manpage", "metadata", "modularity",
                   "movedfiles", "pathmigration", "politics", "runpath", "shellsyntax",
                   "subpackages", "symlinks", "udevrules", "unicode", "xml"} -> result
      [] insp \in {"files", "disttag"} -> result /\ seen
      [] insp = "specname" -> specgood
      [] insp = "license" -> \A f \in earlier : counts_as_good(f)
      [] insp = "changelog" -> result /\ last_was_quiet
      [] OTHER -> result /\ ~reported

\* unicode: a failure is forgotten if no spec file was seen.
Return ==
    LET skips == \/ insp = "unicode" /\ ~result /\ ~seen
                 \/ insp \in {"disttag", "files", "specname"} /\ ~seen
    IN  /\ ready /\ idx \notin DOMAIN files /\ ~returned
        /\ add_result(0, IF everything_is_ok THEN <<Entry(RESULT_OK, "none")>>
                         ELSE When(skips, Inform))
        /\ result' = CASE insp = "unicode" -> result \/ skips
                       [] insp = "specname" -> specgood \/ skips
                       [] insp = "files" -> result /\ seen
                       [] OTHER -> result
        /\ returned' = TRUE
        /\ UNCHANGED <<insp, settings, files, rebase_build, idx, reported>>

Terminated == returned /\ UNCHANGED vars

Next == Unready \/ Skip \/ Inspect \/ Return \/ Terminated

Spec == Init /\ [][Next]_vars

-----------------------------------------------------------------------------
added_results == {results[i] : i \in DOMAIN results}
findings == {r \in added_results : r.at # 0}

\* Files that fail without a result: a jar for which no directory can be
\* made, and a script that bash takes with extglob only, as its peer without.
FailsSilently(f) ==
    \/ insp = "javabytecode" /\ f.jar /\ f.unpacked = "no_directory"
    \/ insp = "shellsyntax" /\ f.syntax = "extglob" /\ f.before_valid

\* What fails an inspection in silence: such a file, no JVM version in the
\* configuration, and an unchanged file on a security path that
\* changedfiles_driver() fails because some other file was reported.
NoReason ==
    \/ insp = "javabytecode" /\ ~ready
    \/ idx \in DOMAIN files /\ FailsSilently(files[idx])
    \/ insp = "changedfiles" /\ files[idx].security /\ reported

\* Inspections that end in silence: not configured, no two changelogs, a
\* License tag with unbalanced parentheses, or only such failures.
NothingSaid ==
    \/ insp \in {"javabytecode", "annocheck"} /\ ~ready
    \/ insp = "changelog" /\ earlier = {}
    \/ insp = "license" /\ \E f \in earlier : f.license = "unbalanced"
    \/ \E f \in earlier : FailsSilently(f)

Explained ==
    /\ result /\ ~result' /\ ~NoReason =>
          \E n \in Len(results) + 1 .. Len(results') :
             /\ results'[n].at = IF returned' THEN 0 ELSE idx
             /\ results'[n].severity >= RESULT_INFO
    /\ returned' /\ ~NothingSaid' => added_results' # {}

(* What fails an inspection is in its results: in the step in which the    *)
(* inspection's result becomes false, a finding about the very file it     *)
(* looks at is added (or, at the end, about all of them), and no           *)
(* inspection returns without a result.  The return values of the drivers, *)
(* which several of them derive from static variables, their variable      *)
(* "reported" and what they add are accounts of the same thing.            *)
FailureIsExplained == [][Explained]_vars

(* An inspection that says OK of all it looked at found nothing above      *)
(* INFO, whatever its drivers returned and whichever file it was.  (Of one *)
(* file annocheck says OK, if the configuration wants its failures so.)    *)
(* Not symlinks: a dangling link overwrites the failure of a directory     *)
(* that became a link.  Nor license, which takes a License tag with a bad  *)
(* word for a good one, nor files, disttag and specname, where one source  *)
(* package decides for all.                                                *)
OkIsEarned ==
    /\ insp \notin {"symlinks", "license", "files", "disttag", "specname"}
    /\ \E r \in added_results : r.at = 0 /\ r.severity = RESULT_OK
    => \A r \in added_results : r.severity <= RESULT_INFO

\* The types of security rules that the checks of each inspection go by,
\* several of which repeat the checks of another.
rules_asked ==
    [i \in DOMAIN Items |->
        CASE i = "permissions" -> {"modes", "worldwritable"}
          [] i = "ownership" -> {"modes", "setuid"}
          [] i = "capabilities" -> {"modes", "worldwritable", "setuid", "caps"}
          [] i \in {"addedfiles", "removedfiles"} -> {"securitypath"}
          [] i = "elf" -> {"execstack", "relro", "pic", "textrel"}
          [] i = "unicode" -> {"unicode"}
          [] OTHER -> {}]

(* Rules that say skip silence the checks of a file: if an inspection      *)
(* leaves it to the security team, one of the rules that it asks for does  *)
(* not say skip; one that asks for none leaves nothing to that team.       *)
(* changedfiles does not ask them, and in annocheck a test inherits the    *)
(* severity and the waiver of the one before.                              *)
SkippedRulesAreSilent ==
    \A r \in findings :
        /\ insp \notin {"changedfiles", "annocheck"}
        /\ r.waiverauth = "security"
        => \E t \in rules_asked[insp] :
              get_secrule_result_severity(files[r.at], t) # RESULT_SKIP

\* What these look at are packages, spec files and patches, whose paths they
\* do not compare with the ones to ignore.
of_packages == own_loop \ {"removedfiles", "unicode"}

\* Left to the security team, or a spec file that cannot be prepared, which
\* unicode_driver() finds before it asks whether the path is ignored.
ForSecurity(r) == r.waiverauth = "security" \/ (insp = "unicode" /\ r.waiverauth = "not")

(* Of a file that the configuration ignores, only what is left to the      *)
(* security team is reported above INFO, though inspections with security  *)
(* checks are shown the file and have to look for themselves.              *)
IgnoredFilesOnlySecurity ==
    \A r \in findings :
        /\ insp \notin of_packages
        /\ files[r.at].ignored /\ r.severity >= RESULT_VERIFY
        => ForSecurity(r)

(* A setuid or setgid file that is not on the fileinfo list is reported to *)
(* the security team by both inspections that check permissions, ignored   *)
(* or not and whatever was found before, unless a rule says otherwise.     *)
PrivilegedModesReported ==
    \A i \in 1 .. idx - 1 :
        LET f == files[i] IN
        /\ insp \in {"permissions", "capabilities"} /\ f.subject
        /\ "id" \in f.mode /\ f.listed.mode # "expected"
        /\ get_secrule_result_severity(f, "modes") # RESULT_SKIP
        => \E r \in findings : r.at = i /\ r.waiverauth = "security"

(* In a rebase the inspections that compare two builds do not fail it for  *)
(* what a rebase changes; a removed file that a security rule names is     *)
(* reported as the rule says.                                              *)
RebaseIsLenient ==
    \A r \in findings :
        /\ differs(settings.build)
        /\ insp \in {"addedfiles", "removedfiles", "config", "doc", "subpackages",
                     "lostpayload", "upstream"}
        /\ insp = "removedfiles" => ~files[r.at].sentry
        => r.severity <= RESULT_INFO

(* is_rebase(): "The value is cached in ri."  Whether a build is a rebase   *)
(* does not depend on which file is looked at first: two %config files     *)
(* that are alike are judged alike.                                        *)
AlikeIsJudgedAlike ==
    LET said(i) == {<<r.severity, r.waiverauth>> : r \in {r \in findings : r.at = i}} IN
    \A i, j \in 1 .. idx - 1 :
        insp = "config" /\ files[i] = files[j] => said(i) = said(j)
=============================================================================
