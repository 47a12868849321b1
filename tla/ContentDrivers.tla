--------------------------- MODULE ContentDrivers ---------------------------
(***************************************************************************)
(* The drivers of the inspections that look into files and headers, each   *)
(* as what it returns and adds for one file (f) or package (p).  What      *)
(* libraries and commands find there (ELF sections, exit codes, XML) is    *)
(* part of the file; subject is false for what the driver does not look at.*)
(***************************************************************************)
EXTENDS Findings, FiniteSets

\* A file with every finding failing it.
Clean(added) == Verdict(added = <<>>, added)

-----------------------------------------------------------------------------
\* Source packages.

\* lines: those of the %files sections.  Once a line was one to ignore,
\* all that follow are.
files_driver(f) ==
    LET read == {i \in DOMAIN f.lines : \A j \in 1 .. i : f.lines[j] # "ignored"}
    IN  Clean(Times(Cardinality({i \in read : f.lines[i] = "forbidden"}), Verify))

\* release: the Release line or, without one, the last line looked at.
disttag_driver(f) == Clean(When(f.release = "other", Final))

\* specgood is set by the first spec file that is named well, for all.
specname_driver(f, specgood) == Clean(When(~(f.matches \/ specgood), Final))

\* change: what became of a source archive.
upstream_driver(f, lenient) ==
    LET added == When(f.change # "none", IF lenient THEN Inform ELSE Verify)
    IN  Verdict(~Failing(added), added)

\* A patch that the spec file names and the package has not, one that is no
\* longer there, or one that is: sizes below 4 are corrupt.  unhandled: the
\* former was found before, whose severity the removed ones take over.
\* readable: the patch and its peer can be uncompressed; if not, the failure
\* is not reported and, without the former, not returned either.
patches_driver(f, unhandled) ==
    LET macro == When(f.macro = "missing", Verify) \o When(f.macro = "undefined", Bad)
        corrupt == When(f.size < 4, Bad) \o When(f.peer /\ f.before_size < 4, Bad)
        compared == When(f.comparison /\ (~f.peer \/ f.changed), Inform)
        found == IF ~f.readable THEN <<>>
                 ELSE IF corrupt # <<>> THEN corrupt ELSE compared \o Inform
    IN  CASE f.kind = "unhandled" -> Verdict(FALSE, Verify)
          [] f.kind = "removed" ->
                Verdict(~unhandled, IF unhandled THEN Verify ELSE Inform)
          [] f.kind = "patch" ->
                Verdict(~unhandled \/ (f.readable /\ corrupt = <<>>), macro \o found)

-----------------------------------------------------------------------------
\* Headers of packages.

\* words: the fields with a bad word; changed: the texts that changed.
metadata_item(p, rebase) ==
    LET after == When(p.vendor = "unset", Inform)
                 \o When(p.vendor = "other", Final)
                 \o When(p.foreign_host, Final)
                 \o Times(Cardinality(p.words), Final)
        vendor == When(p.peer /\ p.vendor_changed,
                       <<Entry(IF rebase THEN RESULT_INFO ELSE RESULT_VERIFY, "anyone")>>)
        added == after \o vendor \o When(p.peer, Times(Cardinality(p.changed), Inform))
    IN  Verdict(~Failing(added), added)

\* noted: the changelog was lost or gained, is missing or not new (source
\* package), or modified (binary package); then the words of each entry.
changelog_item(p) ==
    Verdict(p.bad_words + p.forbidden = 0,
            When(p.noted, Inform) \o Times(p.bad_words, Final) \o Times(p.forbidden, Verify))

\* The packages of a module, then what its metadata says of static_context.
modularity_item(p) ==
    IF p.kind = "package"
    THEN Clean(When(~p.label, Final) \o When(p.rule /\ ~p.release, Final))
    ELSE LET wrong == \/ p.static /\ p.context = "forbidden"
                      \/ ~p.static /\ p.context = "required"
         IN  Verdict(~wrong, IF wrong THEN Verify ELSE Inform)

\* license: "none", "unbalanced" parentheses, or the numbers of tokens that
\* are not approved and of misspelt booleans.  Legacy and SPDX tags together
\* are reported and leave the license valid.
valid_license(p) == p.license = "tokens" /\ p.unapproved + p.booleans = 0

license_item(p) ==
    LET tokens == Times(p.unapproved + p.booleans, Final) \o When(p.mixed, Final)
        added == IF p.license = "none" THEN Final
                 ELSE When(p.license = "tokens", tokens)
                      \o When(valid_license(p), Inform)
                      \o When(p.bad_word, Final)
    IN  Verdict(~Failing(added), added)

\* What check_peer_license() returns 1 for.
counts_as_good(p) == p.license = "none" \/ valid_license(p) \/ p.bad_word

-----------------------------------------------------------------------------
\* ELF files and their relatives.  NEEDED entries are compared between two
\* reads of the same file.
dsodeps_driver(f) ==
    LET before_needed == f.needed
        after_needed == f.needed
    IN  Clean(When(f.peer /\ before_needed \ after_needed # {}, Verify)
              \o When(f.peer /\ after_needed \ before_needed # {}, Verify))

\* symbols: the bad ones.  Those of an archive are looked for and dropped.
lto_driver(f) == Clean(When(~f.archive, Times(f.symbols, Final)))

badfuncs_driver(f) == Clean(When(f.used \ f.allowed # {}, Verify))

\* Parameters, dependencies and aliases that changed.
kmod_driver(f) == Verdict(TRUE, When(f.peer, Times(f.changes, Inform)))

\* Entries of a run path: "allowed", in the "build", or "elsewhere".
runpath_driver(f) ==
    LET strange(path) == Cardinality({i \in DOMAIN path : path[i] = "elsewhere"})
    IN  Clean(When(f.rpath # <<>> /\ f.runpath # <<>>, Final)
              \o Times(strange(f.rpath) + strange(f.runpath), Verify))

\* sections, before: those of the sections wanted that the file and its peer
\* have.
debuginfo_driver(f) ==
    LET lacks == f.wanted \ f.sections # {}
        lacked == f.wanted \ f.before # {}
        has == f.sections # {}
        state == When(IF f.debugpkg THEN lacks ELSE has /\ ~f.guile, Bad)
        change == IF ~f.peer THEN <<>>
                  ELSE When(lacked /\ ~lacks /\ has, IF f.debugpkg THEN Inform ELSE Bad)
                       \o When(~lacked /\ lacks, IF f.debugpkg THEN Bad ELSE Inform)
        added == state \o change \o When(~f.debugpkg /\ f.go, Verify)
    IN  Verdict(~Failing(added), added)

\* exit: the bits of the exit code.  listed: the package has an entry in the
\* list of ABI levels, above the threshold of the configuration.
abidiff_driver(f, rebase) ==
    LET differs == f.exit \cap {"change", "incompatible"} # {}
        worse == (differs /\ ~rebase) \/ (~differs /\ "usage" \in f.exit)
        severity == IF worse /\ ~f.listed THEN RESULT_VERIFY ELSE RESULT_INFO
    IN  Clean(When(f.peer /\ (differs \/ "usage" \in f.exit),
                   <<Entry(severity, IF worse THEN "anyone" ELSE "not")>>))

\* Differences are looked at only if the bit of an error is set.
kmidiff_driver(f) == Clean(When(f.peer /\ f.kernel /\ "error" \in f.exit, Verify))

\* stack: what is true of the GNU-stack note.
inspect_elf_execstack(f) ==
    IF ~f.program THEN <<>>
    ELSE IF "present" \notin f.stack
         THEN When(~f.rel, Security(f, "execstack"))
         ELSE When("valid" \notin f.stack, Security(f, "execstack"))
              \o When("executable" \in f.stack, Security(f, "execstack"))

\* relro: "none", "partial" or "full", before and after.
check_relro(f) ==
    When(\/ f.before_relro = "full" /\ f.relro = "partial"
         \/ f.before_relro # "none" /\ f.relro = "none",
         Security(f, "relro"))

elf_driver(f) ==
    IF f.archive
    THEN LET added == When(f.peer /\ f.lost_pic, Security(f, "pic"))
         IN  Verdict(~(f.peer /\ f.lost_pic)
                     \/ get_secrule_result_severity(f, "pic") = RESULT_SKIP, added)
    ELSE Clean(inspect_elf_execstack(f)
               \o When(f.textrel /\ ~(f.peer /\ f.before_textrel), Security(f, "textrel"))
               \o When(f.peer, check_relro(f)))

\* tests: those of the configuration.  entry is the variable params, which
\* the tests of a file share, as they do the result: the last one decides.
annocheck_driver(f, failing) ==
    LET fortify == get_secrule_result_severity(f, "fortifysource")
        Add(s) == [s EXCEPT !.added = Append(@, s.entry)]
        Set(s, entry) == [s EXCEPT !.entry = entry]
        Judge(s) == [s EXCEPT !.ok = s.entry.severity < RESULT_VERIFY]
        Compare(s, t) ==
            IF f.ignored THEN s
            ELSE IF t.fails THEN Add(Judge(Set(s, Entry(failing, "anyone")))) ELSE Add(s)
        Fortify(s, t) ==
            IF ~t.fortify THEN s
            ELSE LET set == Set(s, Entry(fortify, "security")) IN
                 IF fortify \in {RESULT_NULL, RESULT_SKIP} THEN set ELSE Add(Judge(set))
        after[n \in 0 .. Len(f.tests)] ==
            IF n = 0 THEN [entry |-> Inform[1], ok |-> TRUE, added |-> <<>>]
            ELSE Fortify(Compare(after[n - 1], f.tests[n]), f.tests[n])
        end == after[Len(f.tests)]
    IN  Verdict(end.ok, end.added)

-----------------------------------------------------------------------------
\* Text and other files.
movedfiles_driver(f, rebase) ==
    Clean(When(f.peer /\ f.moved, IF rebase THEN Inform ELSE Verify))

\* entries: the lines of the list whose pattern matches, with a wildcard or
\* with the digest of this file or another.  Digests go before wildcards
\* and, among equals, the last line decides.
politics_driver(f) ==
    LET Kind(k) == {i \in DOMAIN f.entries : f.entries[i].digest = k}
        matching == IF Kind("same") # {} THEN Kind("same") ELSE Kind("any")
        last == CHOOSE i \in matching : \A j \in matching : j <= i
        allowed == f.entries[last].allowed
    IN  IF matching = {} THEN Quiet
        ELSE Verdict(allowed, IF allowed THEN Inform ELSE Final)

udevrules_driver(f) == Verdict(f.valid, IF f.valid THEN Inform ELSE Bad)

xml_driver(f) ==
    Verdict(f.xml # "malformed",
            When(f.xml = "invalid", Inform) \o When(f.xml = "malformed", Verify))

manpage_driver(f) == Clean(Times(Cardinality(f.errors), Verify))

\* A jar has several classes; jar_result is never set back, so that a jar
\* with a bad class fails all that follow.  unpacked: there was
\* "no_directory" for it, it is "no_archive", or all was "done".
javabytecode_driver(f, jar_result) ==
    LET wrong(c) == \/ c \in {"unreadable", "old"}
                    \/ c = "changed" /\ f.peer /\ ~f.jar
        added == Times(Cardinality({i \in DOMAIN f.classes : wrong(f.classes[i])}), Bad)
    IN  IF f.jar /\ f.unpacked = "no_directory" THEN Verdict(FALSE, <<>>)
        ELSE IF f.jar /\ f.unpacked = "no_archive" THEN Quiet
        ELSE Verdict(added = <<>> /\ (f.jar => jar_result), added)

\* syntax: "valid", "extglob" (for bash -n only with that option) or
\* "invalid".  A script that needs the option fails, whatever is added.
shellsyntax_driver(f) ==
    LET was_script == f.peer /\ f.before_shell # "none"
        shells == When(f.peer /\ f.shell # f.before_shell, Inform)
        compared == IF f.syntax = "invalid" THEN Bad ELSE When(~f.before_valid, Inform)
        alone == When(f.syntax = "extglob", Inform) \o When(f.syntax = "invalid", Bad)
    IN  Verdict(f.syntax = "valid", shells \o (IF was_script THEN compared ELSE alone))

\* exec, icon: what became of the search for them.
desktop_driver(f) ==
    LET exec == When(f.exec = "unexecutable" \/ (f.exec = "missing" /\ ~f.tryexec), Verify)
                \o When(f.exec = "missing" /\ f.tryexec, Inform)
        contents == exec \o When(f.icon \in {"unreadable", "missing"}, Verify)
    IN  Verdict(f.valid /\ contents = <<>>,
                When(f.output, IF f.valid THEN Inform ELSE Bad) \o contents)
=============================================================================
