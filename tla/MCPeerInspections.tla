------------------------- MODULE MCPeerInspections -------------------------
(* Every inspection on one file of every kind, and on two files of which   *)
(* the first is one of some earlier ones.                                  *)
EXTENDS PeerInspections, TLC

Rule(types, severity) == [t \in types |-> severity]
NoRules == Rule({}, 0)
Rules(types) == {NoRules} \cup {Rule(types, s) : s \in {RESULT_SKIP, RESULT_INFO, RESULT_VERIFY}}
SomeRules(types) == {NoRules, Rule(types, RESULT_SKIP)}

Listed == {"unlisted", "expected", "unexpected"}

Permissions ==
    {[subject |-> s, ignored |-> i, peer |-> p, rules |-> r, mode |-> m, before_mode |-> b,
      kind |-> k, listed |-> [mode |-> l]]
       : s \in {TRUE}, i, p \in BOOLEAN, r \in Rules({"modes", "worldwritable"}),
         m, b \in SUBSET {"id", "w"}, k \in {"reg", "dir", "link"}, l \in Listed}

Ownership ==
    {f \in {[subject |-> TRUE, ignored |-> i, peer |-> TRUE, rules |-> r, mode |-> m,
      forbidden |-> n, listed |-> [owner |-> o, group |-> g], bin |-> b, bin_owner |-> bo,
      bin_group |-> bg, cap_setuid |-> c, changed |-> ch]
         : i, b, bo, bg, c \in BOOLEAN, r \in SomeRules({"modes", "setuid"}),
           m \in {{}, {"id"}, {"x", "gw"}}, n \in 0 .. 1, o \in Listed,
           g \in {"unlisted", "unexpected"}, ch \in {{}, {"owner"}, {"owner", "group"}}}
       : (f.bin \/ (f.bin_owner /\ f.bin_group)) /\ (f.cap_setuid => ~f.bin_group)}

Capabilities ==
    {[subject |-> TRUE, ignored |-> i, peer |-> p, rules |-> r, mode |-> m,
      before_mode |-> {}, kind |-> "reg", listed |-> [mode |-> l, owner |-> o, group |-> "unlisted"],
      forbidden |-> 0, bin |-> FALSE, bin_owner |-> TRUE, bin_group |-> TRUE,
      cap_setuid |-> FALSE, changed |-> ch, before_caps |-> bc, caps |-> c, caps_list |-> cl]
       : i, p \in BOOLEAN, r \in SomeRules({"modes", "worldwritable", "setuid", "caps"}),
         m \in {{}, {"id"}, {"w"}}, l \in Listed, o \in {"unlisted", "expected"},
         ch \in {{}, {"owner"}}, bc, cl \in {"none", "c"}, c \in {"none", "c", "d"}}

Addedfiles ==
    {[subject |-> TRUE, ignored |-> i, forbidden |-> f, security |-> s, kind |-> k,
      origin |-> o, rules |-> r]
       : i, f, s \in BOOLEAN, k \in {"reg", "link"}, r \in Rules({"securitypath"}),
         o \in {"kept", "renamed", "new", "single"}}

Removedfiles ==
    {f \in {[subject |-> TRUE, ignored |-> i, peer |-> p, sentry |-> y, security |-> s,
             rules |-> r] : i, p, y, s \in BOOLEAN, r \in Rules({"securitypath"})}
       : ~f.sentry => f.rules = NoRules}

Changedfiles ==
    {f \in {[subject |-> TRUE, ignored |-> i, peer |-> p, security |-> s, content |-> c,
             change |-> ch, rules |-> NoRules]
              : i, p, s \in BOOLEAN, c \in {"compressed", "mo", "header", "other"},
                ch \in {"none", "bytes", "content", "broken"}}
       : f.change = "broken" => f.content = "mo"}

Marked ==
    {[subject |-> TRUE, ignored |-> i, peer |-> p, marked |-> m, change |-> ch,
      rules |-> NoRules]
       : i, p \in BOOLEAN, m \in SUBSET {"before", "after"}, ch \in {"none", "content"}}

Docs ==
    {f \in [subject : {TRUE}, ignored : BOOLEAN, peer : BOOLEAN, rules : {NoRules},
            marked : SUBSET {"before", "after"}, change : {"none", "content"}, diff : BOOLEAN]
       : f.diff => f.change = "content"}

Types ==
    {[subject |-> TRUE, ignored |-> i, peer |-> p, change |-> ch, rules |-> NoRules]
       : i, p \in BOOLEAN, ch \in {"none", "bytes", "content"}}

Filesize ==
    {[subject |-> TRUE, ignored |-> i, peer |-> p, size |-> n, before_size |-> b,
      rules |-> NoRules]
       : i, p \in BOOLEAN, n \in {0, 100, 119, 120, 1001}, b \in {0, 100, 1000}}

Pathmigration ==
    {[subject |-> TRUE, ignored |-> i, migrates |-> m, rules |-> NoRules] : i, m \in BOOLEAN}

Symlinks ==
    {[subject |-> s, ignored |-> i, was |-> w, target |-> t, rules |-> NoRules]
       : s, i \in BOOLEAN, w \in {"none", "dir", "file"},
         t \in {"unreadable", "unresolvable", "reachable", "dangling", "loop"}}

Packages ==
    {p \in {[subject |-> s, ignored |-> FALSE, before |-> b, after |-> a, expected |-> e,
             ghosts |-> g, rules |-> NoRules]
              : s, e, g \in BOOLEAN, b, a \in {"none", "empty", "full"}}
       : {p.before, p.after} # {"none"}}

Unicode ==
    {f \in {[subject |-> s, ignored |-> i, spec |-> x, prepared |-> p, in_tree |-> t,
             in_file |-> n, rules |-> r]
              : s, i, x, p, t, n \in BOOLEAN, r \in Rules({"unicode"})}
       : (~f.spec => f.prepared) /\ (f.in_tree => f.spec)}

-----------------------------------------------------------------------------
Yes == {TRUE}
No == {FALSE}
None == {NoRules}

\* moved_path is never set.
Movedfiles == [subject : Yes, ignored : BOOLEAN, peer : BOOLEAN, rules : None,
               moved : {FALSE}]

Specs == [subject : Yes, ignored : No, peer : BOOLEAN, rules : None,
          lines : {<<>>, <<"forbidden">>, <<"ignored", "forbidden">>, <<"forbidden", "other", "forbidden">>}]
Disttag == [subject : Yes, ignored : No, peer : BOOLEAN, rules : None, source : BOOLEAN,
            release : {"dist", "autorelease", "other"}]
Specname == [subject : Yes, ignored : BOOLEAN, peer : BOOLEAN, rules : None,
             matches : BOOLEAN]
Upstream == [subject : Yes, ignored : BOOLEAN, peer : BOOLEAN, rules : None,
             change : {"none", "appeared", "changed", "removed"}]
Patches ==
    [subject : Yes, ignored : No, peer : BOOLEAN, rules : None,
     kind : {"unhandled", "removed"}] \cup
    [subject : Yes, ignored : No, peer : BOOLEAN, rules : None, kind : {"patch"},
     macro : {"applied", "missing", "undefined"}, readable : BOOLEAN, size : {3, 4}, before_size : {3, 4},
     comparison : BOOLEAN, changed : BOOLEAN]

Metadata ==
    [subject : Yes, ignored : No, peer : BOOLEAN, rules : None,
     vendor : {"same", "unset", "other"}, vendor_changed : BOOLEAN,
     foreign_host : BOOLEAN, words : {{}, {"Summary", "Description"}},
     changed : {{}, {"Description"}}]
Changelog == [subject : Yes, ignored : No, peer : BOOLEAN, rules : None, noted : BOOLEAN,
              bad_words : 0 .. 1, forbidden : 0 .. 2]
Modularity ==
    [subject : Yes, ignored : No, peer : BOOLEAN, rules : None, kind : {"package"},
     label : BOOLEAN, rule : BOOLEAN, release : BOOLEAN] \cup
    [subject : Yes, ignored : No, peer : BOOLEAN, rules : None, kind : {"metadata"},
     static : BOOLEAN, context : {"required", "forbidden", "none"}]
License ==
    [subject : Yes, ignored : No, peer : BOOLEAN, rules : None,
     license : {"none", "unbalanced"}, bad_word : {FALSE}, mixed : {FALSE},
     unapproved : {0}, booleans : {0}] \cup
    [subject : Yes, ignored : No, peer : BOOLEAN, rules : None, license : {"tokens"},
     bad_word : BOOLEAN, mixed : BOOLEAN, unapproved : 0 .. 2, booleans : 0 .. 1]

Dsodeps == [subject : Yes, ignored : BOOLEAN, peer : BOOLEAN, rules : None,
            needed : SUBSET {"a", "b"}, before_needed : SUBSET {"a", "b"}]
Lto == [subject : Yes, ignored : BOOLEAN, peer : BOOLEAN, rules : None, symbols : 0 .. 2,
        archive : BOOLEAN]
Badfuncs == [subject : Yes, ignored : BOOLEAN, peer : BOOLEAN, rules : None,
             used : SUBSET {"f", "g"}, allowed : {{}, {"f"}}]
Kmod == [subject : Yes, ignored : BOOLEAN, peer : BOOLEAN, rules : None,
         changes : 0 .. 2]
Runpath ==
    LET paths == {<<>>, <<"allowed">>, <<"elsewhere">>, <<"build", "elsewhere">>}
    IN  [subject : Yes, ignored : BOOLEAN, peer : BOOLEAN, rules : None, rpath : paths,
         runpath : paths]
Debuginfo ==
    LET sections == SUBSET {"symtab", "debug_info"}
    IN  [subject : Yes, ignored : BOOLEAN, peer : BOOLEAN, rules : None,
         wanted : {{"symtab", "debug_info"}}, sections : sections, before : sections,
         debugpkg : BOOLEAN, guile : BOOLEAN, go : BOOLEAN]
Exits == SUBSET {"error", "usage", "change", "incompatible"}
Abidiff == [subject : Yes, ignored : BOOLEAN, peer : BOOLEAN, rules : None, exit : Exits,
            listed : BOOLEAN]
Kmidiff == [subject : Yes, ignored : BOOLEAN, peer : BOOLEAN, rules : None, exit : Exits,
            kernel : BOOLEAN]
Elf ==
    [subject : Yes, ignored : BOOLEAN, peer : BOOLEAN, rules : Rules({"execstack", "relro", "pic", "textrel"}),
     archive : {TRUE}, lost_pic : BOOLEAN] \cup
    [subject : Yes, ignored : BOOLEAN, peer : BOOLEAN,
     rules : Rules({"execstack", "relro", "pic", "textrel"}), archive : {FALSE},
     program : {TRUE}, rel : BOOLEAN,
     stack : {{}, {"present", "valid"}, {"present", "executable"}}, textrel : BOOLEAN,
     before_textrel : BOOLEAN, relro : {"none", "partial", "full"},
     before_relro : {"none", "partial", "full"}]
Annocheck ==
    LET test == [fails : BOOLEAN, fortify : BOOLEAN]
    IN  [subject : Yes, ignored : BOOLEAN, peer : BOOLEAN,
         rules : Rules({"fortifysource"}),
         tests : {<<t>> : t \in test} \cup (test \X test)]

Politics ==
    LET entry == [digest : {"any", "same", "other"}, allowed : BOOLEAN]
    IN  [subject : Yes, ignored : BOOLEAN, peer : BOOLEAN, rules : None,
         entries : {<<>>} \cup {<<e>> : e \in entry} \cup (entry \X entry)]
Udevrules == [subject : Yes, ignored : BOOLEAN, peer : BOOLEAN, rules : None,
              valid : BOOLEAN]
Xml == [subject : Yes, ignored : BOOLEAN, peer : BOOLEAN, rules : None,
        xml : {"valid", "invalid", "malformed"}]
Manpage == [subject : Yes, ignored : BOOLEAN, peer : BOOLEAN, rules : None,
            errors : SUBSET {"path", "gzip", "syntax"}]
Javabytecode ==
    LET class == {"fine", "unreadable", "old", "changed"}
    IN  [subject : Yes, ignored : BOOLEAN, peer : BOOLEAN, rules : None, jar : {FALSE},
         unpacked : {"done"}, classes : {<<c>> : c \in class}] \cup
        [subject : Yes, ignored : BOOLEAN, peer : BOOLEAN, rules : None, jar : {TRUE},
         unpacked : {"no_directory", "no_archive", "done"}, classes : class \X class]
Shellsyntax ==
    [subject : Yes, ignored : BOOLEAN, peer : BOOLEAN, rules : None,
     shell : {"sh", "bash"}, before_shell : {"none", "sh"},
     syntax : {"valid", "extglob", "invalid"}, before_valid : BOOLEAN]
Desktop ==
    {f \in [subject : Yes, ignored : BOOLEAN, peer : BOOLEAN, rules : None,
            exec : {"fine", "unexecutable", "missing"}, tryexec : BOOLEAN,
            icon : {"fine", "unreadable", "missing"}, valid : BOOLEAN, output : BOOLEAN] : ~f.valid => f.output}

MCItems ==
    [permissions |-> Permissions, ownership |-> Ownership,
     capabilities |-> Capabilities, addedfiles |-> Addedfiles,
     removedfiles |-> Removedfiles, changedfiles |-> Changedfiles,
     config |-> Marked, doc |-> Docs, types |-> Types, filesize |-> Filesize,
     pathmigration |-> Pathmigration, symlinks |-> Symlinks,
     subpackages |-> Packages, lostpayload |-> Packages, emptyrpm |-> Packages,
     unicode |-> Unicode, movedfiles |-> Movedfiles, files |-> Specs,
     disttag |-> Disttag, specname |-> Specname, upstream |-> Upstream,
     patches |-> Patches, metadata |-> Metadata, changelog |-> Changelog,
     modularity |-> Modularity, license |-> License, dsodeps |-> Dsodeps,
     lto |-> Lto, badfuncs |-> Badfuncs, kmod |-> Kmod, runpath |-> Runpath,
     debuginfo |-> Debuginfo, abidiff |-> Abidiff, kmidiff |-> Kmidiff,
     elf |-> Elf, annocheck |-> Annocheck, politics |-> Politics,
     udevrules |-> Udevrules, xml |-> Xml, manpage |-> Manpage,
     javabytecode |-> Javabytecode, shellsyntax |-> Shellsyntax,
     desktop |-> Desktop]

\* The first of two files: one that is fine, or one that is reported.
Earlier(items) == {f \in items : ~f.ignored /\ f.rules = NoRules}
First ==
    [i \in {"removedfiles", "changedfiles", "config", "doc", "types", "filesize",
            "pathmigration", "symlinks", "subpackages", "lostpayload",
            "emptyrpm", "unicode", "movedfiles", "files", "disttag", "specname",
            "upstream", "lto", "badfuncs", "kmod", "kmidiff", "udevrules", "xml",
            "manpage", "javabytecode", "shellsyntax"}
        |-> Earlier(MCItems[i])]
    @@ [permissions |->
            {f \in Earlier(Permissions) : f.peer /\ f.kind = "reg" /\ f.before_mode = {}
             /\ f.listed.mode = "unlisted"},
        ownership |->
            {f \in Earlier(Ownership) : f.mode = {} /\ ~f.bin /\ f.forbidden = 0 /\ f.changed = {}
             /\ f.listed.group = "unlisted" /\ f.listed.owner # "unexpected"},
        capabilities |->
            {f \in Earlier(Capabilities) : f.peer /\ f.mode = {} /\ f.changed = {}
             /\ f.caps = f.before_caps /\ f.caps_list = "none"
             /\ f.listed.mode = "unlisted"},
        addedfiles |->
            {f \in Earlier(Addedfiles) : f.kind = "reg"},
        patches |->
            {f \in Patches : f.kind # "patch" \/ f.macro = "applied"},
        metadata |->
            {p \in Metadata : p.words = {}},
        changelog |->
            Changelog,
        modularity |->
            Modularity,
        license |->
            {p \in License : ~p.bad_word},
        dsodeps |->
            {f \in Dsodeps : ~f.ignored /\ f.needed = {}},
        runpath |->
            {f \in Earlier(Runpath) : f.rpath = <<>>},
        debuginfo |->
            {f \in Earlier(Debuginfo) : ~f.guile /\ ~f.go /\ f.before = {}},
        abidiff |->
            {f \in Earlier(Abidiff) : ~f.listed},
        elf |->
            {f \in Earlier(Elf) : f.archive \/ (f.peer /\ f.stack = {"present", "valid"} /\ f.textrel = f.before_textrel
             /\ f.relro = "full" /\ f.before_relro = "full" /\ ~f.rel)},
        annocheck |->
            {f \in Earlier(Annocheck) : Len(f.tests) = 1},
        politics |->
            {f \in Earlier(Politics) : Len(f.entries) < 2},
        desktop |->
            {f \in Earlier(Desktop) : ~f.tryexec /\ f.icon # "unreadable"}]

\* A rebase, a threshold and what is needed matter to some inspections only.
MCSettings ==
    LET Pair(changed, listed) ==
            [detection |-> TRUE, pair |-> TRUE, differs |-> changed, listed |-> listed]
        Set(build, asked, threshold, able, severity, there) ==
            [build |-> build, asked |-> asked, size_threshold |-> threshold, rebaseable |-> able,
             failure_severity |-> severity, ready |-> there]
        same == Pair(FALSE, FALSE)
        plain == Set(same, TRUE, 20, FALSE, RESULT_VERIFY, TRUE)
        rebase_ == Set(Pair(TRUE, FALSE), FALSE, 0, FALSE, RESULT_BAD, TRUE)
        listed == Set(Pair(FALSE, TRUE), FALSE, 20, FALSE, RESULT_VERIFY, TRUE)
        other == Set(same, TRUE, -1, TRUE, RESULT_OK, TRUE)
        unready == Set(same, TRUE, 20, FALSE, RESULT_VERIFY, FALSE)
    IN  [i \in DOMAIN MCItems |->
            {plain}
            \cup (IF i \in {"addedfiles", "removedfiles", "changedfiles", "movedfiles",
                            "config", "doc", "filesize", "subpackages", "lostpayload",
                            "upstream", "metadata", "abidiff", "annocheck"}
                  THEN {rebase_} ELSE {})
            \cup (IF i \in {"addedfiles", "changedfiles", "config", "doc", "metadata", "abidiff"}
                  THEN {listed} ELSE {})
            \cup (IF i \in {"filesize", "upstream", "annocheck"} THEN {other} ELSE {})
            \cup (IF i \in DOMAIN needs THEN {unready} ELSE {})]

\* The inspection of %config files alone, of a package that is rebaseable.
ConfigItems == [config |-> MCItems.config]

\* Lists of up to two files.
MCInit ==
    /\ Start
    /\ \/ files = <<>>
       \/ \E f \in Items[insp] : files = <<f>>
       \/ \E e \in First[insp] :
             \/ files = <<[e EXCEPT !.subject = FALSE]>>
             \/ \E f \in Items[insp] : files = <<e, f>>

MCSpec == MCInit /\ [][Next]_vars
=============================================================================
