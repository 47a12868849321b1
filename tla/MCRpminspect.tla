---------------------------- MODULE MCRpminspect ----------------------------
(* Three inspections and seven families of invocations: one that varies     *)
(* what is gathered, one what Koji answers, one the types of the builds,    *)
(* one the selection, one the product release, one the report, and one the  *)
(* configuration files.                                                     *)
EXTENDS Rpminspect

MCInspections ==
    << [name |-> "changedfiles", security_checks |-> TRUE, single_build |-> FALSE],
       [name |-> "disttag", security_checks |-> FALSE, single_build |-> TRUE],
       [name |-> "virus", security_checks |-> TRUE, single_build |-> TRUE] >>

NoSetting == [malformed |-> FALSE, empty |-> FALSE, product_release |-> Unset,
         inspections |-> <<>>, products |-> <<>>]
Vendor(file) == [option |-> <<>>, vendor |-> file, releases |-> [r \in 1 .. 2 |-> Missing],
                 profile |-> <<>>, local |-> Missing]
Rules(tags) == [i \in DOMAIN tags |-> [key |-> i, value |-> tags[i]]]

Answer == [complete |-> TRUE, extra |-> <<>>, tagged |-> {}, filter |-> {}, nvr |-> FALSE,
           srpms |-> TRUE]

Plain == [n |-> 2, fetch_only |-> FALSE, kind |-> <<"build", "build">>,
          content |-> << <<"src">>, <<"src">> >>, arches |-> {"src", "lib"},
          cfg |-> Vendor(NoSetting), option |-> "none", list |-> <<>>,
          threshold |-> RESULT_VERIFY, suppress |-> 0, keep |-> FALSE,
          format |-> "text", writable |-> TRUE,
          koji |-> <<Answer, Answer>>, buildtype |-> KOJI_BUILD_NULL, modulemd |-> {},
          release |-> 1, rel |-> <<1, 1>>, favor |-> "none"]

Contents(kind) ==
    CASE kind = "remote rpm" -> {<<"lib">>}
      [] kind = "task" -> {<<"src", "src">>, <<"lib", "lib">>, <<"src", "lib">>}
      [] OTHER -> {<<"src", "lib">>, <<"lib">>}

Gathering ==
    UNION {{[Plain EXCEPT !.n = n, !.fetch_only = f, !.kind = <<k, l>>,
                          !.content = <<c, d>>, !.arches = a, !.list = <<>>]
              : c \in Contents(k), d \in Contents(l)}
           : n \in 1 .. 2, f \in BOOLEAN, a \in {{"lib"}, {"src", "lib"}},
             k, l \in {"local", "remote rpm", "task", "build", "unknown"}}

Url == [members |-> 1, modulemd |-> FALSE]
Wrapped == [members |-> 1, modulemd |-> TRUE]
Module == [members |-> 2, modulemd |-> TRUE]
Answers ==
    {Answer, [Answer EXCEPT !.complete = FALSE], [Answer EXCEPT !.extra = <<Url>>]}
    \cup {[Answer EXCEPT !.extra = e, !.tagged = 1 .. 2, !.filter = f]
            : e \in {<<Wrapped>>, <<Module, Url>>, <<Url, Module>>}, f \in {{}, {"lib"}, Malformed}}
    \cup {[Answer EXCEPT !.extra = <<Wrapped>>, !.tagged = {2}, !.filter = {"lib"}],
          [Answer EXCEPT !.nvr = TRUE], [Answer EXCEPT !.nvr = TRUE, !.srpms = FALSE],
          [Answer EXCEPT !.srpms = FALSE]}
Asking ==
    {[Plain EXCEPT !.n = n, !.kind = <<k, l>>, !.koji = <<a, b>>, !.buildtype = t, !.arches = r,
                   !.content = << <<"src", "lib">>, <<"src", "lib">> >>,
                   !.option = "T", !.list = <<"disttag">>]
       : n \in 1 .. 2, k, l \in {"build", "task"}, a \in Answers,
         b \in {Answer, [Answer EXCEPT !.extra = <<Wrapped>>, !.tagged = 1 .. 2, !.filter = {"lib"}]},
         t \in koji_build_type_t, r \in {{"lib"}, {"src", "lib"}}}

Typing ==
    {[Plain EXCEPT !.kind = <<k, l>>, !.koji = <<a, b>>, !.buildtype = t, !.modulemd = m,
                   !.content = << <<"src", "lib">>, <<"src", "lib">> >>,
                   !.option = "T", !.list = <<"disttag">>]
       : k, l \in {"local", "build"}, m \in SUBSET {1, 2}, t \in koji_build_type_t,
         a, b \in {Answer, [Answer EXCEPT !.extra = <<Wrapped>>, !.tagged = {2}, !.filter = {"src"}]}}

Flags == {[name |-> "virus", exclude |-> TRUE], [name |-> "disttag", exclude |-> TRUE],
          [name |-> "ALL", exclude |-> TRUE], [name |-> "ALL", exclude |-> FALSE]}
Selecting ==
    {[Plain EXCEPT !.n = n, !.cfg = Vendor([NoSetting EXCEPT !.inspections = c]), !.option = o, !.list = l]
       : n \in 1 .. 2,
         c \in {<<>>} \cup {<<e>> : e \in Flags} \cup {<<e, f>> : e, f \in Flags},
         o \in {"T", "E"},
         l \in {<<"virus">>, <<"disttag">>, <<"ALL">>, <<"ALL", "virus">>,
                <<"disttag", "changedfiles">>, <<"virus", "disttag">>, <<"nosuch">>}}
    \cup {[Plain EXCEPT !.cfg = Vendor([NoSetting EXCEPT !.inspections = <<e>>])] : e \in Flags}

Releasing ==
    {[Plain EXCEPT !.n = n, !.release = Unset, !.rel = r, !.favor = v,
                   !.cfg = Vendor([NoSetting EXCEPT !.products = p]),
                   !.content = << <<"src">>, d >>]
       : n \in 1 .. 2, r \in (0 .. 2) \X (0 .. 2), d \in {<<"src">>, <<"lib">>},
         p \in {<<>>, Rules(<<{1}>>), Rules(<<{}>>), Rules(<<{2}, {1}>>), Rules(<<{1, 2}>>)},
         v \in {"none", "oldest", "newest"}}

Reporting ==
    {[Plain EXCEPT !.threshold = t, !.suppress = s, !.keep = k, !.option = "T",
                   !.format = f, !.writable = w,
                   !.list = <<"virus", "disttag">>]
       : t \in {RESULT_DIAG, RESULT_SKIP, RESULT_INFO, RESULT_BAD},
         s \in {0, RESULT_SKIP, RESULT_INFO, RESULT_BAD}, k \in BOOLEAN,
         f \in {"text", "json", "xunit", "summary"}, w \in BOOLEAN}

Others == {NoSetting, [NoSetting EXCEPT !.malformed = TRUE], [NoSetting EXCEPT !.product_release = 2],
           [NoSetting EXCEPT !.products = Rules(<<{2}, {1}>>)],
           [NoSetting EXCEPT !.inspections = <<[name |-> "virus", exclude |-> TRUE],
                                          [name |-> "disttag", exclude |-> FALSE]>>]}
Mains == Others \cup {[NoSetting EXCEPT !.products = Rules(<<{1}>>)],
                     [NoSetting EXCEPT !.inspections = <<[name |-> "nosuch", exclude |-> TRUE]>>],
                     [NoSetting EXCEPT !.inspections = <<[name |-> "disttag", exclude |-> TRUE]>>]}
Configuring ==
    {[Plain EXCEPT !.n = 1, !.release = r, !.rel = <<2, 1>>,
                   !.cfg = [option |-> o, vendor |-> v, profile |-> p, local |-> l,
                            releases |-> [x \in 1 .. 2 |-> IF x = 2 THEN NoSetting ELSE Missing]]]
       : r \in {Unset, 1}, o \in {<<>>, <<Missing>>, <<[NoSetting EXCEPT !.product_release = 2]>>},
         v \in Mains \cup {Missing}, p \in {<<>>, <<Missing>>} \cup {<<f>> : f \in Others},
         l \in Others \cup {Missing, [NoSetting EXCEPT !.empty = TRUE]}}

MCInvocations == Gathering \cup Asking \cup Typing \cup Selecting \cup Releasing \cup Reporting \cup Configuring
=============================================================================
