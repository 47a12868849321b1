----------------------------- MODULE MCRpmDeps -----------------------------
(* Three families of builds: one package with up to three rules in each    *)
(* build, four packages that require each other in every way, and three    *)
(* that have epochs, macros, several providers or are gone.                *)
EXTENDS RpmDeps, SequencesExt
MCNames == {"a", "b", "c", "d", "main", "b(isa)", "(b if c)", "libl.so", "libx", "debuginfo()"}
MCTrimmed == [n \in MCNames |-> IF n = "(b if c)" THEN "b" ELSE n]
MCPeeled == [n \in MCNames |-> n]
MCBare == [n \in MCNames |-> IF n = "b(isa)" THEN "b" ELSE n]
MCIgnored == {<<"Provides", "d">>}

A(type, name, op, version) == [type |-> type, name |-> name, op |-> op, version |-> version]
Plain(type, name) == A(type, name, "none", NULL)
Requires(S) == SetToSeq({Plain("Requires", n) : n \in S})
Package(name, srpm, rules) ==
    [name |-> name, srpm |-> srpm, epoch |-> 0, debug |-> FALSE, gone |-> FALSE,
     before |-> <<>>, after |-> rules]
Build(list) == [packages |-> list, rebase |-> FALSE, module |-> FALSE, two_builds |-> FALSE]
Lib == Plain("Requires", "libl.so")
ProvidesLib == Plain("Provides", "libl.so")

Lists == UNION {[1 .. n -> {A("Requires", "b", "=", "vr"), A("Requires", "b", "=", "other"),
                            Plain("Requires", "(b if c)"), Plain("Provides", "b")}] : n \in 0 .. 3}
         \cup {<<Plain("Requires", "debuginfo()"), Plain("Provides", "d")>>}
Pairings ==
    {[Build(<<[Package("a", NULL, new) EXCEPT !.before = old]>>) EXCEPT !.two_builds = TRUE] :
        old \in Lists, new \in Lists}

Direct == {<<>>, <<A("Requires", "b(isa)", "=", "vr")>>, <<A("Recommends", "b", "=", "evr")>>,
           <<A("Requires", "b", ">", "vr")>>, <<A("Requires", "b", "=", "other")>>}
Chains ==
    {Build(<<[Package("a", "main", <<Lib>> \o Requires(own) \o rule) EXCEPT !.debug = debug],
             Package("c", "main", Requires(of_c)), Package("d", "main", Requires(of_d)),
             Package("b", "main", <<ProvidesLib>> \o Requires(of_b))>> \o sources) :
        own \in SUBSET {"c", "libx"}, rule \in Direct, of_c \in SUBSET {"d", "b(isa)", "main"},
        of_d \in SUBSET {"b", "c"}, of_b \in SUBSET {"a"}, debug \in BOOLEAN,
        sources \in {<<>>, <<Package("main", NULL, <<>>)>>}}

Mixtures ==
    {[packages |->
        <<[Package("a", "main", <<Lib, rule>>) EXCEPT !.before = <<Lib>>],
          [Package("b", "main", <<ProvidesLib>>) EXCEPT !.epoch = epoch],
          [Package("c", srpm, IF gone THEN <<>> ELSE of_c) EXCEPT
              !.gone = gone, !.before = of_c]>>,
      rebase |-> rebase, module |-> module, two_builds |-> two_builds] :
        rule \in {A("Requires", "b", "=", v) : v \in {"vr", "evr", "macro"}}
                 \cup {Plain("Requires", "a")},
        epoch \in 0 .. 1, srpm \in {"main", "d"}, gone \in BOOLEAN,
        of_c \in {<<ProvidesLib>>, <<Lib, ProvidesLib>>, <<Plain("Provides", "b")>>},
        rebase \in BOOLEAN, module \in BOOLEAN, two_builds \in BOOLEAN}

MCInputs == Pairings \cup Chains \cup Mixtures
=============================================================================
