------------------------------- MODULE Config -------------------------------
(***************************************************************************)
(* The configuration files of a run, as main() and init_rpminspect()       *)
(* (lib/init.c) read them one over the other.  A file is a record:         *)
(*   malformed, empty    it cannot be parsed; it has no line               *)
(*   product_release     environment: product_release, or Unset            *)
(*   inspections         the flags of the inspections: section             *)
(*   products            the rules of the products: section, a sequence of *)
(*                       records [key, value]; a value is the set of dist  *)
(*                       tags that its regular expression matches          *)
(* The files a run can find are a record, too:                             *)
(*   option      what -c names: <<>> without -c, else the file or Missing  *)
(*   vendor      the default file of the vendor                            *)
(*   releases    the profile of each product release                       *)
(*   profile     what -p names, as for -c                                  *)
(*   local       rpminspect.yaml in the current directory                  *)
(***************************************************************************)
EXTENDS Integers, Sequences

CONSTANTS
    Inspections,    \* inspections[]: name, security_checks, single_build
    Missing

ASSUME ConfigAssumption ==
    /\ Inspections \in Seq([name : STRING, security_checks : BOOLEAN, single_build : BOOLEAN])
    /\ Inspections # <<>>

RI_SUCCESS == 0
RI_PROGRAM_ERROR == 2
RI_MISSING_PROFILE == 3

Unset == 0
Unmatched == -1

Names == {Inspections[i].name : i \in DOMAIN Inspections}

security_checks(name) ==
    \E i \in DOMAIN Inspections : Inspections[i].name = name /\ Inspections[i].security_checks

\* Faulty variant: an inspection with security checks can be excluded.
FlagWithoutSecurity(selected, name, exclude) ==
    IF name = "ALL"
    THEN IF exclude THEN {} ELSE Names
    ELSE IF exclude THEN selected \ {name} ELSE selected \cup {name}

\* The flag of one name, from the option's list or a configuration file.
process_inspection_flag(selected, name, exclude) ==
    IF name = "ALL"
    THEN IF exclude THEN {} ELSE Names
    ELSE IF exclude /\ ~security_checks(name)
         THEN selected \ {name}
         ELSE selected \cup {name}

\* The flags of a section one after the other.
handle_inspections(selected, flags) ==
    LET left[n \in 0 .. Len(flags)] ==
            IF n = 0 THEN selected
            ELSE process_inspection_flag(left[n - 1], flags[n].name, flags[n].exclude)
    IN  left[Len(flags)]

\* A key that the table has gets the new value after the old one and a space;
\* the section does not ask for a single value or for a key that is there.
process_table(table, rule) ==
    IF \E i \in DOMAIN table : table[i].key = rule.key
    THEN [i \in DOMAIN table |->
             IF table[i].key = rule.key
             THEN [table[i] EXCEPT !.values = Append(@, rule.value)]
             ELSE table[i]]
    ELSE Append(table, [key |-> rule.key, values |-> <<rule.value>>])

\* The rules of a section one after the other.
process_products(table, rules) ==
    LET grown[n \in 0 .. Len(rules)] ==
            IF n = 0 THEN table ELSE process_table(grown[n - 1], rules[n])
    IN  grown[Len(rules)]

\* The settings before any file is read.
xalloc_rpminspect == [tests |-> Names, product_release |-> Unset, products |-> <<>>]

\* A malformed file is ignored as a whole.
read_cfgfile(settings, file) ==
    IF file.malformed THEN settings
    ELSE [tests |-> handle_inspections(settings.tests, file.inspections),
          product_release |-> IF file.product_release = Unset THEN settings.product_release
                              ELSE file.product_release,
          products |-> process_products(settings.products, file.products)]

\* The main file: the vendor's if -c names none, the one in the current
\* directory if there is no such file.
main_file(cfg) ==
    IF cfg.option = <<>> /\ cfg.vendor # Missing THEN cfg.vendor
    ELSE IF cfg.option \notin {<<>>, <<Missing>>} THEN cfg.option[1]
    ELSE cfg.local

\* What may be found: releases has an entry for each product release that the
\* main file may name.
ConfigFile == [malformed : BOOLEAN, empty : BOOLEAN, product_release : Nat,
               inspections : Seq([name : STRING, exclude : BOOLEAN]),
               products : Seq([key : Nat, value : SUBSET Nat])]
Found == ConfigFile \cup {Missing}

IsConfiguration(cfg) ==
    LET main == main_file(cfg) IN
    /\ cfg.vendor \in Found /\ cfg.local \in Found
    /\ cfg.option \in Seq(Found) /\ Len(cfg.option) \in {0, 1}
    /\ cfg.profile \in Seq(Found) /\ Len(cfg.profile) \in {0, 1}
    /\ \A r \in DOMAIN cfg.releases : cfg.releases[r] \in Found
    /\ main # Missing /\ main.product_release # Unset =>
          main.product_release \in DOMAIN cfg.releases

\* The product release of the main file loads a profile, if it has one.
release_profile(cfg) ==
    LET release == read_cfgfile(xalloc_rpminspect, main_file(cfg)).product_release IN
    IF release = Unset \/ cfg.releases[release] = Missing THEN <<>>
    ELSE <<cfg.releases[release]>>

\* The files in the order they are read; the one in the current directory
\* may be the main file as well.
files_read(cfg) ==
    <<main_file(cfg)>> \o release_profile(cfg) \o cfg.profile
    \o (IF cfg.local = Missing \/ cfg.local.empty THEN <<>> ELSE <<cfg.local>>)

init_rpminspect(cfg) ==
    LET files == files_read(cfg)
        settings[n \in 0 .. Len(files)] ==
            IF n = 0 THEN xalloc_rpminspect ELSE read_cfgfile(settings[n - 1], files[n])
    IN  settings[Len(files)]

\* A flag for what is no inspection ends the program.
unknown_inspection(files) ==
    \E i \in DOMAIN files :
        /\ ~files[i].malformed
        /\ \E n \in DOMAIN files[i].inspections :
              files[i].inspections[n].name \notin Names \cup {"ALL"}

\* What ends the program while it reads them, in the order of the reading.
configuration_status(cfg) ==
    IF \/ main_file(cfg) = Missing
       \/ unknown_inspection(<<main_file(cfg)>> \o release_profile(cfg))
    THEN RI_PROGRAM_ERROR
    ELSE IF cfg.profile = <<Missing>> THEN RI_MISSING_PROFILE
    ELSE IF unknown_inspection(files_read(cfg)) THEN RI_PROGRAM_ERROR
    ELSE RI_SUCCESS

\* A dist tag without any rules is a product; else the first rule that it
\* matches has it.  A rule with a space in it matches no tag.
match_product(products, tag) ==
    LET matching == {i \in DOMAIN products : /\ Len(products[i].values) = 1
                                             /\ tag \in products[i].values[1]}
    IN  IF products = <<>> THEN tag
        ELSE IF matching = {} THEN Unmatched
        ELSE products[CHOOSE i \in matching : \A j \in matching : i <= j].key
=============================================================================
