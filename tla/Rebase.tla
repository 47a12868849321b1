------------------------------- MODULE Rebase -------------------------------
(***************************************************************************)
(* lib/rebase.c: whether two builds are a rebase.  ri->rebase_build keeps  *)
(* the answer: 0 before the first call, then 1 or -1.  The list of         *)
(* rebaseable packages is asked with a name that only the first call       *)
(* reads, so what it says is not kept.  A pair of builds is a record:      *)
(*   detection   -n was not given                                          *)
(*   pair        some peer has packages of both builds                     *)
(*   differs     the versions of the first such peer differ                *)
(*   listed      its name is on the list of rebaseable packages            *)
(***************************************************************************)
EXTENDS Integers

Build == [detection : BOOLEAN, pair : BOOLEAN, differs : BOOLEAN, listed : BOOLEAN]

differs(build) == build.detection /\ build.pair /\ build.differs

\* ri->rebase_build after a call.
detected(build, rebase_build) ==
    IF rebase_build = 0 \/ ~build.detection THEN (IF differs(build) THEN 1 ELSE -1)
    ELSE rebase_build

is_rebase(build, rebase_build) ==
    /\ build.detection
    /\ \/ detected(build, rebase_build) = 1
       \/ rebase_build = 0 /\ build.pair /\ build.listed
=============================================================================
