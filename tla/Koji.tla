-------------------------------- MODULE Koji --------------------------------
(* What Koji answers about a named build or task and what is made of it:    *)
(* get_koji_build() and get_koji_task() of lib/koji.c, and                  *)
(* get_koji_task_as_build() of lib/builds.c.  An answer is a record:        *)
(*   complete  the state of the build or task lets rpminspect continue      *)
(*   extra     the members of a build's "extra" that may lead to module     *)
(*             metadata, in order: how many members each has itself, and    *)
(*             whether it holds the metadata or its only member does        *)
(*   tagged    places in the list of packages that come from the builds     *)
(*             tagged with a module's content tag; the others come from     *)
(*             the build's own build_id                                     *)
(*   filter    the packages that the module's metadata filters out          *)
(*   nvr       a build has the name of the task's source package            *)
(*   srpms     each part of the task that lists rpms also lists srpms       *)
EXTENDS Naturals, FiniteSets

CONSTANT Malformed

KOJI_BUILD_NULL == "null"
KOJI_BUILD_RPM == "rpm"
KOJI_BUILD_MODULE == "module"
koji_build_type_t == {KOJI_BUILD_NULL, KOJI_BUILD_RPM, KOJI_BUILD_MODULE}

(* "drill down to the real struct": a member of "extra" with one member     *)
(* takes the place of all, and those after it are not looked at.            *)
has_module_metadata(answer) ==
    \E i \in DOMAIN answer.extra :
        /\ answer.extra[i].modulemd
        /\ \A j \in 1 .. i - 1 : answer.extra[j].members # 1

(* Faulty variant: a build is taken for one of packages before Koji's       *)
(* answer is looked at.                                                     *)
TypeAssumedFirst(answer, buildtype) ==
    IF buildtype # KOJI_BUILD_NULL THEN buildtype ELSE KOJI_BUILD_RPM

(* ri->buildtype after the answer was read: what -b said, or the build      *)
(* before this one, stays.                                                  *)
type_after(answer, buildtype) ==
    IF buildtype # KOJI_BUILD_NULL THEN buildtype
    ELSE IF has_module_metadata(answer) THEN KOJI_BUILD_MODULE
    ELSE KOJI_BUILD_RPM

(* getLatestBuilds is called for a content tag that was not read: NULL.     *)
tag_is_missing(answer, type) ==
    type = KOJI_BUILD_MODULE /\ ~has_module_metadata(answer)

(* The places of the packages that listBuildRPMs is asked for.              *)
listed(answer, type, places) ==
    IF type = KOJI_BUILD_MODULE THEN places ELSE places \ answer.tagged

(* A task whose only source package names a build Koji has is that build.   *)
get_koji_task_as_build(answer, src_allowed, srpms) ==
    src_allowed /\ Cardinality(srpms) = 1 /\ answer.nvr
=============================================================================
