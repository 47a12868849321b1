---------------------------- MODULE GatherBuilds ----------------------------
(* Collecting the builds named on the command line: gather_builds() and its *)
(* callees in lib/builds.c, the peer list of lib/peers.c, and the loop of   *)
(* main() that calls them.  One invocation is a record of Invocations:      *)
(*   n           how many builds are named (build 1 is gathered first)      *)
(*   fetch_only  -f: fetch each build in turn, compare and inspect nothing  *)
(*   kind        what each named build turns out to be                      *)
(*   content     the names of the packages each build holds, in order       *)
(*   arches      the package names that the -a option lets through          *)
(*   koji        what Koji answers about each build, see Koji               *)
(*   buildtype   -b, the type of Koji build                                 *)
(*   modulemd    the local builds that hold the metadata of a module        *)
(* The other fields belong to module Rpminspect.  Without -f, build 1 is    *)
(* the after build and build 2, if named, the before build.  Koji, libcurl  *)
(* and the file system may answer or fail at every call.                    *)
EXTENDS Config, Koji

CONSTANT Invocations

NULL == 0
RI_INSPECTION_FAILURE == 1
RI_INSUFFICIENT_SPACE == 4

ASSUME GatherAssumption ==
    \A a \in Invocations :
       /\ a.n \in 1 .. 2
       /\ a.fetch_only \in BOOLEAN
       /\ \A b \in 1 .. a.n :
             /\ a.kind[b] \in {"local", "remote rpm", "task", "build", "unknown"}
             /\ a.kind[b] = "remote rpm" => Len(a.content[b]) = 1
       /\ a.buildtype \in koji_build_type_t

VARIABLES args,       \* the invocation
          turn,       \* the build being gathered
          next,       \* its next package
          worksubdir, \* ri->worksubdir: NULL, or the turn in which it was made
          files,      \* packages on disk, each with the directory that holds it
          buildtype,  \* ri->buildtype
          peers,      \* ri->peers: the before and after package of each entry
          pc,         \* the program's position
          code        \* its exit status

gatherVars == <<args, turn, next, worksubdir, buildtype, files, peers, pc, code>>

-----------------------------------------------------------------------------
whichbuild == IF turn = 1 \/ args.fetch_only THEN "after" ELSE "before"

content == args.content[turn]

allowed_arch(name) == name \in args.arches

(* A package is named by the build that holds it and its place there.       *)
NoPackage == <<>>
NameOf(p) == args.content[p[1]][p[2]]

(* ri->worksubdir printed with %s: glibc writes a null pointer as "(null)", *)
(* a directory below the current one; it is written NULL here.              *)
File(dir, p) == [dir |-> dir, package |-> p]

set_worksubdir == worksubdir' = IF worksubdir = NULL THEN turn ELSE worksubdir

rmtree(dir) == {f \in files : dir = NULL \/ f.dir # dir}

(* Peer i has a package of this name and architecture on its other side.    *)
Fits(i, p) ==
    LET other == IF whichbuild = "before" THEN "after" ELSE "before" IN
    peers[i][other] # NoPackage /\ NameOf(peers[i][other]) = NameOf(p)

(* A package of the same name and architecture on the other side of a peer  *)
(* takes the new one in; otherwise a new entry goes to the end of the list. *)
(* The first entry that fits is used, whether its side is free or not.      *)
add_peer(p) ==
    LET existing == {i \in DOMAIN peers : Fits(i, p)}
        new == [before |-> NoPackage, after |-> NoPackage]
    IN  IF existing = {}
        THEN Append(peers, [new EXCEPT ![whichbuild] = p])
        ELSE [peers EXCEPT ![CHOOSE i \in existing : \A j \in existing : i <= j][whichbuild] = p]

(* A build could not be had: main() leaves at once, by errx() or exit().    *)
GatherFails(r) ==
    /\ pc' = "exited"
    /\ code' = r % 256
    /\ UNCHANGED <<args, buildtype, turn, next, worksubdir, peers>>

-----------------------------------------------------------------------------
(* A directory or an RPM that is there locally (gather_local_build).  When  *)
(* only fetching, the build is found in the target directory: an error.     *)
(* What it holds decides ri->buildtype, whatever -b said.                   *)
gather_local_build ==
    /\ pc = "gather" /\ args.kind[turn] = "local"
    /\ \/ /\ args.fetch_only
          /\ GatherFails(-1)
          /\ UNCHANGED files
       \/ /\ ~args.fetch_only
          /\ set_worksubdir
          /\ buildtype' = IF turn \in args.modulemd THEN KOJI_BUILD_MODULE ELSE KOJI_BUILD_RPM
          /\ pc' = "copy" /\ next' = 1
          /\ UNCHANGED <<args, turn, files, peers, code>>

(* copytree() for the next member: a package of another architecture is     *)
(* left out, an unreadable or uncopied one ends the walk.                   *)
copytree ==
    /\ pc = "copy" /\ next <= Len(content)
    /\ LET p == <<turn, next>> IN
       \/ /\ allowed_arch(NameOf(p))
          /\ files' = files \cup {File(worksubdir, p)}
          /\ peers' = add_peer(p)
          /\ next' = next + 1
          /\ UNCHANGED <<args, buildtype, turn, worksubdir, pc, code>>
       \/ /\ ~allowed_arch(NameOf(p))
          /\ next' = next + 1
          /\ UNCHANGED <<args, buildtype, turn, worksubdir, files, peers, pc, code>>
       \/ /\ GatherFails(-1)
          /\ UNCHANGED files

(* One RPM by its URL (download_rpm).  The directory it goes to is named    *)
(* and made before the working subdirectory is; with -f its name is copied  *)
(* from ri->worksubdir, which is NULL at every call: strdup(NULL).          *)
download_rpm ==
    /\ pc = "gather" /\ args.kind[turn] = "remote rpm"
    /\ \/ /\ \E r \in {-1, RI_INSUFFICIENT_SPACE} : GatherFails(r)
          /\ UNCHANGED files
       \/ /\ args.fetch_only
          /\ pc' = "crashed"
          /\ UNCHANGED <<args, buildtype, turn, next, worksubdir, files, peers, code>>
       \/ /\ ~args.fetch_only
          /\ set_worksubdir
          /\ LET p == <<turn, 1>> IN
             \/ /\ files' = files \cup {File(worksubdir, p)}
                /\ peers' = add_peer(p)
             \/ UNCHANGED <<files, peers>>
          /\ next' = 2
          /\ pc' = "download"
          /\ UNCHANGED <<args, buildtype, turn, code>>

(* A Koji build, or a task that is one, and what has been read of it.       *)
answer == args.koji[turn]
srpms(b) == {i \in DOMAIN args.content[b] : args.content[b][i] = "src"}
is_koji_build(b) ==
    \/ args.kind[b] = "build"
    \/ /\ args.kind[b] = "task"
       /\ get_koji_task_as_build(args.koji[b], allowed_arch("src"), srpms(b))
is_build == is_koji_build(turn)

(* The packages that download_build() or download_task() goes through.      *)
rpms(type) ==
    {i \in IF is_build THEN listed(answer, type, DOMAIN content) ELSE DOMAIN content :
        allowed_arch(content[i])}

(* A Koji build, or a task: it has to be complete and not empty.  The space *)
(* has to be there, and the working subdirectory is set before anything is  *)
(* fetched.  A part of a task that lists rpms and no srpms is a list that   *)
(* is walked through a null pointer.                                        *)
start_download ==
    /\ pc = "gather" /\ args.kind[turn] \in {"task", "build"}
    /\ LET type == IF is_build THEN type_after(answer, buildtype) ELSE buildtype IN
       \/ /\ GatherFails(-1)
          /\ UNCHANGED files
       \/ /\ answer.complete /\ is_build /\ tag_is_missing(answer, type)
          /\ pc' = "crashed"
          /\ UNCHANGED <<args, buildtype, turn, next, worksubdir, files, peers, code>>
       \/ /\ answer.complete /\ ~is_build /\ ~answer.srpms /\ allowed_arch("src")
          /\ pc' = "crashed"
          /\ UNCHANGED <<args, buildtype, turn, next, worksubdir, files, peers, code>>
       \/ /\ answer.complete /\ rpms(type) # {}
          /\ IF is_build THEN ~tag_is_missing(answer, type)
             ELSE answer.srpms \/ ~allowed_arch("src")
          /\ \/ /\ GatherFails(RI_INSUFFICIENT_SPACE)
                /\ files' = rmtree(worksubdir)
             \/ /\ set_worksubdir
                /\ buildtype' = type
                /\ pc' = "download" /\ next' = 1
                /\ UNCHANGED <<args, turn, files, peers, code>>

(* The metadata of a module is read for each of its builds that has         *)
(* packages: what it filters out is not fetched.                            *)
is_module == is_build /\ buildtype = KOJI_BUILD_MODULE
filtered(name) == is_module /\ name \in answer.filter

(* The next package of a build or task.  curl_get_file() removes what it    *)
(* could not fetch and says nothing; get_rpm_info() finds no header then    *)
(* and adds no peer.  A source package that another part of the task has    *)
(* brought already is not fetched again.                                    *)
download_next ==
    /\ pc = "download" /\ next <= Len(content)
    /\ next \in rpms(buildtype) => ~(is_module /\ answer.filter = Malformed)
    /\ LET p == <<turn, next>>
           here == ~is_build /\ \E f \in files : /\ f.dir = worksubdir /\ f.package[1] = turn
                                    /\ NameOf(p) = "src" /\ NameOf(f.package) = "src"
           fetched == next \in rpms(buildtype) /\ ~filtered(NameOf(p)) /\ ~here
       IN  \/ /\ fetched
              /\ files' = files \cup {File(worksubdir, p)}
              /\ peers' = add_peer(p)
              /\ UNCHANGED <<pc, code>>
           \/ UNCHANGED <<files, peers, pc, code>>
    /\ next' = next + 1
    /\ UNCHANGED <<args, buildtype, turn, worksubdir>>

(* The name is neither a local path, a URL, a task nor a build Koji knows,  *)
(* or a directory for the next download could not be made.                  *)
unable_to_find ==
    /\ \/ pc = "gather" /\ args.kind[turn] = "unknown"
       \/ pc = "download" /\ next <= Len(content)
    /\ GatherFails(-1)
    /\ UNCHANGED files

(* err() or errx(): the working subdirectory cannot be made, Koji answers   *)
(* with a fault, or curl_get_file() does not open the file for a download.  *)
program_error ==
    /\ \/ /\ pc = "gather"
          /\ \/ args.kind[turn] \in {"task", "build"}
             \/ args.kind[turn] = "local" /\ worksubdir = NULL /\ ~args.fetch_only
             \/ args.kind[turn] = "remote rpm" /\ ~args.fetch_only
       \/ pc = "download" /\ next <= Len(content)
    /\ GatherFails(RI_PROGRAM_ERROR)
    /\ UNCHANGED files

(* _gather_build_types() returns 0.  With -f, main() forgets the working    *)
(* subdirectory and goes on to the next build, or exits; without, the       *)
(* before build follows and the peers are extracted after it.               *)
gathered ==
    /\ pc \in {"copy", "download"} /\ next > Len(content)
    /\ worksubdir' = IF args.fetch_only THEN NULL ELSE worksubdir
    /\ IF turn < args.n
       THEN turn' = turn + 1 /\ pc' = "gather" /\ UNCHANGED code
       ELSE /\ pc' = IF args.fetch_only THEN "exited" ELSE "extract"
            /\ code' = RI_SUCCESS
            /\ UNCHANGED turn
    /\ UNCHANGED <<args, buildtype, next, files, peers>>

(* extract_peers(): every package unpacked if there is space for all of     *)
(* them.  If there is none, nothing is missed: the list is there, empty.    *)
extract_peers ==
    /\ pc = "extract"
    /\ \/ /\ peers # <<>>
          /\ GatherFails(RI_INSUFFICIENT_SPACE)
       \/ /\ pc' = "diagnose"
          /\ UNCHANGED <<args, buildtype, turn, next, worksubdir, peers, code>>
    /\ UNCHANGED files

gather_builds ==
    \/ gather_local_build \/ copytree \/ download_rpm \/ start_download
    \/ download_next \/ unable_to_find \/ program_error \/ gathered \/ extract_peers
=============================================================================
