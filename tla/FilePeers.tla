----------------------------- MODULE FilePeers -----------------------------
(***************************************************************************)
(* find_file_peers() of lib/files.c: for each file of the "before" package *)
(* find its peer among the files of the "after" package.  A file is its    *)
(* path.  Both packages have the same name and architecture (add_peer()    *)
(* pairs no others), so the branch for a move between subpackages, which   *)
(* wants different names, is never taken.                                  *)
(***************************************************************************)
EXTENDS Naturals, Sequences, Functions

CONSTANTS
    Paths,
    NoFile,         \* no peer, no path
    Packages,       \* the lists of files a package may have, without repeats
    Substitutions,  \* functions: a path with the "before" version or
                    \* version-release replaced by the "after" one
    Generics        \* functions: comparable_version_substrings() of a path
                    \* of a library or kernel module, NoFile for the others

ASSUME FilePeersAssumption ==
    /\ NoFile \notin Paths
    /\ Packages \subseteq Seq(Paths)
    /\ Substitutions \subseteq [Paths -> Paths]
    /\ Generics \subseteq [Paths -> Paths \cup {NoFile}]

VARIABLES
    before, after, subst, generic,      \* the input
    free,           \* after_table: the entries whose rpmfile is not NULL
    peer_before,    \* peer_file of each "before" file
    peer_after,     \* peer_file of each "after" file
    b,              \* the position in "before"
    a               \* the position in "after", in the search for a move

input == <<before, after, subst, generic>>
vars == <<input, free, peer_before, peer_after, b, a>>

Init ==
    /\ before \in Packages /\ after \in Packages
    /\ subst \in Substitutions /\ generic \in Generics
    /\ free = Range(after)
    /\ peer_before = [p \in Paths |-> NoFile]
    /\ peer_after = [p \in Paths |-> NoFile]
    /\ b = IF after = <<>> THEN Len(before) + 1 ELSE 1
    /\ a = 0

\* Faulty variants: an entry is given again; an entry is never used up.
SetPeerAgain(file, entry) ==
    /\ free' = free \ {entry}
    /\ peer_before' = [peer_before EXCEPT ![file] = entry]
    /\ peer_after' = [peer_after EXCEPT ![entry] = file]
SetPeerKeepsEntry(file, entry) ==
    /\ peer_before' = [peer_before EXCEPT ![file] = entry]
    /\ peer_after' = [peer_after EXCEPT ![entry] = file]
    /\ UNCHANGED free

\* set_peer(): an entry that was used before gives no peer.
set_peer(file, entry) ==
    /\ free' = free \ {entry}
    /\ IF entry \in free
       THEN /\ peer_before' = [peer_before EXCEPT ![file] = entry]
            /\ peer_after' = [peer_after EXCEPT ![entry] = file]
       ELSE /\ peer_before' = [peer_before EXCEPT ![file] = NoFile]
            /\ UNCHANGED peer_after

\* The lookups by path: the same path, or the path with the new version.
\* The first one that is in the table ends find_one_peer().
FindByPath ==
    /\ b <= Len(before) /\ a = 0
    /\ LET file == before[b]
           found == {file, subst[file]} \cap Range(after) IN
          IF found # {}
          THEN /\ set_peer(file, IF file \in found THEN file ELSE subst[file])
               /\ b' = b + 1
               /\ UNCHANGED a
          ELSE a' = 1 /\ UNCHANGED <<free, peer_before, peer_after, b>>
    /\ UNCHANGED input

\* The search among the "after" files for one that differs in the digits of
\* its name only.  It goes on after a match.
FindMoved ==
    /\ a \in 1 .. Len(after)
    /\ LET file == before[b]
           after_file == after[a] IN
          IF /\ peer_after[after_file] = NoFile
             /\ generic[file] # NoFile /\ generic[file] = generic[after_file]
          THEN set_peer(file, after_file)
          ELSE UNCHANGED <<free, peer_before, peer_after>>
    /\ a' = a + 1
    /\ UNCHANGED <<input, b>>

\* Faulty variants: the last file is not looked at; the position is kept.
NextFileEarly ==
    /\ a = Len(after)
    /\ a' = 0
    /\ b' = b + 1
    /\ UNCHANGED <<input, free, peer_before, peer_after>>
NextFileNoReset ==
    /\ a = Len(after) + 1
    /\ b' = b + 1
    /\ UNCHANGED <<input, free, peer_before, peer_after, a>>

NextFile ==
    /\ a = Len(after) + 1
    /\ a' = 0
    /\ b' = b + 1
    /\ UNCHANGED <<input, free, peer_before, peer_after>>

Done == b > Len(before)
Terminated == Done /\ UNCHANGED vars

Next ==
    \/ FindByPath
    \/ FindMoved
    \/ NextFile
    \/ Terminated

Spec == Init /\ [][Next]_vars /\ WF_vars(Next)

(***************************************************************************)
(* Properties.                                                             *)
(***************************************************************************)

\* Every variable holds a value of its type; only files of the two packages
\* are peers.
TypeOK ==
    /\ before \in Packages /\ after \in Packages
    /\ subst \in Substitutions /\ generic \in Generics
    /\ free \subseteq Range(after)
    /\ peer_before \in [Paths -> Range(after) \cup {NoFile}]
    /\ peer_after \in [Paths -> Range(before) \cup {NoFile}]
    /\ b \in 1 .. Len(before) + 1
    /\ a \in 0 .. Len(after) + 1
    /\ a # 0 => b <= Len(before)

\* The peer of a "before" file points back at it: so no "after" file is the
\* peer of two, and no inspection compares one file with two.
BeforePointsBack ==
    \A f \in Range(before) : peer_before[f] # NoFile => peer_after[peer_before[f]] = f

\* An entry of the table is used up exactly when its file has a peer.
TableIsCurrent ==
    free = {f \in Range(after) : peer_after[f] = NoFile}

\* A pair is never broken up: an "after" file keeps the peer it got.
PairsAreKept ==
    [][\A f \in Paths : peer_after[f] # NoFile => peer_after'[f] = peer_after[f]]_vars

\* A file that neither lookup finds is left without a peer, to be reported
\* as removed, only if every "after" file that differs in its digits alone
\* is another file's peer.
NoPeerForAReason ==
    Done => \A f \in Range(before), g \in Range(after) :
        /\ peer_before[f] = NoFile /\ {f, subst[f]} \cap Range(after) = {}
        /\ generic[f] # NoFile /\ generic[f] = generic[g]
        => peer_after[g] # NoFile

\* "The peer_file members are populated with each other's entries"
\* (files.c:929): also the peer of an "after" file points back at it.
PeersPointAtEachOther ==
    Done => \A f \in Range(after) : peer_after[f] # NoFile => peer_before[peer_after[f]] = f
=============================================================================
