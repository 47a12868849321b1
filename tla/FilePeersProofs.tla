-------------------------- MODULE FilePeersProofs --------------------------
(***************************************************************************)
(* Proofs that the pairing of files is one-to-one from the "before" side,  *)
(* for every pair of packages, substitution and generic form of a path.    *)
(* The three facts need each other: an entry that is still in the table is *)
(* nobody's peer, so taking it breaks no pair.                             *)
(***************************************************************************)
EXTENDS FilePeers, TLAPS

IInv == TypeOK /\ BeforePointsBack /\ TableIsCurrent

LEMMA FilesArePaths ==
    ASSUME before \in Packages, after \in Packages
    PROVE  /\ before \in Seq(Paths) /\ after \in Seq(Paths)
           /\ Len(before) \in Nat /\ Len(after) \in Nat
           /\ Range(before) \subseteq Paths /\ Range(after) \subseteq Paths
           /\ NoFile \notin Range(before) /\ NoFile \notin Range(after)
<1>1. before \in Seq(Paths) /\ after \in Seq(Paths)
  BY FilePeersAssumption
<1> QED
  BY <1>1, FilePeersAssumption DEF Range

LEMMA InitIInv == Init => IInv
<1> SUFFICES ASSUME Init PROVE IInv
  OBVIOUS
<1> USE FilePeersAssumption DEF Init
<1>1. /\ Len(before) \in Nat /\ Len(after) \in Nat
      /\ Range(before) \subseteq Paths /\ Range(after) \subseteq Paths
  BY FilesArePaths
<1>2. b \in 1 .. Len(before) + 1 /\ a = 0
  BY <1>1
<1>3. TypeOK
  BY <1>1, <1>2 DEF TypeOK
<1>4. BeforePointsBack
  BY <1>1 DEF BeforePointsBack
<1>5. TableIsCurrent
  BY <1>1 DEF TableIsCurrent
<1> QED
  BY <1>3, <1>4, <1>5 DEF IInv

(* set_peer() on a file of the "before" package and one of the "after"      *)
(* package keeps the invariant and every pair there was.                    *)
LEMMA SetPeerKeeps ==
    ASSUME IInv, NEW file \in Range(before), NEW entry \in Range(after),
           set_peer(file, entry), UNCHANGED input
    PROVE  /\ free' \subseteq Range(after')
           /\ peer_before' \in [Paths -> Range(after') \cup {NoFile}]
           /\ peer_after' \in [Paths -> Range(before') \cup {NoFile}]
           /\ BeforePointsBack' /\ TableIsCurrent'
           /\ \A f \in Paths : peer_after[f] # NoFile => peer_after'[f] = peer_after[f]
<1> USE DEF input
<1>1. file \in Paths /\ entry \in Paths /\ file # NoFile /\ entry # NoFile
      /\ Range(before) \subseteq Paths /\ Range(after) \subseteq Paths
  BY FilesArePaths DEF IInv, TypeOK
<1>2. CASE entry \in free
  <2>1. /\ free' = free \ {entry}
        /\ peer_before' = [peer_before EXCEPT ![file] = entry]
        /\ peer_after' = [peer_after EXCEPT ![entry] = file]
    BY <1>2 DEF set_peer
  <2>2. peer_after[entry] = NoFile
    BY <1>2 DEF IInv, TableIsCurrent
  <2>3. BeforePointsBack'
    <3> SUFFICES ASSUME NEW f \in Range(before), peer_before'[f] # NoFile
                 PROVE  peer_after'[peer_before'[f]] = f
      BY DEF BeforePointsBack
    <3>1. CASE f = file
      BY <1>1, <2>1, <3>1 DEF IInv, TypeOK
    <3>2. CASE f # file
      <4>1. peer_before'[f] = peer_before[f] /\ peer_after[peer_before[f]] = f /\ f \in Paths
        BY <1>1, <2>1, <3>2 DEF IInv, TypeOK, BeforePointsBack
      <4>2. peer_before[f] # entry /\ f # NoFile /\ peer_before[f] \in Paths
        BY <1>1, <2>2, <4>1, FilePeersAssumption DEF IInv, TypeOK
      <4> QED
        BY <2>1, <4>1, <4>2 DEF IInv, TypeOK
    <3> QED
      BY <3>1, <3>2
  <2>4. TableIsCurrent'
    BY <1>1, <2>1 DEF IInv, TypeOK, TableIsCurrent
  <2> QED
    BY <1>1, <2>1, <2>2, <2>3, <2>4 DEF IInv, TypeOK
<1>3. CASE entry \notin free
  <2>1. /\ free' = free
        /\ peer_before' = [peer_before EXCEPT ![file] = NoFile]
        /\ peer_after' = peer_after
    BY <1>3 DEF set_peer
  <2> QED
    BY <1>1, <2>1 DEF IInv, TypeOK, BeforePointsBack, TableIsCurrent
<1> QED
  BY <1>2, <1>3

LEMMA StepIInv ==
    ASSUME IInv, [Next]_vars
    PROVE  /\ IInv'
           /\ \A f \in Paths : peer_after[f] # NoFile => peer_after'[f] = peer_after[f]
<1> DEFINE Kept == \A f \in Paths : peer_after[f] # NoFile => peer_after'[f] = peer_after[f]
<1>1. /\ Len(before) \in Nat /\ Len(after) \in Nat
      /\ b \in 1 .. Len(before) + 1 /\ a \in 0 .. Len(after) + 1
      /\ a # 0 => b <= Len(before)
  BY FilesArePaths DEF IInv, TypeOK
<1>2. \A i \in 1 .. Len(before) : before[i] \in Range(before)
  BY FilesArePaths DEF IInv, TypeOK, Range
<1>3. \A i \in 1 .. Len(after) : after[i] \in Range(after)
  BY FilesArePaths DEF IInv, TypeOK, Range
<1>4. CASE FindByPath
  <2> DEFINE file == before[b]
             found == {file, subst[file]} \cap Range(after)
             entry == IF file \in found THEN file ELSE subst[file]
  <2>1. UNCHANGED input /\ file \in Range(before)
    BY <1>1, <1>2, <1>4 DEF FindByPath
  <2>2. CASE found # {}
    <3>1. set_peer(file, entry) /\ b' = b + 1 /\ a' = a /\ b <= Len(before) /\ a = 0
      BY <1>4, <2>2 DEF FindByPath
    <3>2. entry \in Range(after)
      BY <2>2
    <3>3. /\ free' \subseteq Range(after')
          /\ peer_before' \in [Paths -> Range(after') \cup {NoFile}]
          /\ peer_after' \in [Paths -> Range(before') \cup {NoFile}]
          /\ BeforePointsBack' /\ TableIsCurrent' /\ Kept
      BY <2>1, <3>1, <3>2, SetPeerKeeps
    <3> QED
      BY <1>1, <2>1, <3>1, <3>3 DEF IInv, TypeOK, input
  <2>3. CASE found = {}
    <3>1. a' = 1 /\ b <= Len(before) /\ UNCHANGED <<free, peer_before, peer_after, b>>
      BY <1>4, <2>3 DEF FindByPath
    <3> QED
      BY <1>1, <2>1, <3>1 DEF IInv, TypeOK, BeforePointsBack, TableIsCurrent, input
  <2> QED
    BY <2>2, <2>3
<1>5. CASE FindMoved
  <2>1. /\ UNCHANGED <<input, b>> /\ a' = a + 1
        /\ before[b] \in Range(before) /\ after[a] \in Range(after)
        /\ a \in 1 .. Len(after) /\ b <= Len(before)
    BY <1>1, <1>2, <1>3, <1>5 DEF FindMoved
  <2>2. CASE set_peer(before[b], after[a])
    <3>1. /\ free' \subseteq Range(after')
          /\ peer_before' \in [Paths -> Range(after') \cup {NoFile}]
          /\ peer_after' \in [Paths -> Range(before') \cup {NoFile}]
          /\ BeforePointsBack' /\ TableIsCurrent' /\ Kept
      BY <2>1, <2>2, SetPeerKeeps
    <3> QED
      BY <1>1, <2>1, <3>1 DEF IInv, TypeOK, input
  <2>3. CASE UNCHANGED <<free, peer_before, peer_after>>
    BY <1>1, <2>1, <2>3 DEF IInv, TypeOK, BeforePointsBack, TableIsCurrent, input
  <2> QED
    BY <1>5, <2>2, <2>3 DEF FindMoved
<1>6. CASE NextFile
  BY <1>1, <1>6 DEF NextFile, IInv, TypeOK, BeforePointsBack, TableIsCurrent, input
<1>7. CASE Terminated \/ UNCHANGED vars
  BY <1>7 DEF Terminated, vars, IInv, TypeOK, BeforePointsBack, TableIsCurrent, input
<1> QED
  BY <1>4, <1>5, <1>6, <1>7 DEF Next

LEMMA Invariance == Spec => []IInv
<1>1. IInv /\ [Next]_vars => IInv'
  BY StepIInv
<1> QED
  BY InitIInv, <1>1, PTL DEF Spec

-----------------------------------------------------------------------------
(* Only files of the two packages become peers.                             *)
THEOREM TypeCorrect == Spec => []TypeOK
<1>1. IInv => TypeOK
  BY DEF IInv
<1> QED
  BY <1>1, Invariance, PTL

(* No "after" file is the peer of two "before" files.                       *)
THEOREM OnePeerEach == Spec => []BeforePointsBack
<1>1. IInv => BeforePointsBack
  BY DEF IInv
<1> QED
  BY <1>1, Invariance, PTL

(* The hash table of "after" files is exactly the set of those without a    *)
(* peer, whichever lookup used an entry up.                                 *)
THEOREM TableTellsFreeFiles == Spec => []TableIsCurrent
<1>1. IInv => TableIsCurrent
  BY DEF IInv
<1> QED
  BY <1>1, Invariance, PTL

(* An "after" file that has a peer keeps it.                                *)
THEOREM PairsStay == Spec => PairsAreKept
<1>1. IInv /\ [Next]_vars =>
        [\A f \in Paths : peer_after[f] # NoFile => peer_after'[f] = peer_after[f]]_vars
  BY StepIInv
<1> QED
  BY <1>1, Invariance, PTL DEF Spec, PairsAreKept

-----------------------------------------------------------------------------
(* What the search for moved files has seen to: each after file that differs *)
(* from the path in its digits only has a peer by then.                      *)
Alike(f, g) == generic[f] # NoFile /\ generic[f] = generic[g]
NotByPath(f) == {f, subst[f]} \cap Range(after) = {}

SeenTo(f, g) == Alike(f, g) => peer_after[g] # NoFile

Searched ==
    /\ \A i \in 1 .. b - 1, g \in Range(after) : NotByPath(before[i]) => SeenTo(before[i], g)
    /\ a # 0 => \A k \in 1 .. a - 1 : SeenTo(before[b], after[k])

LEMMA SearchedStart == Init => Searched
<1> SUFFICES ASSUME Init PROVE Searched
  OBVIOUS
<1>1. Len(before) \in Nat /\ a = 0
  BY FilesArePaths DEF Init
<1>2. CASE after = <<>>
  BY <1>1, <1>2 DEF Searched, Range
<1>3. CASE after # <<>>
  BY <1>1, <1>3 DEF Init, Searched
<1> QED
  BY <1>2, <1>3

(* A pair is never broken up, so a file that was seen to stays so.           *)
LEMMA SearchedStep ==
    ASSUME IInv, Searched, [Next]_vars
    PROVE  Searched'
<1> DEFINE After(f, g) == Alike(f, g) => peer_after'[g] # NoFile
<1>1. /\ Len(before) \in Nat /\ Len(after) \in Nat
      /\ Range(after) \subseteq Paths /\ NoFile \notin Range(before)
      /\ b \in 1 .. Len(before) + 1 /\ a \in 0 .. Len(after) + 1
      /\ a # 0 => b <= Len(before)
      /\ DOMAIN before = 1 .. Len(before) /\ DOMAIN after = 1 .. Len(after)
  BY FilesArePaths DEF IInv, TypeOK
<1>2. \A g \in Paths : peer_after[g] # NoFile => peer_after'[g] = peer_after[g]
  BY StepIInv
<1>3. UNCHANGED input
  BY DEF Next, FindByPath, FindMoved, NextFile, Terminated, vars
<1>4. UNCHANGED <<before, after, subst, generic>>
  BY <1>3 DEF input
<1>5. ASSUME NEW f, NEW g \in Range(after), SeenTo(f, g)
      PROVE  After(f, g)
  BY <1>1, <1>2, <1>4, <1>5 DEF SeenTo, Alike
<1>6. \A k \in 1 .. Len(after) : after[k] \in Range(after)
  BY <1>1 DEF Range
<1>7. ASSUME NEW i \in 1 .. b - 1, NEW g \in Range(after), NotByPath(before[i])
      PROVE  After(before[i], g)
  BY <1>5, <1>7 DEF Searched
<1>8. ASSUME \A i \in 1 .. b' - 1, g \in Range(after) : NotByPath(before[i]) => After(before[i], g),
              a' # 0 => \A k \in 1 .. a' - 1 : After(before[b'], after[k])
       PROVE  Searched'
  <2>1. ASSUME NEW i \in 1 .. b' - 1, NEW g \in Range(after)', NotByPath(before[i])'
        PROVE  SeenTo(before[i], g)'
    <3>1. g \in Range(after) /\ NotByPath(before[i])
      BY <1>4, <2>1 DEF NotByPath
    <3>2. After(before[i], g)
      BY <1>8, <3>1
    <3> QED
      BY <1>4, <3>2 DEF SeenTo, Alike
  <2>2. ASSUME a' # 0, NEW k \in 1 .. a' - 1
        PROVE  SeenTo(before[b], after[k])'
    <3>1. After(before[b'], after[k])
      BY <1>8, <2>2
    <3> QED
      BY <1>4, <3>1 DEF SeenTo, Alike
  <2> QED
    BY <2>1, <2>2 DEF Searched
<1> HIDE DEF After
<1>9. CASE FindByPath
  <2>1. a = 0 /\ (\/ ~NotByPath(before[b]) /\ b' = b + 1 /\ a' = 0
                  \/ b' = b /\ a' = 1)
    BY <1>9 DEF FindByPath, NotByPath
  <2>2. CASE ~NotByPath(before[b]) /\ b' = b + 1 /\ a' = 0
    <3>1. \A i \in 1 .. b' - 1 : i \in 1 .. b - 1 \/ i = b
      BY <1>1, <2>2
    <3>2. \A i \in 1 .. b' - 1, g \in Range(after) : NotByPath(before[i]) => After(before[i], g)
      BY <1>7, <2>2, <3>1
    <3> QED
      BY <1>8, <2>2, <3>2
  <2>3. CASE b' = b /\ a' = 1
    <3>1. \A i \in 1 .. b' - 1, g \in Range(after) : NotByPath(before[i]) => After(before[i], g)
      BY <1>7, <2>3
    <3>2. \A k \in 1 .. a' - 1 : FALSE
      BY <2>3
    <3> QED
      BY <1>8, <3>1, <3>2
  <2> QED
    BY <2>1, <2>2, <2>3
<1>10. CASE FindMoved
  <2>1. /\ a \in 1 .. Len(after) /\ a' = a + 1 /\ b' = b
        /\ before[b] \in Range(before) /\ after[a] \in Range(after)
    BY <1>1, <1>6, <1>10 DEF FindMoved, Range
  <2>2. After(before[b], after[a])
    <3> SUFFICES ASSUME Alike(before[b], after[a]), peer_after[after[a]] = NoFile
                 PROVE  peer_after'[after[a]] # NoFile
      BY <1>1, <1>2, <2>1 DEF After
    <3>1. set_peer(before[b], after[a])
      BY <1>10 DEF FindMoved, Alike
    <3>2. after[a] \in free
      BY <2>1 DEF IInv, TableIsCurrent
    <3>3. peer_after' = [peer_after EXCEPT ![after[a]] = before[b]]
      BY <3>1, <3>2 DEF set_peer
    <3> QED
      BY <1>1, <2>1, <3>3 DEF IInv, TypeOK
  <2>3. ASSUME NEW k \in 1 .. a' - 1
        PROVE  After(before[b], after[k])
    <3>1. CASE k = a
      BY <2>2, <3>1
    <3>2. CASE k # a
      <4>1. k \in 1 .. a - 1 /\ k \in 1 .. Len(after) /\ a # 0
        BY <2>1, <3>2
      <4>2. SeenTo(before[b], after[k])
        BY <4>1 DEF Searched
      <4> QED
        BY <1>5, <1>6, <4>1, <4>2
    <3> QED
      BY <3>1, <3>2
  <2>4. \A i \in 1 .. b' - 1, g \in Range(after) : NotByPath(before[i]) => After(before[i], g)
    BY <1>7, <2>1
  <2> QED
    BY <1>8, <2>1, <2>3, <2>4
<1>11. CASE NextFile
  <2>1. a = Len(after) + 1 /\ a' = 0 /\ b' = b + 1
    BY <1>11 DEF NextFile
  <2>2. ASSUME NEW g \in Range(after)
        PROVE  After(before[b], g)
    <3>1. PICK k \in 1 .. Len(after) : g = after[k]
      BY <1>1 DEF Range
    <3>2. k \in 1 .. a - 1 /\ a # 0
      BY <1>1, <2>1, <3>1
    <3>3. SeenTo(before[b], g)
      BY <3>1, <3>2 DEF Searched
    <3> QED
      BY <1>5, <3>3
  <2>3. \A i \in 1 .. b' - 1 : i \in 1 .. b - 1 \/ i = b
    BY <1>1, <2>1
  <2>4. \A i \in 1 .. b' - 1, g \in Range(after) : NotByPath(before[i]) => After(before[i], g)
    BY <1>7, <2>2, <2>3
  <2> QED
    BY <1>8, <2>1, <2>4
<1>12. CASE Terminated \/ UNCHANGED vars
  <2>1. UNCHANGED <<before, after, subst, generic, peer_after, a, b>>
    BY <1>4, <1>12 DEF Terminated, vars
  <2> QED
    BY <2>1 DEF Searched, SeenTo, Alike, NotByPath
<1> QED
  BY <1>9, <1>10, <1>11, <1>12 DEF Next

(* A file is left without a peer, to be reported as removed, only if every    *)
(* after file that could be it is taken.                                      *)
THEOREM NoneLeftWithoutReason == Spec => []NoPeerForAReason
<1>1. IInv /\ Searched => NoPeerForAReason
  <2> SUFFICES ASSUME IInv, Searched, Done,
                      NEW f \in Range(before), NEW g \in Range(after),
                      NotByPath(f), Alike(f, g)
               PROVE  peer_after[g] # NoFile
    BY DEF NoPeerForAReason, NotByPath, Alike
  <2>1. /\ Len(before) \in Nat /\ b \in 1 .. Len(before) + 1
        /\ DOMAIN before = 1 .. Len(before)
    BY FilesArePaths DEF IInv, TypeOK
  <2>2. PICK i \in 1 .. Len(before) : f = before[i]
    BY <2>1 DEF Range
  <2>3. i \in 1 .. b - 1
    BY <2>1 DEF Done
  <2> QED
    BY <2>2, <2>3 DEF Searched, SeenTo
<1>2. IInv /\ Searched /\ [Next]_vars => Searched'
  BY SearchedStep
<1> QED
  BY <1>1, <1>2, Invariance, SearchedStart, PTL DEF Spec
=============================================================================
