--------------------------- MODULE RpmDepsProofs ---------------------------
(***************************************************************************)
(* The rpmdeps inspection, for any builds.  First the pairing of the rules *)
(* of any two lists: pairs are mutual, what both packages say is paired    *)
(* with its like, and no rule is left without a peer while one of its name *)
(* is left on the other side.  Then the inspection: its verdict is that of *)
(* its findings, and a missing requirement is reported if and only if      *)
(* nothing justifies the library that a package needs.                     *)
(***************************************************************************)
EXTENDS RpmDeps, FiniteSetTheorems, WellFoundedInduction, TLAPS

(***************************************************************************)
(* The pairing of dependency rules.                                        *)
(***************************************************************************)

\* In the strict pass both rules of a pair say the same.
StrictPairs ==
    strict => \A i \in DOMAIN after : peer_after[i] # 0 => after[i] = before[peer_after[i]]

\* The "after" rules that the strict pass has been through are settled: one
\* that is also a "before" rule has its like, or that one has.
Settled ==
    \A i \in DOMAIN after, j \in DOMAIN before :
        /\ strict /\ side = "after" => i < pos
        /\ after[i] = before[j]
        => Kept(i) \/ KeptBefore(j)

SameName(i, j) ==
    after[i].type = before[j].type /\ Trimmed[after[i].name] = Trimmed[before[j].name]

\* And those that the lenient pass has been through have left nothing.
Exhausted ==
    ~strict => \A i \in DOMAIN after, j \in DOMAIN before :
        /\ side = "after" => i < pos
        /\ SameName(i, j)
        => peer_after[i] # 0 \/ peer_before[j] # 0

\* The strict pass ends only for lack of rules.
Finished == side = "none" /\ strict => before = <<>> \/ after = <<>>

PInv ==
    /\ PeeringTypeOK /\ PeersAreMutual
    /\ StrictPairs /\ Settled /\ Exhausted /\ Finished

-----------------------------------------------------------------------------
\* The invariant gives what the inspection relies on.
LEMMA PInvEnough == PInv => PeeringTypeOK /\ PeersAreMutual /\ UnchangedIsRetained
                            /\ NothingGainedAndLost
<1> SUFFICES ASSUME PInv
             PROVE  UnchangedIsRetained /\ NothingGainedAndLost
  BY DEF PInv
<1>1. UnchangedIsRetained
  BY DEF PInv, Settled, UnchangedIsRetained
<1>2. NothingGainedAndLost
  <2> SUFFICES ASSUME side = "none", NEW i \in DOMAIN after, NEW j \in DOMAIN before,
                      SameName(i, j)
               PROVE  peer_after[i] # 0 \/ peer_before[j] # 0
    BY DEF NothingGainedAndLost, SameName
  <2>1. ~strict
    BY DEF PInv, Finished
  <2> QED
    BY <2>1 DEF PInv, Exhausted
<1> QED
  BY <1>1, <1>2

\* A call of find_deprule_peers() on any two lists of rules establishes it.
LEMMA CallEstablishes ==
    ASSUME NEW b \in Seq(Rule), NEW a \in Seq(Rule), Call(b, a)
    PROVE  PInv'
<1> USE DEF Call
<1>1. PeeringTypeOK'
  BY DEF PeeringTypeOK
<1>2. PeersAreMutual'
  BY DEF PeersAreMutual
<1>3. StrictPairs' /\ Exhausted' /\ Finished'
  BY DEF StrictPairs, Exhausted, Finished
<1>4. Settled'
  BY DEF Settled
<1> QED
  BY <1>1, <1>2, <1>3, <1>4 DEF PInv

\* A new pair of two rules that had no peer.
LEMMA SetPeersPreserves ==
    ASSUME PInv, NEW i \in DOMAIN after, NEW j \in DOMAIN before,
           peer_after[i] = 0, peer_before[j] = 0,
           process_pair(after[i], before[j]) \/ process_pair(before[j], after[i]),
           set_peers(j, i),
           UNCHANGED <<before, after, strict>>
    PROVE  /\ peer_before' \in [DOMAIN before -> {0} \cup DOMAIN after]
           /\ peer_after' \in [DOMAIN after -> {0} \cup DOMAIN before]
           /\ PeersAreMutual' /\ StrictPairs'
           /\ \A m \in DOMAIN after : peer_after[m] # 0 => peer_after'[m] = peer_after[m]
           /\ \A m \in DOMAIN before : peer_before[m] # 0 => peer_before'[m] = peer_before[m]
           /\ peer_after'[i] = j /\ peer_before'[j] = i
<1>1. /\ peer_before' \in [DOMAIN before -> {0} \cup DOMAIN after]
      /\ peer_after' \in [DOMAIN after -> {0} \cup DOMAIN before]
      /\ peer_after'[i] = j /\ peer_before'[j] = i
      /\ \A m \in DOMAIN after : m # i => peer_after'[m] = peer_after[m]
      /\ \A m \in DOMAIN before : m # j => peer_before'[m] = peer_before[m]
  BY DEF PInv, PeeringTypeOK, set_peers
<1>2. after[i].type = before[j].type /\ (strict => after[i] = before[j])
  BY DEF process_pair
<1>3. PeersAreMutual'
  <2>1. ASSUME NEW m \in DOMAIN after, peer_after'[m] # 0
        PROVE  /\ peer_before'[peer_after'[m]] = m
               /\ after[m].type = before[peer_after'[m]].type
    BY <1>1, <1>2, <2>1 DEF PInv, PeeringTypeOK, PeersAreMutual
  <2>2. ASSUME NEW m \in DOMAIN before, peer_before'[m] # 0
        PROVE  peer_after'[peer_before'[m]] = m
    BY <1>1, <2>2 DEF PInv, PeeringTypeOK, PeersAreMutual
  <2> QED
    BY <2>1, <2>2 DEF PeersAreMutual
<1>4. StrictPairs'
  BY <1>1, <1>2 DEF PInv, StrictPairs
<1> QED
  BY <1>1, <1>3, <1>4

\* Pairs that stay keep what is settled settled.
LEMMA SettledStays ==
    ASSUME PInv, UNCHANGED <<before, after>>,
           \A m \in DOMAIN after : peer_after[m] # 0 => peer_after'[m] = peer_after[m],
           \A m \in DOMAIN before : peer_before[m] # 0 => peer_before'[m] = peer_before[m],
           NEW i \in DOMAIN after, NEW j \in DOMAIN before
    PROVE  /\ Kept(i) => Kept(i)'
           /\ KeptBefore(j) => KeptBefore(j)'
           /\ SameName(i, j) = SameName(i, j)'
           /\ peer_after[i] # 0 => peer_after'[i] # 0
           /\ peer_before[j] # 0 => peer_before'[j] # 0
BY DEF Kept, KeptBefore, SameName

\* What is settled stays so while the loop that settles does not go on.
LEMMA OthersPreserve ==
    ASSUME PInv, PeersAreMutual', StrictPairs',
           peer_before' \in [DOMAIN before -> {0} \cup DOMAIN after],
           peer_after' \in [DOMAIN after -> {0} \cup DOMAIN before],
           UNCHANGED <<before, after, strict, side>>, pos' \in Nat \ {0},
           \A m \in DOMAIN after : peer_after[m] # 0 => peer_after'[m] = peer_after[m],
           \A m \in DOMAIN before : peer_before[m] # 0 => peer_before'[m] = peer_before[m],
           \A i \in DOMAIN after, j \in DOMAIN before :
              side = "after" /\ i < pos' => i < pos \/
                 /\ strict /\ after[i] = before[j] => Kept(i)' \/ KeptBefore(j)'
                 /\ ~strict /\ SameName(i, j) => peer_after'[i] # 0 \/ peer_before'[j] # 0
    PROVE  PInv'
<1>1. PeeringTypeOK'
  BY DEF PInv, PeeringTypeOK
<1>2. Settled'
  <2> SUFFICES ASSUME NEW i \in DOMAIN after, NEW j \in DOMAIN before,
                      strict /\ side = "after" => i < pos', after[i] = before[j]
               PROVE  Kept(i)' \/ KeptBefore(j)'
    BY DEF Settled
  <2>1. CASE strict /\ side = "after" => i < pos
    <3>1. Kept(i) \/ KeptBefore(j)
      BY <2>1 DEF PInv, Settled
    <3> QED
      BY <3>1, SettledStays
  <2>2. CASE strict /\ side = "after" /\ ~(i < pos)
    BY <2>2
  <2> QED
    BY <2>1, <2>2
<1>3. Exhausted'
  <2> SUFFICES ASSUME ~strict, NEW i \in DOMAIN after, NEW j \in DOMAIN before,
                      side = "after" => i < pos', SameName(i, j)
               PROVE  peer_after'[i] # 0 \/ peer_before'[j] # 0
    BY SettledStays DEF Exhausted, SameName
  <2>1. CASE side = "after" => i < pos
    <3>1. peer_after[i] # 0 \/ peer_before[j] # 0
      BY <2>1 DEF PInv, Exhausted
    <3> QED
      BY <3>1
  <2>2. CASE side = "after" /\ ~(i < pos)
    BY <2>2
  <2> QED
    BY <2>1, <2>2
<1>4. Finished'
  BY DEF PInv, Finished
<1> QED
  BY <1>1, <1>2, <1>3, <1>4 DEF PInv

\* A turn of the loop over the "after" rules: the one at its place gets a
\* peer, or there is none left for it.
LEMMA MatchAfterPreserves == PInv /\ MatchAfter => PInv'
<1> SUFFICES ASSUME PInv, MatchAfter
             PROVE  PInv'
  OBVIOUS
<1> DEFINE found == {j \in Free(peer_before) : process_pair(after[pos], before[j])}
<1>1. /\ side = "after" /\ pos \in DOMAIN after
      /\ pos' = pos + 1
      /\ UNCHANGED <<before, after, strict, side>>
  BY DEF MatchAfter
<1>n. PICK n \in DOMAIN after : n = pos
  BY <1>1
<1>2. /\ pos \in Nat \ {0} /\ pos' \in Nat \ {0}
      /\ \A i \in DOMAIN after : i < pos' => i < pos \/ i = n
  BY <1>1, <1>n DEF PInv, PeeringTypeOK
<1>3. CASE peer_after[pos] = 0 /\ \E j \in found : First(j, found) /\ set_peers(j, pos)
  <2>1. PICK j \in found : set_peers(j, pos)
    BY <1>3
  <2>2. j \in DOMAIN before /\ peer_before[j] = 0 /\ process_pair(after[pos], before[j])
    BY <2>1 DEF Free, PInv, PeeringTypeOK
  <2>3. /\ peer_before' \in [DOMAIN before -> {0} \cup DOMAIN after]
        /\ peer_after' \in [DOMAIN after -> {0} \cup DOMAIN before]
        /\ PeersAreMutual' /\ StrictPairs'
        /\ \A m \in DOMAIN after : peer_after[m] # 0 => peer_after'[m] = peer_after[m]
        /\ \A m \in DOMAIN before : peer_before[m] # 0 => peer_before'[m] = peer_before[m]
        /\ peer_after'[n] = j
    BY <1>1, <1>n, <1>3, <2>1, <2>2, SetPeersPreserves
  <2>4. peer_after'[n] # 0
    BY <2>2, <2>3 DEF PInv, PeeringTypeOK
  <2>5. strict => Kept(n)'
    BY <1>1, <2>3, <2>4 DEF StrictPairs, Kept
  <2> QED
    BY <1>1, <1>2, <2>3, <2>4, <2>5, OthersPreserve
<1>4. CASE (peer_after[pos] # 0 \/ found = {}) /\ UNCHANGED <<peer_before, peer_after>>
  <2>1. PeersAreMutual' /\ StrictPairs'
    BY <1>1, <1>4 DEF PInv, PeersAreMutual, StrictPairs
  <2>2. /\ peer_before' \in [DOMAIN before -> {0} \cup DOMAIN after]
        /\ peer_after' \in [DOMAIN after -> {0} \cup DOMAIN before]
    BY <1>4 DEF PInv, PeeringTypeOK
  <2>3. ASSUME NEW j \in DOMAIN before, process_pair(after[n], before[j])
        PROVE  peer_after[n] # 0 \/ peer_before[j] # 0
    BY <1>n, <1>4, <2>3 DEF Free, PInv, PeeringTypeOK
  <2>4. ASSUME NEW j \in DOMAIN before, strict, after[n] = before[j]
        PROVE  Kept(n) \/ KeptBefore(j)
    <3>1. peer_after[n] # 0 \/ peer_before[j] # 0
      BY <2>3, <2>4 DEF process_pair
    <3>2. CASE peer_after[n] # 0
      BY <1>1, <2>4, <3>2 DEF PInv, StrictPairs, Kept
    <3>3. CASE peer_before[j] # 0
      BY <2>4, <3>3 DEF PInv, PeeringTypeOK, PeersAreMutual, StrictPairs, KeptBefore
    <3> QED
      BY <3>1, <3>2, <3>3
  <2>5. ASSUME NEW j \in DOMAIN before, ~strict, SameName(n, j)
        PROVE  peer_after[n] # 0 \/ peer_before[j] # 0
    BY <2>3, <2>5 DEF process_pair, SameName
  <2>6. \A j \in DOMAIN before : strict /\ after[n] = before[j] => Kept(n)' \/ KeptBefore(j)'
    BY <1>1, <1>4, <2>4 DEF Kept, KeptBefore
  <2> QED
    BY <1>1, <1>2, <1>4, <2>1, <2>2, <2>5, <2>6, OthersPreserve
<1> QED
  BY <1>3, <1>4 DEF MatchAfter

\* A turn of the loop over the "before" rules takes nothing away.
LEMMA MatchBeforePreserves == PInv /\ MatchBefore => PInv'
<1> SUFFICES ASSUME PInv, MatchBefore
             PROVE  PInv'
  OBVIOUS
<1> DEFINE found == {i \in Free(peer_after) : process_pair(before[pos], after[i])}
<1>1. /\ side = "before" /\ pos \in DOMAIN before
      /\ pos' = pos + 1
      /\ UNCHANGED <<before, after, strict, side>>
  BY DEF MatchBefore
<1>2. pos' \in Nat \ {0}
  BY <1>1 DEF PInv, PeeringTypeOK
<1>3. CASE peer_before[pos] = 0 /\ \E i \in found : First(i, found) /\ set_peers(pos, i)
  <2>1. PICK i \in found : set_peers(pos, i)
    BY <1>3
  <2>2. i \in DOMAIN after /\ peer_after[i] = 0 /\ process_pair(before[pos], after[i])
    BY <2>1 DEF Free, PInv, PeeringTypeOK
  <2>3. /\ peer_before' \in [DOMAIN before -> {0} \cup DOMAIN after]
        /\ peer_after' \in [DOMAIN after -> {0} \cup DOMAIN before]
        /\ PeersAreMutual' /\ StrictPairs'
        /\ \A m \in DOMAIN after : peer_after[m] # 0 => peer_after'[m] = peer_after[m]
        /\ \A m \in DOMAIN before : peer_before[m] # 0 => peer_before'[m] = peer_before[m]
    BY <1>1, <1>3, <2>1, <2>2, SetPeersPreserves
  <2> QED
    BY <1>1, <1>2, <2>3, OthersPreserve
<1>4. CASE UNCHANGED <<peer_before, peer_after>>
  <2>1. PeersAreMutual' /\ StrictPairs'
    BY <1>1, <1>4 DEF PInv, PeersAreMutual, StrictPairs
  <2>2. /\ peer_before' \in [DOMAIN before -> {0} \cup DOMAIN after]
        /\ peer_after' \in [DOMAIN after -> {0} \cup DOMAIN before]
    BY <1>4 DEF PInv, PeeringTypeOK
  <2> QED
    BY <1>1, <1>2, <1>4, <2>1, <2>2, OthersPreserve
<1> QED
  BY <1>3, <1>4 DEF MatchBefore

\* At the end of a loop its whole list has been through it.
LEMMA NextLoopPreserves == PInv /\ NextLoop => PInv'
<1> SUFFICES ASSUME PInv, NextLoop
             PROVE  PInv'
  OBVIOUS
<1>1. UNCHANGED <<before, after, peer_before, peer_after>> /\ pos' = 1
  BY DEF NextLoop
<1>2. side = "after" => \A i \in DOMAIN after : i < pos
  BY DEF NextLoop, PInv, PeeringTypeOK
<1>3. /\ side \in {"after", "before"} /\ strict \in BOOLEAN
      /\ side' = IF side = "after" THEN "before" ELSE IF strict THEN "after" ELSE "none"
      /\ strict' = (strict /\ side # "before")
  BY DEF NextLoop, PInv, PeeringTypeOK
<1>4. PeeringTypeOK'
  BY <1>1, <1>3 DEF PInv, PeeringTypeOK
<1>5. PeersAreMutual' /\ StrictPairs'
  BY <1>1, <1>3 DEF PInv, PeersAreMutual, StrictPairs
<1>6. Settled'
  BY <1>1, <1>2, <1>3 DEF PInv, Settled, Kept, KeptBefore
<1>7. Exhausted'
  <2>1. CASE strict
    <3>1. \A i \in DOMAIN after : ~(i < pos')
      BY <1>1 DEF PInv, PeeringTypeOK
    <3>2. ~strict' => side' = "after"
      BY <1>3, <2>1
    <3> QED
      BY <1>1, <3>1, <3>2 DEF Exhausted
  <2>2. CASE ~strict
    BY <1>1, <1>2, <1>3, <2>2 DEF PInv, Exhausted, SameName
  <2> QED
    BY <2>1, <2>2
<1>8. Finished'
  BY <1>3 DEF Finished
<1> QED
  BY <1>4, <1>5, <1>6, <1>7, <1>8 DEF PInv

\* find_deprule_peers() keeps it, and so does whatever leaves the rules alone.
LEMMA FindPeersPreserves == PInv /\ (FindPeers \/ UNCHANGED peering) => PInv'
<1>1. PInv /\ FindPeers => PInv'
  BY MatchAfterPreserves, MatchBeforePreserves, NextLoopPreserves DEF FindPeers
<1>2. PInv /\ UNCHANGED peering => PInv'
  BY DEF PInv, PeeringTypeOK, PeersAreMutual, StrictPairs, Settled, Exhausted, Finished,
         Kept, KeptBefore, SameName, peering
<1> QED
  BY <1>1, <1>2

(***************************************************************************)
(* The inspection.                                                         *)
(***************************************************************************)

Peers == UNION {[1 .. n -> Nat] : n \in Nat}
Deps == [before : Seq(Rule), after : Seq(Rule), peer_before : Peers, peer_after : Peers]

\* The rules of the packages that the first pass has been through.
Gathering ==
    /\ input \in Inputs
    /\ deps \in Seq(Deps)
    /\ phase \in {"gather", "pair"} => Len(deps) + 1 = k /\ Len(deps) <= Len(packages)
    /\ phase = "pair" => k \in DOMAIN packages
    /\ phase \notin {"gather", "pair"} => Len(deps) = Len(packages)
    /\ phase = "closure" => k \in DOMAIN packages

Inv == TypeOK /\ PInv /\ Gathering

-----------------------------------------------------------------------------
(***************************************************************************)
(* The rules of a header, taken one after another.                         *)
(***************************************************************************)

\* The numbers are well-founded, as a relation that can be picked.
LEMMA NumbersDescend ==
    \E R : /\ IsWellFoundedOn(R, Nat)
          /\ \A a, b \in Nat : a < b => <<a, b>> \in R
<1>1. \A a, b \in Nat : a < b => <<a, b>> \in OpToRel(<, Nat)
  BY DEF OpToRel
<1> QED
  BY <1>1, NatLessThanWellFounded, Zenon

\* Induction over the numbers: the least one outside S would be neither 0 nor
\* the next of one in S.
LEMMA Induction ==
    ASSUME NEW S, 0 \in S, \A n \in Nat : n \in S => n + 1 \in S
    PROVE  Nat \subseteq S
<1> SUFFICES ASSUME NEW z \in Nat, z \notin S
             PROVE  FALSE
  OBVIOUS
<1> DEFINE T == {n \in Nat : n \notin S}
<1>1. T \subseteq Nat /\ T # {}
  OBVIOUS
<1>2. PICK R : /\ IsWellFoundedOn(R, Nat)
               /\ \A a, b \in Nat : a < b => <<a, b>> \in R
  BY NumbersDescend
<1>3. PICK m \in T : \A y \in T : ~(<<y, m>> \in R)
  <2> HIDE DEF T
  <2>1. IsWellFoundedOn(R, Nat)
    BY <1>2, Zenon
  <2> QED
    BY <1>1, <2>1, WFMin, Zenon
<1>4. m # 0 /\ m - 1 \in Nat /\ m - 1 < m
  BY <1>3
<1>5. m - 1 \notin T
  BY <1>2, <1>3, <1>4, Zenon
<1> QED
  BY <1>3, <1>4, <1>5

Keeps(rule, type) ==
    rule.type = type /\ rule.name \notin Generated /\ <<type, rule.name>> \notin Ignored

\* g has the rules kept of the first n, for each n up to N.
Keeping(g, N, header, type) ==
    g = [n \in 0 .. N |->
            IF n = 0 THEN <<>>
            ELSE IF Keeps(header[n], type) THEN Append(g[n - 1], header[n])
            ELSE g[n - 1]]

LEMMA KeepingExists ==
    ASSUME NEW header, NEW type, NEW N \in Nat
    PROVE  \E g : Keeping(g, N, header, type)
<1> DEFINE S == {n \in Nat : \E g : Keeping(g, n, header, type)}
<1>1. 0 \in S
  <2> DEFINE g == [n \in 0 .. 0 |-> <<>>]
  <2>1. Keeping(g, 0, header, type)
    BY DEF Keeping
  <2> QED
    BY <2>1
<1>2. ASSUME NEW n \in Nat, n \in S
      PROVE  n + 1 \in S
  <2>1. PICK g : Keeping(g, n, header, type)
    BY <1>2
  <2> DEFINE last == IF Keeps(header[n + 1], type) THEN Append(g[n], header[n + 1]) ELSE g[n]
             h == [m \in 0 .. n + 1 |-> IF m = n + 1 THEN last ELSE g[m]]
  <2>2. /\ \A m \in 0 .. n : h[m] = g[m]
        /\ h[n + 1] = last
        /\ h = [m \in 0 .. n + 1 |-> h[m]]
    OBVIOUS
  <2> HIDE DEF h, last
  <2>3. h[0] = <<>>
    <3>1. g[0] = <<>>
      BY <2>1 DEF Keeping
    <3>2. h[0] = g[0]
      <4>1. 0 \in 0 .. n
        OBVIOUS
      <4> QED
        BY <4>1, <2>2, Zenon
    <3> QED
      BY <3>1, <3>2
  <2>4. ASSUME NEW m \in 0 .. n + 1, m # 0
        PROVE  h[m] = IF Keeps(header[m], type) THEN Append(h[m - 1], header[m])
                      ELSE h[m - 1]
    <3>1. CASE m = n + 1
      <4>1. m - 1 = n /\ n \in 0 .. n
        BY <3>1
      <4>2. h[m - 1] = g[n]
        BY <4>1, <2>2, Zenon
      <4> QED
        BY <3>1, <4>2, <2>2, Zenon DEF last
    <3>2. CASE m # n + 1
      <4>1. m \in 0 .. n /\ m - 1 \in 0 .. n
        BY <2>4, <3>2
      <4>2. g[m] = IF Keeps(header[m], type) THEN Append(g[m - 1], header[m]) ELSE g[m - 1]
        BY <2>1, <2>4, <4>1 DEF Keeping
      <4> QED
        BY <4>1, <4>2, <2>2
    <3> QED
      BY <3>1, <3>2
  <2>5. Keeping(h, n + 1, header, type)
    BY <2>2, <2>3, <2>4 DEF Keeping
  <2>6. n + 1 \in Nat
    OBVIOUS
  <2> QED
    BY <2>5, <2>6
<1> HIDE DEF S
<1>3. N \in S
  BY <1>1, <1>2, Induction
<1> QED
  BY <1>3 DEF S

\* What is kept of a sequence of rules is one.
LEMMA KeptAreRules ==
    ASSUME NEW header \in Seq(Rule), NEW type,
           NEW g, Keeping(g, Len(header), header, type)
    PROVE  g[Len(header)] \in Seq(Rule)
<1> DEFINE N == Len(header)
           S == {n \in Nat : n <= N => g[n] \in Seq(Rule)}
<1>1. N \in Nat /\ \A n \in 1 .. N : header[n] \in Rule
  <2> HIDE DEF Rule
  <2> QED
    OBVIOUS
<1>2. g[0] = <<>>
  BY <1>1 DEF Keeping
<1>3. ASSUME NEW n \in 1 .. N
      PROVE  g[n] = Append(g[n - 1], header[n]) \/ g[n] = g[n - 1]
  <2>1. n \in 0 .. N /\ n # 0
    BY <1>1
  <2>2. g[n] = IF Keeps(header[n], type) THEN Append(g[n - 1], header[n]) ELSE g[n - 1]
    BY <2>1, Zenon DEF Keeping
  <2> QED
    BY <2>2, Zenon
<1> HIDE DEF N, Rule
<1>4. 0 \in S
  <2>1. <<>> \in Seq(Rule)
    OBVIOUS
  <2> QED
    BY <1>2, <2>1
<1>5. ASSUME NEW n \in Nat, n \in S
      PROVE  n + 1 \in S
  <2> SUFFICES ASSUME n + 1 <= N
               PROVE  g[n + 1] \in Seq(Rule)
    OBVIOUS
  <2>1. n + 1 \in 1 .. N /\ (n + 1) - 1 = n /\ g[n] \in Seq(Rule)
    BY <1>1, <1>5
  <2>2. header[n + 1] \in Rule
    BY <1>1, <2>1
  <2>3. g[n + 1] = Append(g[n], header[n + 1]) \/ g[n + 1] = g[n]
    BY <1>3, <2>1
  <2>4. \A s \in Seq(Rule) : \A e \in Rule : Append(s, e) \in Seq(Rule)
    OBVIOUS
  <2> QED
    BY <2>1, <2>2, <2>3, <2>4, Zenon
<1> HIDE DEF S
<1>6. N \in S
  BY <1>1, <1>4, <1>5, Induction
<1> QED
  BY <1>6, <1>1 DEF S, N

\* The rules of one type are a sequence of rules, ...
LEMMA GatheredByType ==
    ASSUME NEW header \in Seq(Rule), NEW type
    PROVE  gather_deprules_by_type(header, type) \in Seq(Rule)
<1> DEFINE rules[n \in 0 .. Len(header)] ==
               IF n = 0 THEN <<>>
               ELSE IF Keeps(header[n], type) THEN Append(rules[n - 1], header[n])
               ELSE rules[n - 1]
<1>1. gather_deprules_by_type(header, type) = rules[Len(header)]
  BY DEF gather_deprules_by_type, Keeps
<1>2. rules = CHOOSE g : Keeping(g, Len(header), header, type)
  BY DEF Keeping
<1> HIDE DEF rules
<1>3. Len(header) \in Nat
  OBVIOUS
<1>4. Keeping(rules, Len(header), header, type)
  BY <1>2, <1>3, KeepingExists
<1> QED
  BY <1>1, <1>4, KeptAreRules

\* ... and so are all of them.
LEMMA GatheredAreRules ==
    ASSUME NEW header \in Seq(Rule)
    PROVE  gather_deprules(header) \in Seq(Rule)
<1> DEFINE of(t) == gather_deprules_by_type(header, Types[t])
<1>1. of(1) \in Seq(Rule) /\ of(2) \in Seq(Rule) /\ of(3) \in Seq(Rule) /\ of(4) \in Seq(Rule)
  BY GatheredByType
<1>2. of(5) \in Seq(Rule) /\ of(6) \in Seq(Rule) /\ of(7) \in Seq(Rule) /\ of(8) \in Seq(Rule)
  BY GatheredByType
<1>3. gather_deprules(header)
          = of(1) \o of(2) \o of(3) \o of(4) \o of(5) \o of(6) \o of(7) \o of(8)
  BY DEF gather_deprules
<1> HIDE DEF of
<1>4. \A s, t \in Seq(Rule) : s \o t \in Seq(Rule)
  <2> HIDE DEF Rule
  <2> QED
    OBVIOUS
<1>5. of(1) \o of(2) \o of(3) \o of(4) \in Seq(Rule)
  BY <1>1, <1>4
<1>6. of(1) \o of(2) \o of(3) \o of(4) \o of(5) \o of(6) \in Seq(Rule)
  BY <1>2, <1>4, <1>5
<1> QED
  BY <1>2, <1>3, <1>4, <1>6

-----------------------------------------------------------------------------
\* What is assumed of the builds, for the one that is inspected.
LEMMA InputAssumed ==
    ASSUME input \in Inputs
    PROVE  /\ Len(packages) \in Nat /\ DOMAIN packages = 1 .. Len(packages)
           /\ \A i \in DOMAIN packages :
                 /\ gather_deprules(packages[i].before) \in Seq(Rule)
                 /\ gather_deprules(packages[i].after) \in Seq(Rule)
                 /\ packages[i].debug \in BOOLEAN
BY RpmDepsAssumption, GatheredAreRules DEF packages

LEMMA InitInv == Init => Inv
<1> SUFFICES ASSUME Init
             PROVE  Inv
  OBVIOUS
<1>1. PInv
  BY DEF Init, PInv, PeeringTypeOK, PeersAreMutual, StrictPairs, Settled, Exhausted, Finished
<1>2. TypeOK
  BY <1>1 DEF Init, PInv, TypeOK
<1>3. Gathering
  BY InputAssumed DEF Init, Gathering
<1> QED
  BY <1>1, <1>2, <1>3 DEF Inv

\* Every step calls find_deprule_peers(), goes on with it or leaves the
\* rules alone.
LEMMA PeeringSteps ==
    ASSUME Inv, [Next]_vars
    PROVE  PInv'
<1>1. CASE Gather
  <2>1. /\ gather_deprules(packages[k].before) \in Seq(Rule)
        /\ gather_deprules(packages[k].after) \in Seq(Rule)
    BY <1>1, InputAssumed DEF Gather, Inv, Gathering
  <2> QED
    BY <1>1, <2>1, CallEstablishes DEF Gather
<1>2. CASE Pair
  BY <1>2, FindPeersPreserves DEF Pair, Inv
<1>3. CASE UNCHANGED peering
  BY <1>3, FindPeersPreserves DEF Inv
<1>4. ASSUME [Next]_vars, ~Gather, ~Pair
      PROVE  UNCHANGED peering
  BY <1>4 DEF Next, vars, peering, Gathered, SecondPass, SkipRule, SeveralProviders, OneProvider,
              Collect, Decide, CheckEpoch, LastPass, Report, Return, Terminated
<1> QED
  BY <1>1, <1>2, <1>3, <1>4

\* What a package requires are names.
LEMMA FollowedNames ==
    ASSUME Gathering, phase \notin {"gather", "pair"}
    PROVE  /\ \A i \in DOMAIN packages : after_deps(i) \in Seq(Rule) /\ Followed(i) \subseteq Names
           /\ \A name \in Names : RequiredBy(name) \subseteq Names
<1>1. ASSUME NEW i \in DOMAIN packages
      PROVE  after_deps(i) \in Seq(Rule) /\ Followed(i) \subseteq Names
  <2>1. i \in DOMAIN deps
    BY InputAssumed DEF Gathering
  <2>2. after_deps(i) \in Seq(Rule)
    <3>1. deps[i] \in Deps
      BY <2>1 DEF Gathering
    <3> QED
      BY <3>1 DEF Deps, after_deps
  <2>3. ASSUME NEW m \in DOMAIN after_deps(i)
        PROVE  Bare[after_deps(i)[m].name] \in Names
    <3>1. after_deps(i)[m] \in Rule
      BY <2>2
    <3>2. after_deps(i)[m].name \in Names
      BY <3>1 DEF Rule
    <3> QED
      BY <3>2, RpmDepsAssumption
  <2> QED
    BY <2>2, <2>3 DEF Followed
<1> QED
  BY <1>1 DEF RequiredBy

\* The peers of the rules of a package are places in the other list.
LEMMA PeersArePeers ==
    ASSUME PeeringTypeOK
    PROVE  before \in Seq(Rule) /\ after \in Seq(Rule) /\ peer_before \in Peers /\ peer_after \in Peers
<1>1. /\ before \in Seq(Rule) /\ Len(before) \in Nat /\ DOMAIN before = 1 .. Len(before)
      /\ after \in Seq(Rule) /\ Len(after) \in Nat /\ DOMAIN after = 1 .. Len(after)
  BY DEF PeeringTypeOK
<1>2. peer_before \in [1 .. Len(before) -> Nat]
  BY <1>1 DEF PeeringTypeOK
<1>3. peer_after \in [1 .. Len(after) -> Nat]
  BY <1>1 DEF PeeringTypeOK
<1> QED
  BY <1>1, <1>2, <1>3 DEF Peers

LEMMA NextGathering ==
    ASSUME Inv, [Next]_vars
    PROVE  Gathering' /\ TypeOK'
<1> PeeringTypeOK'
  BY PeeringSteps DEF PInv
<1> Len(packages) \in Nat /\ DOMAIN packages = 1 .. Len(packages)
  BY InputAssumed DEF Inv, Gathering
<1> USE DEF Inv, Gathering, TypeOK, packages
<1>1. CASE Gather
  BY <1>1 DEF Gather
<1>2. CASE Pair
  BY <1>2 DEF Pair, inspecting
<1>3. CASE Gathered
  <2>1. before \in Seq(Rule) /\ after \in Seq(Rule) /\ peer_before \in Peers /\ peer_after \in Peers
    BY PeersArePeers
  <2>2. [before |-> before, after |-> after, peer_before |-> peer_before,
         peer_after |-> peer_after] \in Deps
    BY <2>1 DEF Deps
  <2>3. deps' \in Seq(Deps) /\ Len(deps') = Len(deps) + 1
    BY <1>3, <2>2 DEF Gathered
  <2> QED
    BY <1>3, <2>3 DEF Gathered
<1>4. CASE SecondPass
  BY <1>4 DEF SecondPass
<1>5. CASE SkipRule
  BY <1>5 DEF SkipRule, NextRule
<1>6. CASE SeveralProviders
  <2>1. r' = r + 1 /\ UNCHANGED <<peering, input, deps, phase, k, transitive, visited>>
    BY <1>6 DEF SeveralProviders, NextRule
  <2>2. result' \in BOOLEAN
    BY <1>6 DEF SeveralProviders
  <2> QED
    BY <2>1, <2>2
<1>7. CASE OneProvider
  <2>1. Followed(k) \subseteq Names
    BY <1>7, FollowedNames DEF OneProvider
  <2>2. PICK pn \in Names :
           IF direct(k, pn) \/ packages[k].name = pn
           THEN NextRule /\ UNCHANGED <<phase, transitive, visited>>
           ELSE /\ transitive' = Followed(k) /\ visited' = {}
                /\ phase' = "closure"
                /\ UNCHANGED r
    BY <1>7 DEF OneProvider
  <2>3. CASE NextRule /\ UNCHANGED <<phase, transitive, visited>>
    BY <1>7, <2>3 DEF OneProvider, NextRule
  <2>4. CASE transitive' = Followed(k) /\ visited' = {} /\ phase' = "closure" /\ UNCHANGED r
    BY <1>7, <2>1, <2>4 DEF OneProvider
  <2> QED
    BY <2>2, <2>3, <2>4
<1>8. CASE Collect
  <2>1. PICK name \in transitive \ visited :
           transitive' = transitive \cup RequiredBy(name) /\ visited' = visited \cup {name}
    BY <1>8 DEF Collect
  <2>2. RequiredBy(name) \subseteq Names
    BY <1>8, FollowedNames DEF Collect
  <2> QED
    BY <1>8, <2>1, <2>2 DEF Collect
<1>9. CASE Decide
  <2>1. result' \in BOOLEAN
    BY <1>9, InputAssumed DEF Decide, report_missing
  <2> QED
    BY <1>9, <2>1 DEF Decide, NextRule
<1>10. CASE CheckEpoch
  BY <1>10 DEF CheckEpoch
<1>11. CASE LastPass
  BY <1>11 DEF LastPass
<1>12. CASE Report
  BY <1>12 DEF Report
<1>13. CASE Return
  BY <1>13 DEF Return
<1>14. CASE UNCHANGED vars
  BY <1>14 DEF vars
<1> QED
  BY <1>1, <1>2, <1>3, <1>4, <1>5, <1>6, <1>7, <1>8, <1>9, <1>10, <1>11, <1>12, <1>13, <1>14
     DEF Next, Terminated

LEMMA NextInv == Inv /\ [Next]_vars => Inv'
BY PeeringSteps, NextGathering DEF Inv

LEMMA Invariance == Spec => []Inv
BY InitInv, NextInv, PTL DEF Spec

-----------------------------------------------------------------------------
\* Every variable holds a value of its type and peers are rules of the other
\* list, whatever the builds.
THEOREM TypeCorrect == Spec => []TypeOK
<1>1. Inv => TypeOK
  BY DEF Inv
<1> QED
  BY <1>1, Invariance, PTL

\* Pairs are mutual and of one type, whatever the headers say.
THEOREM MutualPeers == Spec => []PeersAreMutual
<1>1. Inv => PeersAreMutual
  BY PInvEnough DEF Inv
<1> QED
  BY <1>1, Invariance, PTL

\* A rule of both packages is paired with its like: the lenient pass takes
\* nothing from it.
THEOREM RetainedPeers == Spec => []UnchangedIsRetained
<1>1. Inv => UnchangedIsRetained
  BY PInvEnough DEF Inv
<1> QED
  BY <1>1, Invariance, PTL

\* Of two rules of one type and name, one in each package, one has a peer.
THEOREM NoRuleBothWays == Spec => []NothingGainedAndLost
<1>1. Inv => NothingGainedAndLost
  BY PInvEnough DEF Inv
<1> QED
  BY <1>1, Invariance, PTL

-----------------------------------------------------------------------------
\* So far the verdict is that of the findings, and no finding says that all
\* is well before the end.
Harmless(f) == f.severity \in {"INFO", "OK"} /\ f.what # "epoch"

VerdictSoFar ==
    /\ result <=> \A f \in findings : Harmless(f)
    /\ phase # "done" => \A f \in findings : f.what # "fine"

\* A step that adds findings of one kind, and fails if there are any of them.
LEMMA VerdictStep ==
    ASSUME VerdictSoFar, NEW new, findings' = findings \cup new,
           result' \in BOOLEAN, result' <=> result /\ \A f \in new : Harmless(f),
           \A f \in new : f.what # "fine", phase # "done"
    PROVE  VerdictSoFar'
BY DEF VerdictSoFar, Harmless

LEMMA NextVerdict ==
    ASSUME Inv, VerdictSoFar, [Next]_vars
    PROVE  VerdictSoFar' \/ Return
<1> result \in BOOLEAN
  BY DEF Inv, TypeOK
<1>1. CASE Gathered
  <2>1. \A f \in have_unexpanded_macros : f.what = "macro" /\ f.severity = "BAD"
    BY DEF have_unexpanded_macros, Finding
  <2>2. result' <=> result /\ \A f \in have_unexpanded_macros : Harmless(f)
    BY <1>1, <2>1 DEF Gathered, Harmless
  <2>3. result' \in BOOLEAN /\ phase # "done" /\ findings' = findings \cup have_unexpanded_macros
    BY <1>1 DEF Gathered
  <2> QED
    BY <2>1, <2>2, <2>3, VerdictStep
<1>2. CASE SeveralProviders
  <2>1. PICK new \in {{}, {Finding("multiple", "VERIFY", k, r)}} :
           findings' = findings \cup new /\ result' = (result /\ new = {})
    BY <1>2 DEF SeveralProviders
  <2>2. \A f \in new : f.what = "multiple" /\ f.severity = "VERIFY"
    BY <2>1 DEF Finding
  <2>3. result' <=> result /\ \A f \in new : Harmless(f)
    BY <2>1, <2>2 DEF Harmless
  <2>4. result' \in BOOLEAN /\ phase # "done"
    BY <1>2, <2>1 DEF SeveralProviders
  <2> QED
    BY <2>1, <2>2, <2>3, <2>4, VerdictStep
<1>3. CASE Decide
  <2>1. packages[k].debug \in BOOLEAN
    BY <1>3, InputAssumed DEF Decide, Inv, Gathering
  <2>2. PICK new \in {{}, {Finding("missing", "VERIFY", k, r)}} :
           findings' = findings \cup new /\ result' = (result /\ new = {})
    BY <1>3, <2>1 DEF Decide, report_missing
  <2>3. \A f \in new : f.what = "missing" /\ f.severity = "VERIFY"
    BY <2>2 DEF Finding
  <2>4. result' <=> result /\ \A f \in new : Harmless(f)
    BY <2>2, <2>3 DEF Harmless
  <2>5. result' \in BOOLEAN /\ phase # "done"
    BY <1>3, <2>2 DEF Decide
  <2> QED
    BY <2>2, <2>3, <2>4, <2>5, VerdictStep
<1>4. CASE CheckEpoch
  <2> DEFINE lacking == {n \in DOMAIN after_deps(k) : LacksEpoch(k, n)}
  <2> DEFINE new == {Finding("epoch", IF input.rebase THEN "INFO" ELSE "BAD", k, n) : n \in lacking}
  <2>1. findings' = findings \cup new /\ result' = (result /\ lacking = {}) /\ phase # "done"
    BY <1>4 DEF CheckEpoch
  <2>2. \A f \in new : f.what = "epoch"
    BY DEF Finding
  <2>3. lacking = {} <=> new = {}
    OBVIOUS
  <2> HIDE DEF new, lacking
  <2>4. (result' <=> result /\ \A f \in new : Harmless(f)) /\ result' \in BOOLEAN
    BY <2>1, <2>2, <2>3 DEF Harmless
  <2> QED
    BY <2>1, <2>2, <2>4, VerdictStep
<1>5. CASE Report
  <2>1. \A d, n : change(d, n) \in {"gained", "retained", "changed"}
    BY DEF change
  <2> DEFINE kept == {Finding(change(deps[k], n), "INFO", k, n) : n \in DOMAIN deps[k].after}
  <2> DEFINE lost == {Finding("lost", "INFO", k, n) :
                      n \in {n \in DOMAIN deps[k].before : deps[k].peer_before[n] = 0}}
  <2> DEFINE new == IF packages[k].gone THEN {} ELSE kept \cup lost
  <2>2. /\ findings' = findings \cup new
        /\ \A f \in new : /\ f.what \in {"gained", "retained", "changed", "lost"}
                          /\ f.severity = "INFO"
    <3>1. findings' = findings \cup new
      BY <1>5 DEF Report
    <3>2. \A f \in kept : f.what \in {"gained", "retained", "changed"} /\ f.severity = "INFO"
      BY <2>1 DEF Finding
    <3>3. \A f \in lost : f.what = "lost" /\ f.severity = "INFO"
      BY DEF Finding
    <3> HIDE DEF kept, lost
    <3> QED
      BY <3>1, <3>2, <3>3
  <2> HIDE DEF new
  <2>3. result' = result /\ phase # "done"
    BY <1>5 DEF Report
  <2>4. \A f \in new : Harmless(f) /\ f.what # "fine"
    BY <2>2 DEF Harmless
  <2> QED
    BY <2>2, <2>3, <2>4, VerdictStep
<1>6. ASSUME UNCHANGED <<findings, result>>, phase = "done" => phase' = "done"
      PROVE  VerdictSoFar'
  <2>1. result' <=> \A f \in findings' : Harmless(f)
    BY <1>6 DEF VerdictSoFar
  <2>2. phase' # "done" => \A f \in findings' : f.what # "fine"
    BY <1>6 DEF VerdictSoFar
  <2> QED
    BY <2>1, <2>2 DEF VerdictSoFar, Harmless
<1>7. ASSUME ~Gathered, ~SeveralProviders, ~Decide, ~CheckEpoch, ~Report, ~Return
      PROVE  UNCHANGED <<findings, result>> /\ (phase = "done" => phase' = "done")
  BY <1>7 DEF Next, vars, inspecting, Gather, Pair, SecondPass, SkipRule, OneProvider, Collect,
              LastPass, Terminated
<1> QED
  BY <1>1, <1>2, <1>3, <1>4, <1>5, <1>6, <1>7

\* At the end, that all is well is said if and only if the result is true.
Said == phase = "done" => (result <=> Finding("fine", "OK", 0, 0) \in findings)

LEMMA ReturnSays ==
    ASSUME Inv, VerdictSoFar, Return
    PROVE  VerdictSoFar' /\ Said'
<1> DEFINE fine == Finding("fine", "OK", 0, 0)
<1>1. /\ findings' = findings \cup (IF result THEN {fine} ELSE {})
      /\ phase # "done" /\ phase' = "done" /\ result' = result
  BY DEF Return
<1>2. Harmless(fine) /\ fine.what = "fine"
  BY DEF Harmless, Finding
<1>3. fine \notin findings
  BY <1>1, <1>2 DEF VerdictSoFar
<1> HIDE DEF fine
<1>4. result' <=> \A f \in findings' : Harmless(f)
  BY <1>1, <1>2 DEF VerdictSoFar
<1>5. result' <=> fine \in findings'
  BY <1>1, <1>3
<1> QED
  BY <1>1, <1>4, <1>5 DEF VerdictSoFar, Said, Harmless, fine, Finding

LEMMA NextSaid ==
    ASSUME Said, [Next]_vars, ~Return
    PROVE  Said'
<1>1. CASE phase = "done"
  <2>1. UNCHANGED vars
    BY <1>1 DEF Next, Gather, Pair, Gathered, SecondPass, SkipRule, SeveralProviders, OneProvider,
                Collect, Decide, CheckEpoch, LastPass, Report, Terminated
  <2> QED
    BY <2>1 DEF Said, vars, Finding
<1>2. CASE phase # "done"
  <2>1. phase' # "done"
    BY <1>2 DEF Next, vars, inspecting, Gather, Pair, Gathered, SecondPass, SkipRule,
                SeveralProviders, OneProvider, Collect, Decide, CheckEpoch, LastPass, Report,
                Terminated
  <2> QED
    BY <2>1 DEF Said
<1> QED
  BY <1>1, <1>2

\* The inspection fails if and only if something it added is worse than
\* information or about an epoch, and says that all is well otherwise: the
\* verdict of one package is not lost in that of the next, whatever the
\* number of packages.
THEOREM VerdictHolds == Spec => []VerdictMatchesFindings
<1>1. Init => VerdictSoFar /\ Said
  BY DEF Init, VerdictSoFar, Said
<1>2. Inv /\ VerdictSoFar /\ Said /\ [Next]_vars => VerdictSoFar' /\ Said'
  BY NextVerdict, ReturnSays, NextSaid
<1>3. VerdictSoFar /\ Said => VerdictMatchesFindings
  BY DEF VerdictSoFar, Said, VerdictMatchesFindings, Harmless
<1> QED
  BY <1>1, <1>2, <1>3, Invariance, PTL DEF Spec

-----------------------------------------------------------------------------
\* A rule whose library nothing justifies, and the finding about it.
Unjustified(i, n) ==
    /\ IsLib(after_deps(i)[n]) /\ ~packages[i].debug
    /\ \E pn \in Names : providers(i, n) = {pn} /\ ~Justified(i, pn)

Missing(i, n) == Finding("missing", "VERIFY", i, n)

\* The rules that the second pass has been through.
Checked(i, n) ==
    /\ phase \notin {"gather", "pair"}
    /\ phase \in {"libs", "closure"} => i < k \/ (i = k /\ n < r)

\* Every rule is reported if and only if it is checked and not justified.
ReportedSoFar ==
    \A i \in DOMAIN packages : \A n \in Nat :
        Missing(i, n) \in findings
        <=> Checked(i, n) /\ n \in DOMAIN after_deps(i) /\ Unjustified(i, n)

\* The list that is being collected: all that the package requires itself,
\* nothing that it does not require, and what the names that the loop has
\* been through require.
Collecting ==
    /\ phase \in {"gather", "pair"} => r = 1
    /\ phase = "closure" =>
        /\ r \in DOMAIN after_deps(k) /\ IsLib(after_deps(k)[r])
        /\ \E pn \in Names : /\ providers(k, r) = {pn}
                             /\ ~direct(k, pn) /\ packages[k].name # pn
        /\ Followed(k) \subseteq transitive /\ transitive \subseteq Reachable(k)
        /\ \A name \in visited : RequiredBy(name) \subseteq transitive

\* What is collected at the end of the loop is all that the package requires,
\* directly or not.
LEMMA CollectedAll ==
    ASSUME TypeOK, Collecting, phase = "closure", transitive \subseteq visited
    PROVE  transitive = Reachable(k)
<1>1. transitive \subseteq Names /\ Followed(k) \subseteq transitive /\ Closed(transitive)
  BY DEF TypeOK, Collecting, Closed
<1>2. Reachable(k) \subseteq transitive
  BY <1>1 DEF Reachable
<1> QED
  BY <1>2 DEF Collecting

\* The definitions that depend on the gathered rules do not change after that.
LEMMA SameRules ==
    ASSUME UNCHANGED <<input, deps>>, NEW i, NEW n
    PROVE  /\ after_deps(i)' = after_deps(i) /\ packages' = packages
           /\ providers(i, n)' = providers(i, n)
           /\ \A pn : direct(i, pn)' = direct(i, pn)
           /\ Followed(i)' = Followed(i)
           /\ \A name : RequiredBy(name)' = RequiredBy(name)
           /\ Reachable(i)' = Reachable(i)
           /\ Unjustified(i, n)' = Unjustified(i, n)
<1>1. /\ \A j : after_deps(j)' = after_deps(j)
      /\ packages' = packages /\ input' = input /\ mainpkgname' = mainpkgname
  BY DEF after_deps, packages, mainpkgname
<1>2. \A j, m : providers(j, m)' = providers(j, m)
  BY <1>1 DEF providers, Provides
<1>3. \A j, pn : direct(j, pn)' = direct(j, pn)
  BY <1>1 DEF direct
<1>4. \A j : Followed(j)' = Followed(j)
  BY <1>1 DEF Followed, is_subpackage
<1>5. \A name : RequiredBy(name)' = RequiredBy(name)
  BY <1>1, <1>4 DEF RequiredBy
<1>6. \A j : Reachable(j)' = Reachable(j)
  BY <1>4, <1>5 DEF Reachable, Closed
<1>7. \A j, pn : Justified(j, pn)' = Justified(j, pn)
  BY <1>1, <1>3, <1>5, <1>6 DEF Justified
<1>8. Unjustified(i, n)' = Unjustified(i, n)
  BY <1>1, <1>2, <1>7 DEF Unjustified
<1> QED
  BY <1>1, <1>2, <1>3, <1>4, <1>5, <1>6, <1>8

LEMMA NextCollecting ==
    ASSUME Inv, Collecting, [Next]_vars
    PROVE  Collecting'
<1> Inv'
  BY NextInv
<1>1. CASE OneProvider
  <2>1. /\ phase = "libs" /\ k \in DOMAIN packages /\ r \in DOMAIN after_deps(k)
        /\ IsLib(after_deps(k)[r]) /\ UNCHANGED <<input, deps, k>>
    BY <1>1 DEF OneProvider
  <2>2. PICK pn \in Names :
           /\ providers(k, r) = {pn}
           /\ IF direct(k, pn) \/ packages[k].name = pn
              THEN NextRule /\ UNCHANGED <<phase, transitive, visited>>
              ELSE /\ transitive' = Followed(k) /\ visited' = {}
                   /\ phase' = "closure"
                   /\ UNCHANGED r
    BY <1>1 DEF OneProvider
  <2>3. CASE direct(k, pn) \/ packages[k].name = pn
    BY <2>1, <2>2, <2>3 DEF Collecting
  <2>4. CASE ~direct(k, pn) /\ packages[k].name # pn
    <3>1. transitive' = Followed(k) /\ visited' = {} /\ phase' = "closure" /\ r' = r
      BY <2>2, <2>4
    <3>2. Followed(k) \subseteq Names
      BY <2>1, FollowedNames DEF Inv
    <3>3. Followed(k) \subseteq Reachable(k)
      BY <3>2 DEF Reachable
    <3>4. PICK i, n : i = k /\ n = r
      OBVIOUS
    <3>5. /\ after_deps(i)' = after_deps(i) /\ packages' = packages
          /\ providers(i, n)' = providers(i, n) /\ direct(i, pn)' = direct(i, pn)
          /\ Followed(i)' = Followed(i) /\ Reachable(i)' = Reachable(i)
      BY <2>1, SameRules
    <3>6. k' = i /\ r' = n
      BY <2>1, <3>1, <3>4
    <3>7. /\ r \in DOMAIN after_deps(k) /\ IsLib(after_deps(k)[r])
          /\ providers(k, r) = {pn} /\ ~direct(k, pn) /\ packages[k].name # pn
      BY <2>1, <2>2, <2>4
    <3> QED
      BY <3>1, <3>3, <3>4, <3>5, <3>6, <3>7 DEF Collecting, IsLib
  <2> QED
    BY <2>3, <2>4
<1>2. CASE Collect
  <2>1. PICK name \in transitive \ visited :
           transitive' = transitive \cup RequiredBy(name) /\ visited' = visited \cup {name}
    BY <1>2 DEF Collect
  <2>2. phase = "closure" /\ UNCHANGED <<input, deps, phase, k, r>>
    BY <1>2 DEF Collect
  <2>3. RequiredBy(name) \subseteq Names /\ name \in Reachable(k)
    BY <2>1, <2>2, FollowedNames DEF Inv, TypeOK, Collecting
  <2>4. RequiredBy(name) \subseteq Reachable(k)
    BY <2>3 DEF Reachable, Closed
  <2>5. /\ r \in DOMAIN after_deps(k) /\ IsLib(after_deps(k)[r])
        /\ \E pn \in Names : providers(k, r) = {pn} /\ ~direct(k, pn) /\ packages[k].name # pn
        /\ Followed(k) \subseteq transitive' /\ transitive' \subseteq Reachable(k)
        /\ \A m \in visited' : RequiredBy(m) \subseteq transitive'
    BY <2>1, <2>2, <2>4 DEF Collecting
  <2>6. PICK i, n : i = k /\ n = r
    OBVIOUS
  <2>7. /\ after_deps(i)' = after_deps(i) /\ packages' = packages
        /\ providers(i, n)' = providers(i, n) /\ \A pn : direct(i, pn)' = direct(i, pn)
        /\ Followed(i)' = Followed(i) /\ Reachable(i)' = Reachable(i)
        /\ \A m : RequiredBy(m)' = RequiredBy(m)
    BY <2>2, SameRules
  <2> QED
    BY <2>2, <2>5, <2>6, <2>7 DEF Collecting, IsLib
<1>3. CASE UNCHANGED vars
  BY <1>3 DEF vars, Collecting, after_deps, providers, Provides, packages, direct, Followed,
              is_subpackage, RequiredBy, Reachable, Closed, IsLib
<1>4. CASE Pair
  BY <1>4 DEF Pair, inspecting, Collecting
<1>5. ASSUME Next, ~OneProvider, ~Collect, ~Terminated, ~Pair
      PROVE  phase' # "closure" /\ (phase' \in {"gather", "pair"} => phase \in {"gather", "pair"} /\ r' = r)
  BY <1>5 DEF Next, Gather, Gathered, SecondPass, SkipRule, SeveralProviders, Decide,
              CheckEpoch, LastPass, Report, Return
<1> QED
  BY <1>1, <1>2, <1>3, <1>4, <1>5 DEF Collecting, Terminated

\* A step that reports nothing missing and goes past no rule.
LEMMA NothingReported ==
    ASSUME ReportedSoFar, UNCHANGED <<input, deps>>,
           \A i, n : Missing(i, n) \in findings' <=> Missing(i, n) \in findings,
           \A i \in DOMAIN packages : \A n \in DOMAIN after_deps(i) : Checked(i, n)' <=> Checked(i, n)
    PROVE  ReportedSoFar'
<1> SUFFICES ASSUME NEW i \in DOMAIN packages, NEW n \in Nat
             PROVE  Missing(i, n)' \in findings'
                    <=> Checked(i, n)' /\ n \in DOMAIN after_deps(i)' /\ Unjustified(i, n)'
  BY DEF ReportedSoFar, packages
<1>1. Missing(i, n)' = Missing(i, n)
  BY DEF Missing, Finding
<1>2. Missing(i, n)' \in findings' <=> Missing(i, n) \in findings
  BY <1>1
<1>3. after_deps(i)' = after_deps(i) /\ Unjustified(i, n)' = Unjustified(i, n)
  BY SameRules
<1> QED
  BY <1>2, <1>3 DEF ReportedSoFar

\* A step that is done with the rule at its place.
LEMMA RuleDone ==
    ASSUME Inv, ReportedSoFar, UNCHANGED <<input, deps, k>>,
           phase \in {"libs", "closure"}, phase' = "libs", r' = r + 1,
           k \in DOMAIN packages, r \in DOMAIN after_deps(k),
           \A i, n : (i # k \/ n # r) => (Missing(i, n) \in findings' <=> Missing(i, n) \in findings),
           Missing(k, r) \notin findings => (Missing(k, r) \in findings' <=> Unjustified(k, r))
    PROVE  ReportedSoFar'
<1> SUFFICES ASSUME NEW i \in DOMAIN packages, NEW n \in Nat
             PROVE  Missing(i, n)' \in findings'
                    <=> Checked(i, n)' /\ n \in DOMAIN after_deps(i)' /\ Unjustified(i, n)'
  BY DEF ReportedSoFar, packages
<1>1. Missing(i, n)' = Missing(i, n)
  BY DEF Missing, Finding
<1>2. /\ after_deps(i)' = after_deps(i) /\ Unjustified(i, n)' = Unjustified(i, n)
  BY SameRules
<1>3. /\ i \in Nat /\ k \in Nat /\ r \in Nat
  BY InputAssumed DEF Inv, Gathering, TypeOK
<1>4. CASE i = k /\ n = r
  <2>1. ~Checked(k, r) /\ Checked(i, n)'
    BY <1>3, <1>4 DEF Checked
  <2>2. Missing(k, r) \notin findings
    BY <1>3, <2>1 DEF ReportedSoFar
  <2> QED
    BY <1>1, <1>2, <1>4, <2>1, <2>2
<1>5. CASE ~(i = k /\ n = r)
  <2>1. Checked(i, n)' <=> Checked(i, n)
    BY <1>3, <1>5 DEF Checked
  <2>2. Missing(i, n) \in findings' <=> Missing(i, n) \in findings
    BY <1>5
  <2> QED
    BY <1>1, <1>2, <2>1, <2>2 DEF ReportedSoFar
<1> QED
  BY <1>4, <1>5

LEMMA NextReported ==
    ASSUME Inv, Collecting, ReportedSoFar, [Next]_vars
    PROVE  ReportedSoFar'
<1>p. Len(packages) \in Nat /\ DOMAIN packages = 1 .. Len(packages) /\ k \in Nat \ {0} /\ r \in Nat \ {0}
  BY InputAssumed DEF Inv, Gathering, TypeOK
<1>o. ASSUME NEW new, findings' = findings \cup new, \A f \in new : f.what # "missing"
      PROVE  \A i, n : Missing(i, n) \in findings' <=> Missing(i, n) \in findings
  BY <1>o DEF Missing, Finding
<1>1. CASE Gather \/ Pair \/ Gathered
  <2>1. /\ \A i, n : ~Checked(i, n) /\ ~Checked(i, n)'
        /\ UNCHANGED input
    BY <1>1 DEF Gather, Pair, Gathered, inspecting, Checked
  <2>2. \A i, n : Missing(i, n) \in findings' <=> Missing(i, n) \in findings
    <3>1. \A f \in have_unexpanded_macros : f.what # "missing"
      BY DEF have_unexpanded_macros, Finding
    <3>2. CASE Gathered
      BY <3>1, <3>2, <1>o DEF Gathered
    <3>3. CASE Gather \/ Pair
      BY <3>3 DEF Gather, Pair, inspecting
    <3> QED
      BY <1>1, <3>2, <3>3
  <2>3. \A i, n : Missing(i, n)' = Missing(i, n)
    BY DEF Missing, Finding
  <2> QED
    BY <2>1, <2>2, <2>3 DEF ReportedSoFar, packages
<1>2. CASE SecondPass
  <2>1. UNCHANGED <<input, deps, findings>> /\ UNCHANGED findings
    BY <1>2 DEF SecondPass
  <2>2. \A i \in DOMAIN packages : \A n \in DOMAIN after_deps(i) : ~Checked(i, n)' /\ ~Checked(i, n)
    <3> SUFFICES ASSUME NEW i \in DOMAIN packages, NEW n \in DOMAIN after_deps(i)
                 PROVE  ~Checked(i, n)' /\ ~Checked(i, n)
      OBVIOUS
    <3>1. n \in 1 .. Len(after_deps(i)) /\ Len(after_deps(i)) \in Nat
      <4>1. i \in DOMAIN deps
        BY <1>2, <1>p DEF SecondPass, Inv, Gathering
      <4>2. deps[i] \in Deps
        BY <4>1 DEF Inv, Gathering
      <4>3. after_deps(i) \in Seq(Rule)
        BY <4>2 DEF Deps, after_deps
      <4> QED
        BY <4>3
    <3>2. phase = "gather" /\ phase' = "libs" /\ k' = 1 /\ r' = 1
      BY <1>2 DEF SecondPass, Collecting
    <3> QED
      BY <1>p, <3>1, <3>2 DEF Checked
  <2> QED
    BY <2>1, <2>2, NothingReported
<1>3. CASE SkipRule
  <2>1. ~Unjustified(k, r)
    BY <1>3 DEF SkipRule, Unjustified
  <2>2. /\ UNCHANGED <<input, deps, k>> /\ phase \in {"libs", "closure"} /\ phase' = "libs"
        /\ r' = r + 1 /\ k \in DOMAIN packages /\ r \in DOMAIN after_deps(k)
        /\ UNCHANGED findings
    BY <1>3 DEF SkipRule, NextRule
  <2> QED
    BY <2>1, <2>2, RuleDone
<1>4. CASE SeveralProviders
  <2>1. ~Unjustified(k, r)
    <3>1. \A pn \in Names : Cardinality({pn}) = 1
      BY FS_Singleton
    <3> QED
      BY <1>4, <3>1 DEF SeveralProviders, Unjustified
  <2>2. PICK new \in {{}, {Finding("multiple", "VERIFY", k, r)}} : findings' = findings \cup new
    BY <1>4 DEF SeveralProviders
  <2>3. \A f \in new : f.what # "missing"
    BY <2>2 DEF Finding
  <2>4. \A i, n : Missing(i, n) \in findings' <=> Missing(i, n) \in findings
    BY <2>2, <2>3, <1>o
  <2>5. /\ UNCHANGED <<input, deps, k>> /\ phase \in {"libs", "closure"} /\ phase' = "libs"
        /\ r' = r + 1 /\ k \in DOMAIN packages /\ r \in DOMAIN after_deps(k)
    BY <1>4 DEF SeveralProviders, NextRule
  <2> QED
    BY <2>1, <2>4, <2>5, RuleDone
<1>5. CASE OneProvider
  <2>1. PICK pn \in Names :
           /\ providers(k, r) = {pn}
           /\ IF direct(k, pn) \/ packages[k].name = pn
              THEN NextRule /\ UNCHANGED <<phase, transitive, visited>>
              ELSE /\ transitive' = Followed(k) /\ visited' = {}
                   /\ phase' = "closure"
                   /\ UNCHANGED r
    BY <1>5 DEF OneProvider
  <2>2. /\ UNCHANGED <<input, deps, k, findings>> /\ phase = "libs"
        /\ k \in DOMAIN packages /\ r \in DOMAIN after_deps(k)
        /\ UNCHANGED findings
    BY <1>5 DEF OneProvider
  <2>3. CASE direct(k, pn) \/ packages[k].name = pn
    <3>1. ~Unjustified(k, r)
      BY <2>1, <2>3 DEF Unjustified, Justified
    <3>2. r' = r + 1 /\ phase' = "libs"
      BY <2>1, <2>2, <2>3 DEF NextRule
    <3> QED
      BY <2>2, <3>1, <3>2, RuleDone
  <2>4. CASE ~(direct(k, pn) \/ packages[k].name = pn)
    <3>1. \A i, n : Checked(i, n)' <=> Checked(i, n)
      BY <2>1, <2>2, <2>4 DEF Checked
    <3> QED
      BY <2>2, <3>1, NothingReported
  <2> QED
    BY <2>3, <2>4
<1>6. CASE Collect
  <2>1. \A i, n : Checked(i, n)' <=> Checked(i, n)
    BY <1>6 DEF Collect, Checked
  <2>2. UNCHANGED <<input, deps>> /\ UNCHANGED findings
    BY <1>6 DEF Collect
  <2> QED
    BY <2>1, <2>2, NothingReported
<1>7. CASE Decide
  <2>1. /\ UNCHANGED <<input, deps, k>> /\ phase = "closure" /\ phase' = "libs"
        /\ r' = r + 1 /\ k \in DOMAIN packages /\ r \in DOMAIN after_deps(k)
    BY <1>7 DEF Decide, NextRule, Collecting, Inv, Gathering
  <2>2. transitive = Reachable(k)
    BY <1>7, CollectedAll DEF Decide, Inv
  <2>3. PICK pn \in Names : /\ providers(k, r) = {pn}
                            /\ ~direct(k, pn) /\ packages[k].name # pn
    BY <2>1 DEF Collecting
  <2>4. Unjustified(k, r) <=> ~packages[k].debug /\ ~Justified(k, pn)
    BY <2>1, <2>3 DEF Unjustified, Collecting
  <2>5. Justified(k, pn) <=> \/ {pn, mainpkgname} \cap transitive # {}
                             \/ \E name \in RequiredBy(pn) : name = packages[k].name
    BY <2>2, <2>3 DEF Justified
  <2>6. findings' = IF Unjustified(k, r) THEN findings \cup {Missing(k, r)} ELSE findings
    BY <1>7, <2>3, <2>4, <2>5 DEF Decide, report_missing, Missing
  <2>7. \A i, n : (i # k \/ n # r) => Missing(i, n) # Missing(k, r)
    BY DEF Missing, Finding
  <2> QED
    BY <2>1, <2>6, <2>7, RuleDone
<1>8. CASE CheckEpoch
  <2> DEFINE new == {Finding("epoch", IF input.rebase THEN "INFO" ELSE "BAD", k, n) :
                     n \in {n \in DOMAIN after_deps(k) : LacksEpoch(k, n)}}
  <2>1. findings' = findings \cup new /\ UNCHANGED <<input, deps>>
    BY <1>8 DEF CheckEpoch
  <2>2. \A f \in new : f.what # "missing"
    BY DEF Finding
  <2>m. \A i, n : Missing(i, n) \in findings' <=> Missing(i, n) \in findings
    BY <2>1, <2>2, <1>o
  <2> HIDE DEF new
  <2>3. ASSUME NEW i \in DOMAIN packages, NEW n \in DOMAIN after_deps(i)
        PROVE  Checked(i, n)' <=> Checked(i, n)
    <3>1. phase = "libs" /\ phase' = "libs" /\ k' = k + 1 /\ r' = 1 /\ r \notin DOMAIN after_deps(k)
      BY <1>8 DEF CheckEpoch
    <3>2. after_deps(i) \in Seq(Rule)
      BY <3>1, FollowedNames DEF Inv
    <3>3. n \in Nat \ {0} /\ (i = k => n < r)
      BY <1>p, <3>1, <3>2
    <3> QED
      BY <1>p, <3>1, <3>3 DEF Checked
  <2> QED
    BY <2>1, <2>m, <2>3, NothingReported
<1>9. CASE LastPass
  <2>1. \A i \in DOMAIN packages : \A n : Checked(i, n)' <=> Checked(i, n)
    BY <1>9, <1>p DEF LastPass, Checked
  <2>2. UNCHANGED <<input, deps>> /\ UNCHANGED findings
    BY <1>9 DEF LastPass
  <2> QED
    BY <2>1, <2>2, NothingReported
<1>10. CASE Report
  <2> DEFINE kept == {Finding(change(deps[k], n), "INFO", k, n) : n \in DOMAIN deps[k].after}
  <2> DEFINE lost == {Finding("lost", "INFO", k, n) :
                      n \in {n \in DOMAIN deps[k].before : deps[k].peer_before[n] = 0}}
  <2> DEFINE new == IF packages[k].gone THEN {} ELSE kept \cup lost
  <2>1. findings' = findings \cup new /\ UNCHANGED <<input, deps>>
    BY <1>10 DEF Report
  <2>2. \A f \in kept : f.what # "missing"
    BY DEF Finding, change
  <2>3. \A f \in lost : f.what # "missing"
    BY DEF Finding
  <2>4. \A f \in new : f.what # "missing"
    BY <2>2, <2>3
  <2>m. \A i, n : Missing(i, n) \in findings' <=> Missing(i, n) \in findings
    BY <2>1, <2>4, <1>o
  <2> HIDE DEF new
  <2>5. \A i, n : Checked(i, n)' <=> Checked(i, n)
    BY <1>10 DEF Report, Checked
  <2> QED
    BY <2>1, <2>m, <2>5, NothingReported
<1>11. CASE Return
  <2>1. \A i, n : Checked(i, n)' <=> Checked(i, n)
    BY <1>11 DEF Return, Checked
  <2>2. PICK new \in {{}, {Finding("fine", "OK", 0, 0)}} : findings' = findings \cup new
    BY <1>11 DEF Return
  <2>3. \A f \in new : f.what # "missing"
    BY <2>2 DEF Finding
  <2>4. UNCHANGED <<input, deps>>
    BY <1>11 DEF Return
  <2>5. \A i, n : Missing(i, n) \in findings' <=> Missing(i, n) \in findings
    BY <2>2, <2>3, <1>o
  <2> QED
    BY <2>1, <2>4, <2>5, NothingReported
<1>12. CASE UNCHANGED vars
  <2>1. UNCHANGED <<input, deps>> /\ UNCHANGED findings /\ \A i, n : Checked(i, n)' <=> Checked(i, n)
    BY <1>12 DEF vars, Checked
  <2> QED
    BY <2>1, NothingReported
<1> QED
  BY <1>1, <1>2, <1>3, <1>4, <1>5, <1>6, <1>7, <1>8, <1>9, <1>10, <1>11, <1>12
     DEF Next, Terminated

\* A package that needs a library is reported as missing a requirement if and
\* only if it does not come with the provider: however long the chain of
\* packages by which it may, since the list of them grows while the loop is
\* in it, and in whatever order the packages are.
THEOREM LibraryRequirementsHold == Spec => []LibraryRequirementsChecked
<1>1. Init => Collecting /\ ReportedSoFar
  BY DEF Init, Collecting, ReportedSoFar, Checked
<1>2. Inv /\ Collecting /\ ReportedSoFar /\ [Next]_vars => Collecting' /\ ReportedSoFar'
  BY NextCollecting, NextReported
<1>3. Inv /\ ReportedSoFar => LibraryRequirementsChecked
  <2> SUFFICES ASSUME Inv, ReportedSoFar, phase = "done",
                      NEW i \in DOMAIN packages, NEW n \in DOMAIN after_deps(i)
               PROVE  Missing(i, n) \in findings <=> Unjustified(i, n)
    BY DEF LibraryRequirementsChecked, Missing, Unjustified
  <2>1. n \in Nat
    <3>1. after_deps(i) \in Seq(Rule)
      BY FollowedNames DEF Inv
    <3> QED
      BY <3>1
  <2>2. Checked(i, n)
    BY DEF Checked
  <2> QED
    BY <2>1, <2>2 DEF ReportedSoFar
<1> QED
  BY <1>1, <1>2, <1>3, Invariance, PTL DEF Spec
=============================================================================
