------------------------------ MODULE DepRules ------------------------------
(***************************************************************************)
(* lib/deprules.c: the dependency rules of a package are read from its     *)
(* header, and those of the "before" package are paired with those of the  *)
(* "after" package.  A rule is a record [type, name, op, version] and is   *)
(* known by its place in its list, since a header may say a thing twice.   *)
(* A module that extends this one calls find_deprule_peers() for the peers *)
(* it has, one after another.                                              *)
(***************************************************************************)
EXTENDS Naturals, Sequences, FiniteSets

CONSTANTS
    Names,      \* what the rules are about
    Trimmed,    \* trim_rich_dep(): a name without the markup of a rich one
    Peeled,     \* a name without its leading parentheses
    Generated,  \* names that gather_deprules_by_type() skips: debuginfo,
                \* rpmlib(), rtld(), kernel(), modalias(), ksym(), kmod()
    Ignored,    \* the pairs of type and name that the configuration ignores
    NULL

Types == <<"Requires", "Provides", "Conflicts", "Obsoletes", "Enhances", "Recommends",
           "Suggests", "Supplements">>
Operators == {"none", "=", "<", ">", "<=", ">="}

\* A version is NULL or what the other modules tell apart: the version and
\* release of the build, the same with its epoch, another one, or one that
\* has a macro in it.
Versions == {NULL, "vr", "evr", "other", "macro"}

Rule == [type : {Types[i] : i \in DOMAIN Types}, name : Names, op : Operators,
         version : Versions]

ASSUME DepRulesAssumption ==
    /\ Trimmed \in [Names -> Names] /\ Peeled \in [Names -> Names]
    /\ NULL \notin {"vr", "evr", "other", "macro"}

VARIABLES
    before, after,              \* the lists of rules
    peer_before, peer_after,    \* peer_deprule of each rule, 0 for NULL
    strict,                     \* the first of the two passes
    side,                       \* the list of the outer loop, "none" at the end
    pos                         \* the place of the outer loop in that list

peering == <<before, after, peer_before, peer_after, strict, side, pos>>

-----------------------------------------------------------------------------
\* The rules of one type that a header has, without those that are skipped
\* or ignored.
gather_deprules_by_type(header, type) ==
    LET kept(rule) == /\ rule.type = type
                      /\ rule.name \notin Generated
                      /\ <<type, rule.name>> \notin Ignored
        rules[n \in 0 .. Len(header)] ==
            IF n = 0 THEN <<>>
            ELSE IF kept(header[n]) THEN Append(rules[n - 1], header[n])
            ELSE rules[n - 1]
    IN  rules[Len(header)]

\* The rules of a header, one type after the other.
gather_deprules(header) ==
    LET of(t) == gather_deprules_by_type(header, Types[t])
    IN  of(1) \o of(2) \o of(3) \o of(4) \o of(5) \o of(6) \o of(7) \o of(8)

\* Faulty variant: the names have to be the same in the second pass too.
process_pair_untrimmed(left, right) ==
    /\ left.type = right.type
    /\ IF strict THEN left = right ELSE left.name = right.name

\* The type always has to be the same; the name, operator and version in
\* the strict pass, and only the trimmed name in the other.
process_pair(left, right) ==
    /\ left.type = right.type
    /\ IF strict THEN left = right ELSE Trimmed[left.name] = Trimmed[right.name]

deprules_match(a, b) ==
    Peeled[a.name] = Peeled[b.name] /\ a.op = b.op /\ a.version = b.version

\* Faulty variant: there is one pass only, and it is not strict.
CallLenient(b, a) ==
    /\ before' = b /\ after' = a
    /\ peer_before' = [j \in DOMAIN b |-> 0]
    /\ peer_after' = [i \in DOMAIN a |-> 0]
    /\ strict' = FALSE
    /\ side' = IF b = <<>> \/ a = <<>> THEN "none" ELSE "after"
    /\ pos' = 1

\* find_deprule_peers() is called; it returns at once if a list is empty.
Call(b, a) ==
    /\ before' = b /\ after' = a
    /\ peer_before' = [j \in DOMAIN b |-> 0]
    /\ peer_after' = [i \in DOMAIN a |-> 0]
    /\ strict' = TRUE
    /\ side' = IF b = <<>> \/ a = <<>> THEN "none" ELSE "after"
    /\ pos' = 1

\* Faulty variant: the two peers the other way round.
set_peers_swapped(j, i) ==
    /\ peer_before' = [peer_before EXCEPT ![j] = j]
    /\ peer_after' = [peer_after EXCEPT ![i] = i]

set_peers(j, i) ==
    /\ peer_before' = [peer_before EXCEPT ![j] = i]
    /\ peer_after' = [peer_after EXCEPT ![i] = j]

\* Faulty variant: a rule that has a peer is not skipped in the inner loop.
FreeOrNot(entries) == DOMAIN entries

\* The rules that the inner loop does not skip.
Free(entries) == {n \in DOMAIN entries : entries[n] = 0}

First(n, places) == \A m \in places : n <= m

\* One turn of the outer loop: an entry that has a peer is skipped, the
\* others get the first entry of the other list that matches, if any.
MatchAfter ==
    /\ side = "after" /\ pos \in DOMAIN after
    /\ LET found == {j \in Free(peer_before) : process_pair(after[pos], before[j])} IN
       \/ peer_after[pos] = 0 /\ \E j \in found : First(j, found) /\ set_peers(j, pos)
       \/ (peer_after[pos] # 0 \/ found = {}) /\ UNCHANGED <<peer_before, peer_after>>
    /\ pos' = pos + 1
    /\ UNCHANGED <<before, after, strict, side>>

MatchBefore ==
    /\ side = "before" /\ pos \in DOMAIN before
    /\ LET found == {i \in Free(peer_after) : process_pair(before[pos], after[i])} IN
       \/ peer_before[pos] = 0 /\ \E i \in found : First(i, found) /\ set_peers(pos, i)
       \/ (peer_before[pos] # 0 \/ found = {}) /\ UNCHANGED <<peer_before, peer_after>>
    /\ pos' = pos + 1
    /\ UNCHANGED <<before, after, strict, side>>

\* From "after" to "before", then the same without strictness.
NextLoop ==
    /\ \/ side = "after" /\ pos \notin DOMAIN after
       \/ side = "before" /\ pos \notin DOMAIN before
    /\ side' = IF side = "after" THEN "before" ELSE IF strict THEN "after" ELSE "none"
    /\ strict' = (strict /\ side # "before")
    /\ pos' = 1
    /\ UNCHANGED <<before, after, peer_before, peer_after>>

FindPeers == MatchAfter \/ MatchBefore \/ NextLoop

-----------------------------------------------------------------------------
\* Every variable holds a value of its type, and peers are rules of the
\* other list.
PeeringTypeOK ==
    /\ before \in Seq(Rule) /\ after \in Seq(Rule)
    /\ peer_before \in [DOMAIN before -> {0} \cup DOMAIN after]
    /\ peer_after \in [DOMAIN after -> {0} \cup DOMAIN before]
    /\ strict \in BOOLEAN
    /\ side \in {"after", "before", "none"}
    /\ pos \in Nat \ {0}

\* Both rules of a pair point at each other and have one type, at any
\* moment, and so no rule is compared with two ("populated with each other's
\* entries", deprules.c:271).  In lib/files.c the same promise is not kept.
PeersAreMutual ==
    /\ \A i \in DOMAIN after : peer_after[i] # 0 =>
          /\ peer_before[peer_after[i]] = i
          /\ after[i].type = before[peer_after[i]].type
    /\ \A j \in DOMAIN before : peer_before[j] # 0 => peer_after[peer_before[j]] = j

\* A rule that has a peer that says just the same.
Kept(i) == peer_after[i] # 0 /\ before[peer_after[i]] = after[i]
KeptBefore(j) == peer_before[j] # 0 /\ after[peer_before[j]] = before[j]

\* A rule that both packages have is not reported as changed, gained or lost:
\* the lenient pass never takes a rule away from one that says the same, as
\* it could if a header has several rules of one name.
UnchangedIsRetained ==
    side = "none" => \A i \in DOMAIN after, j \in DOMAIN before :
        after[i] = before[j] => Kept(i) \/ KeptBefore(j)

\* No rule is reported as gained while one of the same type and name is
\* reported as lost: that would be a change.
NothingGainedAndLost ==
    side = "none" => \A i \in DOMAIN after, j \in DOMAIN before :
        /\ after[i].type = before[j].type
        /\ Trimmed[after[i].name] = Trimmed[before[j].name]
        => peer_after[i] # 0 \/ peer_before[j] # 0
=============================================================================
