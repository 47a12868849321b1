------------------------ MODULE PeerInspectionsProofs ------------------------
(***************************************************************************)
(* Proofs about PeerInspections: for any files, rules and settings, that   *)
(* the return values of the drivers, the variable reported and the results *)
(* of an inspection account for each other, and what may be said of a file *)
(* that is ignored, whose rules say skip, that is setuid or setgid, or     *)
(* that a rebase changed.                                                  *)
(*                                                                         *)
(* Each driver has a lemma about what it adds and returns for one file;    *)
(* DriversSay collects them, and the invariant follows action by action.   *)
(***************************************************************************)
EXTENDS PeerInspections, SequenceTheorems, FiniteSetTheorems, NaturalsInduction,
        WellFoundedInduction, TLAPS

-----------------------------------------------------------------------------

(***************************************************************************)
(* What drivers return and add.                                            *)
(***************************************************************************)

Authorities == {"none", "not", "anyone", "security"}
EntryType == [severity : RESULT_NULL .. RESULT_BAD, waiverauth : Authorities]
Reportable == {RESULT_INFO, RESULT_VERIFY, RESULT_BAD}

\* R has all that an inspection without security checks may say.
Plain(R) ==
    /\ R \subseteq EntryType
    /\ \A v \in Reportable : \A w \in {"none", "not", "anyone"} : Entry(v, w) \in R

\* What is no reason to fail.
Notes == {e \in EntryType : e.severity <= RESULT_INFO}

\* A driver adds what is in R, and something if it fails.
Accounts(v, R) == v.added \in Seq(R) /\ (~v.ok => v.added # <<>>)

\* If it does not fail it adds notes only.
Honest(v) == v.ok => v.added \in Seq(Notes)

\* One sequence after another.
LEMMA Joined ==
    ASSUME NEW R, NEW s \in Seq(R), NEW t \in Seq(R)
    PROVE  s \o t \in Seq(R) /\ (s \o t = <<>> <=> s = <<>> /\ t = <<>>)
OBVIOUS

\* A sequence of one.
LEMMA One ==
    ASSUME NEW R, NEW e \in R
    PROVE  <<e>> \in Seq(R) /\ <<e>> # <<>> /\ <<e>>[1] = e
OBVIOUS

\* The empty sequence.
LEMMA None == ASSUME NEW R PROVE <<>> \in Seq(R)
OBVIOUS

\* What is added on a condition.
LEMMA Whenever ==
    ASSUME NEW R, NEW c, NEW s \in Seq(R)
    PROVE  When(c, s) \in Seq(R) /\ (When(c, s) = <<>> <=> ~c \/ s = <<>>)
BY DEF When

\* The same entry several times.
LEMMA Repeated ==
    ASSUME NEW R, NEW n \in Nat, NEW s \in Seq(R), s # <<>>
    PROVE  Times(n, s) \in Seq(R) /\ (Times(n, s) = <<>> <=> n = 0)
<1>1. s[1] \in R
  OBVIOUS
<1>2. Times(n, s) \in [1 .. n -> R]
  BY <1>1 DEF Times
<1>3. Times(n, s) \in Seq(R) /\ Len(Times(n, s)) = n
  BY <1>2
<1> QED
  BY <1>3

\* The entries that the drivers share.
LEMMA SharedEntries ==
    ASSUME NEW R, Plain(R)
    PROVE  /\ Inform \in Seq(R) /\ Verify \in Seq(R) /\ Bad \in Seq(R) /\ Final \in Seq(R)
           /\ Inform # <<>> /\ Verify # <<>> /\ Bad # <<>> /\ Final # <<>>
BY DEF Plain, Inform, Verify, Bad, Final, Reportable, Entry, RESULT_INFO, RESULT_VERIFY,
       RESULT_BAD

\* Those that are notes.
LEMMA NotesShared ==
    /\ Inform \in Seq(Notes) /\ <<>> \in Seq(Notes)
    /\ \A w \in Authorities : Entry(RESULT_INFO, w) \in Notes
BY DEF Notes, Inform, Entry, EntryType, Authorities, RESULT_NULL, RESULT_INFO, RESULT_BAD

\* What does not fail are notes.
LEMMA NotFailing ==
    ASSUME NEW R, R \subseteq EntryType, NEW s \in Seq(R)
    PROVE  /\ Failing(s) => s # <<>>
           /\ ~Failing(s) => s \in Seq(Notes)
<1>1. Len(s) \in Nat /\ DOMAIN s = 1 .. Len(s) /\ \A n \in 1 .. Len(s) : s[n] \in EntryType
  OBVIOUS
<1>2. ASSUME ~Failing(s)
      PROVE  s \in Seq(Notes)
  <2>1. \A n \in 1 .. Len(s) : s[n] \in Notes
    BY <1>1, <1>2 DEF Failing, Notes, EntryType, RESULT_NULL, RESULT_INFO, RESULT_VERIFY,
                      RESULT_BAD
  <2>2. s = [n \in 1 .. Len(s) |-> s[n]]
    BY <1>1
  <2> QED
    BY <1>1, <2>1, <2>2
<1>3. Failing(s) => s # <<>>
  BY DEF Failing
<1> QED
  BY <1>2, <1>3

\* The parts of what a driver returns.
LEMMA VerdictParts ==
    ASSUME NEW ok \in BOOLEAN, NEW added
    PROVE  Verdict(ok, added).added = added /\ (Verdict(ok, added).ok <=> ok)
BY DEF Verdict

\* A driver that fails with something added accounts for it.
LEMMA VerdictAccounts ==
    ASSUME NEW R, NEW ok \in BOOLEAN, NEW added \in Seq(R), ok \/ added # <<>>
    PROVE  Accounts(Verdict(ok, added), R)
BY VerdictParts DEF Accounts

\* One that fails if it added something,
LEMMA CleanAccounts ==
    ASSUME NEW R, NEW added \in Seq(R)
    PROVE  Accounts(Clean(added), R) /\ Honest(Clean(added))
BY NotesShared DEF Accounts, Honest, Clean, Verdict

\* and one that fails if what it added is above INFO.
LEMMA FailingAccounts ==
    ASSUME NEW R, R \subseteq EntryType, NEW added \in Seq(R)
    PROVE  /\ Accounts(Verdict(~Failing(added), added), R)
           /\ Honest(Verdict(~Failing(added), added))
BY NotFailing DEF Accounts, Honest, Verdict

-----------------------------------------------------------------------------

(***************************************************************************)
(* Induction over positions, and the tests of annocheck, which share their *)
(* variables.                                                              *)
(***************************************************************************)

\* The numbers are well-founded, as a relation that can be picked.
LEMMA Descends ==
    \E R : /\ IsWellFoundedOn(R, Nat)
          /\ \A a, b \in Nat : a < b => <<a, b>> \in R
<1>1. \A a, b \in Nat : a < b => <<a, b>> \in OpToRel(<, Nat)
  BY DEF OpToRel
<1> QED
  BY <1>1, NatLessThanWellFounded, Zenon

\* A set of numbers has a least one.
LEMMA NatMin ==
    ASSUME NEW T, T \subseteq Nat, T # {}
    PROVE  \E m \in T : \A k \in T : m <= k
<1>1. PICK R : /\ IsWellFoundedOn(R, Nat)
               /\ \A a, b \in Nat : a < b => <<a, b>> \in R
  BY Descends
<1>2. PICK m \in T : \A y \in T : ~(<<y, m>> \in R)
  <2>1. IsWellFoundedOn(R, Nat)
    BY <1>1, Zenon
  <2> QED
    BY <2>1, WFMin, Zenon
<1>3. ASSUME NEW k \in T
      PROVE  m <= k
  <2>1. ~(k < m)
    BY <1>1, <1>2, Zenon
  <2> QED
    BY <2>1
<1> QED
  BY <1>3

\* Induction over the numbers.
LEMMA Induction ==
    ASSUME NEW S, 0 \in S, \A n \in Nat : n \in S => n + 1 \in S
    PROVE  Nat \subseteq S
<1> SUFFICES ASSUME NEW z \in Nat, z \notin S
             PROVE  FALSE
  OBVIOUS
<1> DEFINE T == {n \in Nat : n \notin S}
<1>1. T # {}
  OBVIOUS
<1>2. PICK m \in T : \A k \in T : m <= k
  BY <1>1, NatMin
<1>3. m # 0 /\ m - 1 \in Nat /\ m - 1 \notin T
  BY <1>2
<1> QED
  BY <1>3

\* Each value of f after the first is what step makes of the one before it.
Follows(f, n, base, step) ==
    /\ f = [k \in 0 .. n |-> f[k]]
    /\ f[0] = base
    /\ \A k \in 1 .. n : f[k] = step[k][f[k - 1]]

\* A function that follows step is there.
LEMMA Recursion ==
    ASSUME NEW N \in Nat, NEW base, NEW step
    PROVE  \E f : Follows(f, N, base, step)
<1> DEFINE S == {n \in Nat : \E g : Follows(g, n, base, step)}
<1>1. 0 \in S
  <2> DEFINE g == [k \in 0 .. 0 |-> base]
  <2>1. Follows(g, 0, base, step)
    BY DEF Follows
  <2> QED
    BY <2>1
<1>2. ASSUME NEW n \in Nat, n \in S
      PROVE  n + 1 \in S
  <2>1. PICK g : Follows(g, n, base, step)
    BY <1>2
  <2> DEFINE h == [k \in 0 .. n + 1 |-> IF k = n + 1 THEN step[k][g[n]] ELSE g[k]]
  <2>2. \A k \in 0 .. n : h[k] = g[k]
    OBVIOUS
  <2>3. h[n + 1] = step[n + 1][g[n]] /\ h = [k \in 0 .. n + 1 |-> h[k]]
    OBVIOUS
  <2> HIDE DEF h
  <2>4. \A k \in 1 .. n + 1 : h[k] = step[k][h[k - 1]]
    <3> TAKE k \in 1 .. n + 1
    <3>1. CASE k = n + 1
      <4>1. (n + 1) - 1 = n /\ h[n] = g[n]
        BY <2>2
      <4> QED
        BY <3>1, <4>1, <2>3
    <3>2. CASE k \in 1 .. n
      <4>1. k \in 0 .. n /\ k - 1 \in 0 .. n
        BY <3>2
      <4> QED
        BY <3>2, <4>1, <2>1, <2>2 DEF Follows
    <3> QED
      BY <3>1, <3>2
  <2>5. h[0] = base
    BY <2>1, <2>2 DEF Follows
  <2>6. Follows(h, n + 1, base, step)
    BY <2>3, <2>4, <2>5, Zenon DEF Follows
  <2>7. n + 1 \in Nat
    OBVIOUS
  <2> QED
    BY <2>6, <2>7
<1> HIDE DEF S
<1>3. N \in S
  BY <1>1, <1>2, Induction
<1> QED
  BY <1>3 DEF S

\* What a sequence is.
LEMMA Elements ==
    ASSUME NEW R, NEW s \in Seq(R)
    PROVE  /\ Len(s) \in Nat /\ DOMAIN s = 1 .. Len(s)
           /\ \A n \in 1 .. Len(s) : s[n] \in R
OBVIOUS

\* What makes one.
LEMMA FunctionIsSequence ==
    ASSUME NEW R, NEW n \in Nat, NEW f \in [1 .. n -> R]
    PROVE  f \in Seq(R)
OBVIOUS

\* What every step keeps holds all along, and what comes last is among it.
LEMMA Stays ==
    ASSUME NEW N \in Nat, NEW T, NEW g, g[0] \in T,
           \A n \in 1 .. N : g[n - 1] \in T => g[n] \in T
    PROVE  g[N] \in T
<1> DEFINE S == {n \in Nat : n <= N => g[n] \in T}
<1>1. 0 \in S
  OBVIOUS
<1>2. ASSUME NEW n \in Nat, n \in S
      PROVE  n + 1 \in S
  <2>1. CASE n + 1 <= N
    <3>1. n + 1 \in 1 .. N /\ (n + 1) - 1 = n /\ g[n] \in T
      BY <2>1, <1>2
    <3>2. g[n + 1] \in T
      BY <3>1
    <3> QED
      BY <3>2
  <2>2. CASE ~(n + 1 <= N)
    BY <2>2
  <2> QED
    BY <2>1, <2>2
<1> HIDE DEF S
<1>3. N \in S
  BY <1>1, <1>2, Induction
<1> QED
  BY <1>3 DEF S

\* The parts of an entry.
LEMMA EntryParts ==
    ASSUME NEW e \in EntryType
    PROVE  /\ e.severity \in RESULT_NULL .. RESULT_BAD /\ e.waiverauth \in Authorities
           /\ e.severity \in Int
           /\ \A n \in Int : /\ (e.severity < n) \in BOOLEAN
                            /\ (e.severity < n \/ e.severity >= n)
           /\ e = Entry(e.severity, e.waiverauth)
BY DEF EntryType, Entry, RESULT_NULL, RESULT_BAD

\* One more entry; what failed still does.
LEMMA OneMoreEntry ==
    ASSUME NEW R, R \subseteq EntryType, NEW s \in Seq(R), NEW e \in R
    PROVE  /\ Append(s, e) \in Seq(R)
           /\ Failing(s) \/ e.severity >= RESULT_VERIFY => Failing(Append(s, e))
<1>1. /\ Append(s, e) \in Seq(R) /\ Len(s) \in Nat
      /\ DOMAIN s = 1 .. Len(s) /\ DOMAIN Append(s, e) = 1 .. Len(s) + 1
      /\ Append(s, e)[Len(s) + 1] = e
      /\ \A n \in 1 .. Len(s) : Append(s, e)[n] = s[n]
  OBVIOUS
<1>2. ASSUME Failing(s)
      PROVE  Failing(Append(s, e))
  <2>1. PICK n \in DOMAIN s : s[n].severity >= RESULT_VERIFY
    BY <1>2 DEF Failing
  <2>2. n \in DOMAIN Append(s, e) /\ Append(s, e)[n] = s[n]
    BY <1>1
  <2> QED
    BY <2>1, <2>2 DEF Failing
<1>3. ASSUME e.severity >= RESULT_VERIFY
      PROVE  Failing(Append(s, e))
  <2>1. Len(s) + 1 \in DOMAIN Append(s, e)
    BY <1>1
  <2> QED
    BY <1>1, <1>3, <2>1 DEF Failing
<1> QED
  BY <1>1, <1>2, <1>3

\* A test of annocheck says of a file that is ignored only what fortification
\* is about, and a file fails for an entry at least.
LEMMA AnnocheckAccounts ==
    ASSUME NEW f, NEW R, R \subseteq EntryType,
           NEW failing \in RESULT_NULL .. RESULT_BAD,
           Inform[1] \in R,
           ~f.ignored => Entry(failing, "anyone") \in R,
           Entry(get_secrule_result_severity(f, "fortifysource"), "security") \in R,
           f.tests \in Seq([fails : BOOLEAN, fortify : BOOLEAN])
    PROVE  /\ annocheck_driver(f, failing).added \in Seq(R)
           /\ ~annocheck_driver(f, failing).ok => Failing(annocheck_driver(f, failing).added)
<1> DEFINE fortify == get_secrule_result_severity(f, "fortifysource")
           Add(s) == [s EXCEPT !.added = Append(@, s.entry)]
           Set(s, entry) == [s EXCEPT !.entry = entry]
           Judge(s) == [s EXCEPT !.ok = s.entry.severity < RESULT_VERIFY]
           Compare(s, t) ==
               IF f.ignored THEN s
               ELSE IF t.fails THEN Add(Judge(Set(s, Entry(failing, "anyone")))) ELSE Add(s)
           Fortify(s, t) ==
               IF ~t.fortify THEN s
               ELSE LET set == Set(s, Entry(fortify, "security")) IN
                    IF fortify \in {RESULT_NULL, RESULT_SKIP} THEN set ELSE Add(Judge(set))
           N == Len(f.tests)
           start == [entry |-> Inform[1], ok |-> TRUE, added |-> <<>>]
           Step(s, n) == Fortify(Compare(s, f.tests[n]), f.tests[n])
           After(g) == g = [n \in 0 .. N |-> IF n = 0 THEN start ELSE Step(g[n - 1], n)]
           after[n \in 0 .. N] == IF n = 0 THEN start ELSE Step(after[n - 1], n)
           State == [entry : R, ok : BOOLEAN, added : Seq(R)]
           T == {s \in State : s.ok \/ Failing(s.added)}
           step == [n \in 1 .. N |-> [s \in T |-> Step(s, n)]]
<1>1. annocheck_driver(f, failing) = Verdict(after[N].ok, after[N].added)
  BY DEF annocheck_driver
<1>2. after = CHOOSE g : After(g)
  OBVIOUS
<1>3. ASSUME NEW s \in T, NEW e \in R
      PROVE  /\ Add(Judge(Set(s, e))) \in T
             /\ Set(s, e) \in T
             /\ Add(s) \in T
  <2>1. PICK p \in R, ok \in BOOLEAN, added \in Seq(R) :
            /\ s = [entry |-> p, ok |-> ok, added |-> added]
            /\ ok \/ Failing(added)
    OBVIOUS
  <2>2. Set(s, e) = [entry |-> e, ok |-> ok, added |-> added]
    BY <2>1
  <2>3. ASSUME NEW x \in R, NEW good \in BOOLEAN, NEW more \in Seq(R),
               good \/ Failing(more)
        PROVE  [entry |-> x, ok |-> good, added |-> more] \in T
    BY <2>3
  <2>4. ASSUME NEW x \in R, NEW good \in BOOLEAN
        PROVE  Add([entry |-> x, ok |-> good, added |-> added])
                   = [entry |-> x, ok |-> good, added |-> Append(added, x)]
    <3> DEFINE r == [entry |-> x, ok |-> good, added |-> added]
               new == Append(added, x)
    <3>1. r.entry = x /\ r.added = added
      OBVIOUS
    <3>2. Add(r) = [r EXCEPT !.added = new]
      BY <3>1
    <3> HIDE DEF new
    <3>3. [r EXCEPT !.added = new] = [entry |-> x, ok |-> good, added |-> new]
      OBVIOUS
    <3> QED
      BY <3>2, <3>3 DEF new
  <2> DEFINE good == e.severity < RESULT_VERIFY
  <2>5. good \in BOOLEAN /\ (good \/ e.severity >= RESULT_VERIFY)
    <3>1. RESULT_VERIFY \in Int /\ e \in EntryType
      BY DEF RESULT_VERIFY
    <3> QED
      BY <3>1, EntryParts
  <2>6. Judge(Set(s, e)) = [entry |-> e, ok |-> good, added |-> added]
    <3> DEFINE r == [entry |-> e, ok |-> ok, added |-> added]
    <3>1. r.entry = e
      OBVIOUS
    <3>2. Judge(r) = [r EXCEPT !.ok = good]
      BY <3>1
    <3> HIDE DEF good
    <3>3. [r EXCEPT !.ok = good] = [entry |-> e, ok |-> good, added |-> added]
      OBVIOUS
    <3> QED
      BY <2>2, <3>2, <3>3
  <2>7. /\ Append(added, p) \in Seq(R) /\ (ok \/ Failing(Append(added, p)))
        /\ Append(added, e) \in Seq(R) /\ (good \/ Failing(Append(added, e)))
    <3>1. /\ Append(added, p) \in Seq(R) /\ (Failing(added) => Failing(Append(added, p)))
          /\ Append(added, e) \in Seq(R)
          /\ e.severity >= RESULT_VERIFY => Failing(Append(added, e))
      BY OneMoreEntry
    <3> HIDE DEF Add, Judge, Set, T, good
    <3> QED
      BY <2>1, <2>5, <3>1
  <2> HIDE DEF good
  <2> HIDE DEF T, Add, Judge, Set
  <2>8. Add(s) \in T /\ Set(s, e) \in T
    BY <2>1, <2>2, <2>3, <2>4, <2>7
  <2>9. Add(Judge(Set(s, e))) \in T
    BY <2>3, <2>4, <2>5, <2>6, <2>7
  <2> QED
    BY <2>8, <2>9
<1>4. ASSUME NEW s \in T, NEW n \in 1 .. N
      PROVE  Step(s, n) \in T
  <2> DEFINE t == f.tests[n]
             e == Entry(failing, "anyone")
             r == Entry(fortify, "security")
  <2>1. r \in R
    OBVIOUS
  <2>2. Compare(s, t) \in T
    <3>1. ~f.ignored => e \in R
      OBVIOUS
    <3>2. Compare(s, t) \in {s, Add(s)} \/ (~f.ignored /\ Compare(s, t) = Add(Judge(Set(s, e))))
      OBVIOUS
    <3>3. \A x \in R : Add(Judge(Set(s, x))) \in T /\ Add(s) \in T
      BY <1>3
    <3> HIDE DEF Compare, e, T, Add, Judge, Set
    <3> QED
      BY <2>1, <3>1, <3>2, <3>3
  <2>3. ASSUME NEW m \in T
        PROVE  Fortify(m, t) \in T
    <3>1. Fortify(m, t) \in {m, Set(m, r), Add(Judge(Set(m, r)))}
      OBVIOUS
    <3>2. Add(Judge(Set(m, r))) \in T /\ Set(m, r) \in T
      BY <2>1, <1>3
    <3> HIDE DEF Fortify, T, r, Add, Judge, Set
    <3> QED
      BY <3>1, <3>2
  <2> HIDE DEF Compare, Fortify, T
  <2> QED
    BY <2>2, <2>3
<1>5. start \in T /\ N \in Nat
  BY None
<1>6. \A n \in 1 .. N : \A s \in T : step[n][s] = Step(s, n)
  <2> HIDE DEF N, T, Step
  <2> QED
    OBVIOUS
<1>7. \A s \in T : s.added \in Seq(R) /\ (~s.ok => Failing(s.added))
  OBVIOUS
<1> HIDE DEF N, start, Step, T, step, after
<1>8. PICK g : Follows(g, N, start, step)
  BY <1>5, Recursion
<1>9. \A n \in 0 .. N : g[n] \in T
  <2>1. ASSUME NEW n \in 0 .. N
        PROVE  g[n] \in T
    <3>1. n \in Nat /\ g[0] \in T
      BY <1>5, <1>8 DEF Follows
    <3>2. \A k \in 1 .. n : g[k - 1] \in T => g[k] \in T
      <4> TAKE k \in 1 .. n
      <4>1. k \in 1 .. N
        BY <1>5
      <4> QED
        BY <4>1, <1>4, <1>6, <1>8 DEF Follows
    <3> QED
      BY <3>1, <3>2, Stays
  <2> QED
    BY <2>1
<1>10. After(g)
  <2>1. ASSUME NEW n \in 0 .. N, n # 0
        PROVE  g[n] = Step(g[n - 1], n)
    <3>1. n \in 1 .. N /\ n - 1 \in 0 .. N
      BY <2>1, <1>5
    <3> QED
      BY <3>1, <1>6, <1>8, <1>9 DEF Follows
  <2> QED
    BY <1>8, <2>1 DEF Follows
<1>11. After(after)
  <2> HIDE DEF After
  <2> QED
    BY <1>2, <1>10
<1>12. after[N] \in T
  <2>1. after[0] \in T
    BY <1>5, <1>11
  <2>2. \A n \in 1 .. N : after[n - 1] \in T => after[n] \in T
    <3> TAKE n \in 1 .. N
    <3>1. after[n] = Step(after[n - 1], n)
      BY <1>5, <1>11
    <3> QED
      BY <3>1, <1>4
  <2> QED
    BY <1>5, <2>1, <2>2, Stays
<1>13. /\ annocheck_driver(f, failing).added = after[N].added
       /\ annocheck_driver(f, failing).ok = after[N].ok
  BY <1>1 DEF Verdict
<1> QED
  BY <1>7, <1>12, <1>13

-----------------------------------------------------------------------------

(***************************************************************************)
(* Source packages and headers.                                            *)
(***************************************************************************)

\* A source archive that changed; in a rebase that is a note.
LEMMA UpstreamAccounts ==
    ASSUME NEW f, NEW R, Plain(R), NEW lenient
    PROVE  /\ Accounts(upstream_driver(f, lenient), R)
           /\ lenient => upstream_driver(f, lenient).added \in Seq(Notes)
<1> DEFINE added == When(f.change # "none", IF lenient THEN Inform ELSE Verify)
<1>1. added \in Seq(R) /\ (lenient => added \in Seq(Notes))
  BY SharedEntries, NotesShared, None DEF When
<1>2. upstream_driver(f, lenient) = Verdict(~Failing(added), added)
  BY DEF upstream_driver
<1> HIDE DEF added
<1>3. upstream_driver(f, lenient).added = added
  BY <1>2 DEF Verdict
<1> QED
  BY <1>1, <1>2, <1>3, FailingAccounts DEF Plain

\* The files section, the release tag and the name of a spec file.
LEMMA SourcesAccount ==
    ASSUME NEW f, NEW R, Plain(R)
    PROVE  /\ Accounts(disttag_driver(f), R)
           /\ \A good : Accounts(specname_driver(f, good), R)
           /\ f.lines \in Seq(STRING) => Accounts(files_driver(f), R)
<1>1. Accounts(disttag_driver(f), R)
  BY SharedEntries, Whenever, CleanAccounts DEF disttag_driver
<1>2. ASSUME NEW good
      PROVE  Accounts(specname_driver(f, good), R)
  BY SharedEntries, Whenever, CleanAccounts DEF specname_driver
<1>3. ASSUME f.lines \in Seq(STRING)
      PROVE  Accounts(files_driver(f), R)
  <2> DEFINE read == {i \in DOMAIN f.lines : \A j \in 1 .. i : f.lines[j] # "ignored"}
             wrong == {i \in read : f.lines[i] = "forbidden"}
  <2>1. Cardinality(wrong) \in Nat
    <3>1. wrong \subseteq 1 .. Len(f.lines) /\ Len(f.lines) \in Nat
      BY <1>3
    <3> HIDE DEF wrong
    <3>3. IsFiniteSet(1 .. Len(f.lines))
      BY <3>1, FS_Interval
    <3>2. IsFiniteSet(wrong)
      BY <3>1, <3>3, FS_Subset
    <3> QED
      BY <3>2, FS_CardinalityType
  <2>2. files_driver(f) = Clean(Times(Cardinality(wrong), Verify))
    BY DEF files_driver
  <2> HIDE DEF wrong
  <2> QED
    BY <2>1, <2>2, SharedEntries, Repeated, CleanAccounts
<1> QED
  BY <1>1, <1>2, <1>3

\* A patch: one that is not handled, was removed, or is there.
LEMMA PatchesAccount ==
    ASSUME NEW f, NEW R, Plain(R), NEW unhandled_,
           f.kind \in {"unhandled", "removed", "patch"}
    PROVE  LET v == patches_driver(f, unhandled_) IN
           /\ v.added \in Seq(R)
           /\ ~v.ok => v.added # <<>> \/ unhandled_
           /\ f.kind = "unhandled" => ~v.ok /\ v.added # <<>>
<1> DEFINE macro == When(f.macro = "missing", Verify) \o When(f.macro = "undefined", Bad)
           corrupt == When(f.size < 4, Bad) \o When(f.peer /\ f.before_size < 4, Bad)
           compared == When(f.comparison /\ (~f.peer \/ f.changed), Inform)
           rest == IF ~f.readable THEN <<>>
                   ELSE IF corrupt # <<>> THEN corrupt ELSE compared \o Inform
<1>1. macro \in Seq(R) /\ corrupt \in Seq(R) /\ compared \in Seq(R)
  <2>1. /\ When(f.macro = "missing", Verify) \in Seq(R)
        /\ When(f.macro = "undefined", Bad) \in Seq(R)
        /\ When(f.size < 4, Bad) \in Seq(R)
        /\ When(f.peer /\ f.before_size < 4, Bad) \in Seq(R)
        /\ compared \in Seq(R)
    BY SharedEntries, Whenever
  <2> QED
    BY <2>1, Joined
<1>2. CASE f.kind = "unhandled"
  <2>1. patches_driver(f, unhandled_) = Verdict(FALSE, Verify)
    BY <1>2 DEF patches_driver
  <2> QED
    BY <2>1, SharedEntries DEF Verdict
<1>3. CASE f.kind = "removed"
  <2>1. patches_driver(f, unhandled_)
          = Verdict(~unhandled_, IF unhandled_ THEN Verify ELSE Inform)
    BY <1>3 DEF patches_driver
  <2> QED
    BY <1>3, <2>1, SharedEntries DEF Verdict
<1>4. CASE f.kind = "patch"
  <2> DEFINE added == macro \o rest
  <2>1. patches_driver(f, unhandled_)
          = Verdict(~unhandled_ \/ (f.readable /\ corrupt = <<>>), added)
    BY <1>4 DEF patches_driver
  <2> HIDE DEF macro, corrupt, compared
  <2>2. compared \o Inform \in Seq(R)
    BY <1>1, SharedEntries, Joined
  <2>3. rest \in Seq(R)
    BY <1>1, <2>2, None
  <2> HIDE DEF rest
  <2>4. macro \o rest \in Seq(R)
    BY <1>1, <2>3, Joined
  <2> HIDE DEF added
  <2>5. /\ patches_driver(f, unhandled_).added = added
        /\ ~unhandled_ => patches_driver(f, unhandled_).ok
    BY <2>1, VerdictParts
  <2> QED
    BY <1>4, <2>4, <2>5 DEF added
<1> QED
  BY <1>2, <1>3, <1>4

\* The vendor, the build host and the words of a header.
LEMMA MetadataAccounts ==
    ASSUME NEW f, NEW R, Plain(R), NEW lenient,
           IsFiniteSet(f.words), IsFiniteSet(f.changed)
    PROVE  Accounts(metadata_item(f, lenient), R) /\ Honest(metadata_item(f, lenient))
<1> DEFINE a1 == When(f.vendor = "unset", Inform)
           a2 == When(f.vendor = "other", Final)
           a3 == When(f.foreign_host, Final)
           a4 == Times(Cardinality(f.words), Final)
           change == Entry(IF lenient THEN RESULT_INFO ELSE RESULT_VERIFY, "anyone")
           vendor == When(f.peer /\ f.vendor_changed, <<change>>)
           texts == Times(Cardinality(f.changed), Inform)
           last == When(f.peer, texts)
           added == a1 \o a2 \o a3 \o a4 \o vendor \o last
<1>1. metadata_item(f, lenient) = Verdict(~Failing(added), added)
  BY DEF metadata_item
<1>2. a1 \in Seq(R) /\ a2 \in Seq(R) /\ a3 \in Seq(R)
  BY SharedEntries, Whenever
<1>3. a4 \in Seq(R) /\ texts \in Seq(R)
  BY SharedEntries, Repeated, FS_CardinalityType
<1>4. vendor \in Seq(R)
  <2>1. change \in R
    BY DEF Plain, Reportable
  <2> HIDE DEF change
  <2> QED
    BY <2>1, One, Whenever
<1>5. last \in Seq(R)
  BY <1>3, Whenever
<1> HIDE DEF a1, a2, a3, a4, vendor, last
<1>6. a1 \o a2 \in Seq(R)
  BY <1>2, Joined
<1>7. a1 \o a2 \o a3 \in Seq(R)
  BY <1>2, <1>6, Joined
<1>8. a1 \o a2 \o a3 \o a4 \in Seq(R)
  BY <1>3, <1>7, Joined
<1>9. a1 \o a2 \o a3 \o a4 \o vendor \in Seq(R)
  BY <1>4, <1>8, Joined
<1>10. added \in Seq(R)
  BY <1>5, <1>9, Joined
<1> HIDE DEF added
<1> QED
  BY <1>1, <1>10, FailingAccounts DEF Plain

\* The entries of a changelog.
LEMMA ChangelogAccounts ==
    ASSUME NEW f, NEW R, Plain(R), f.bad_words \in Nat, f.forbidden \in Nat
    PROVE  Accounts(changelog_item(f), R) /\ Honest(changelog_item(f))
<1> DEFINE noted == When(f.noted, Inform)
           bad == Times(f.bad_words, Final)
           forbidden == Times(f.forbidden, Verify)
<1>1. /\ noted \in Seq(R) /\ bad \in Seq(R) /\ forbidden \in Seq(R)
      /\ bad = <<>> <=> f.bad_words = 0
      /\ forbidden = <<>> <=> f.forbidden = 0
  BY SharedEntries, Whenever, Repeated
<1>2. noted \in Seq(Notes)
  BY NotesShared, Whenever
<1> DEFINE added == noted \o bad \o forbidden
<1>3. changelog_item(f) = Verdict(f.bad_words + f.forbidden = 0, added)
  BY DEF changelog_item
<1> HIDE DEF noted, bad, forbidden
<1>4. /\ noted \o bad \in Seq(R)
      /\ noted \o bad \o forbidden \in Seq(R)
      /\ noted \o bad \o forbidden = <<>> => bad = <<>> /\ forbidden = <<>>
  BY <1>1, Joined
<1>5. bad = <<>> /\ forbidden = <<>> => noted \o bad \o forbidden = noted
  BY <1>2
<1>6. f.bad_words + f.forbidden = 0 <=> bad = <<>> /\ forbidden = <<>>
  BY <1>1
<1> HIDE DEF added
<1>7. /\ changelog_item(f).added = added
      /\ changelog_item(f).ok <=> bad = <<>> /\ forbidden = <<>>
  BY <1>3, <1>6, VerdictParts
<1>8. /\ added \in Seq(R)
      /\ added = <<>> => bad = <<>> /\ forbidden = <<>>
      /\ bad = <<>> /\ forbidden = <<>> => added \in Seq(Notes)
  BY <1>2, <1>4, <1>5 DEF added
<1> QED
  BY <1>7, <1>8 DEF Accounts, Honest

\* A package of a module, or its metadata.
LEMMA ModularityAccounts ==
    ASSUME NEW f, NEW R, Plain(R)
    PROVE  Accounts(modularity_item(f), R) /\ Honest(modularity_item(f))
<1> DEFINE label == When(~f.label, Final)
           release == When(f.rule /\ ~f.release, Final)
           wrong == \/ f.static /\ f.context = "forbidden"
                    \/ ~f.static /\ f.context = "required"
<1>1. CASE f.kind = "package"
  <2>1. modularity_item(f) = Clean(label \o release)
    BY <1>1 DEF modularity_item
  <2>2. label \in Seq(R) /\ release \in Seq(R)
    BY SharedEntries, Whenever
  <2> HIDE DEF label, release
  <2>3. label \o release \in Seq(R)
    BY <2>2, Joined
  <2> QED
    BY <2>1, <2>3, CleanAccounts
<1>2. CASE f.kind # "package"
  <2>1. modularity_item(f) = Verdict(~wrong, IF wrong THEN Verify ELSE Inform)
    BY <1>2 DEF modularity_item
  <2>2. CASE wrong
    <3>1. modularity_item(f) = Verdict(FALSE, Verify)
      BY <2>1, <2>2
    <3> QED
      BY <3>1, SharedEntries DEF Accounts, Honest, Verdict
  <2>3. CASE ~wrong
    <3>1. modularity_item(f) = Verdict(TRUE, Inform)
      BY <2>1, <2>3
    <3> QED
      BY <3>1, SharedEntries, NotesShared DEF Accounts, Honest, Verdict
  <2> QED
    BY <2>2, <2>3
<1> QED
  BY <1>1, <1>2

\* counts_as_good: what is not has a report, unless its parentheses do not match.
LEMMA LicenseAccounts ==
    ASSUME NEW f, NEW R, Plain(R), f.unapproved \in Nat, f.booleans \in Nat
    PROVE  /\ Accounts(license_item(f), R)
           /\ ~counts_as_good(f) /\ f.license # "unbalanced" /\ f.license = "tokens"
                => license_item(f).added # <<>>
<1> DEFINE wrong == Times(f.unapproved + f.booleans, Final)
           tokens == wrong \o When(f.mixed, Final)
           a1 == When(f.license = "tokens", tokens)
           a2 == When(valid_license(f), Inform)
           a3 == When(f.bad_word, Final)
           added == IF f.license = "none" THEN Final ELSE a1 \o a2 \o a3
<1>1. license_item(f) = Verdict(~Failing(added), added)
  BY DEF license_item
<1>2. wrong \in Seq(R) /\ (wrong = <<>> <=> f.unapproved + f.booleans = 0)
  <2>1. f.unapproved + f.booleans \in Nat
    OBVIOUS
  <2> QED
    BY <2>1, SharedEntries, Repeated
<1>3. tokens \in Seq(R) /\ (tokens = <<>> => wrong = <<>>)
  <2>1. When(f.mixed, Final) \in Seq(R)
    BY SharedEntries, Whenever
  <2> HIDE DEF wrong
  <2> QED
    BY <1>2, <2>1, Joined
<1>4. a1 \in Seq(R) /\ a2 \in Seq(R) /\ a3 \in Seq(R)
  <2> HIDE DEF tokens
  <2> QED
    BY <1>3, SharedEntries, Whenever
<1>5. a1 \o a2 \o a3 \in Seq(R) /\ (a1 \o a2 \o a3 = <<>> => a1 = <<>>)
  <2> HIDE DEF a1, a2, a3
  <2>1. a1 \o a2 \in Seq(R)
    BY <1>4, Joined
  <2> QED
    BY <1>4, <2>1, Joined
<1>6. added \in Seq(R)
  BY <1>5, SharedEntries
<1>7. ASSUME ~counts_as_good(f), f.license = "tokens"
      PROVE  added # <<>>
  <2>1. wrong # <<>>
    BY <1>2, <1>7 DEF counts_as_good, valid_license
  <2>2. a1 # <<>>
    <3> HIDE DEF wrong, tokens
    <3> QED
      BY <1>3, <1>7, <2>1, Whenever
  <2> HIDE DEF a1, a2, a3
  <2> QED
    BY <1>5, <1>7, <2>2
<1> HIDE DEF added
<1>8. license_item(f).added = added
  BY <1>1 DEF Verdict
<1> QED
  BY <1>1, <1>6, <1>7, <1>8, FailingAccounts DEF Plain

-----------------------------------------------------------------------------

(***************************************************************************)
(* ELF files, text and other files.                                        *)
(***************************************************************************)

\* Drivers that add one kind of entry for each thing they find wrong.
LEMMA SingleFindings ==
    ASSUME NEW f, NEW R, Plain(R)
    PROVE  /\ \A lenient : /\ Accounts(movedfiles_driver(f, lenient), R)
                           /\ Honest(movedfiles_driver(f, lenient))
           /\ Accounts(badfuncs_driver(f), R) /\ Honest(badfuncs_driver(f))
           /\ Accounts(kmidiff_driver(f), R) /\ Honest(kmidiff_driver(f))
           /\ f.symbols \in Nat => Accounts(lto_driver(f), R) /\ Honest(lto_driver(f))
           /\ f.changes \in Nat => Accounts(kmod_driver(f), R)
           /\ IsFiniteSet(f.errors) => Accounts(manpage_driver(f), R) /\ Honest(manpage_driver(f))
<1>1. ASSUME NEW lenient
      PROVE  /\ Accounts(movedfiles_driver(f, lenient), R)
             /\ Honest(movedfiles_driver(f, lenient))
  <2> DEFINE report == IF lenient THEN Inform ELSE Verify
  <2>1. report \in Seq(R)
    BY SharedEntries
  <2>2. movedfiles_driver(f, lenient) = Clean(When(f.peer /\ f.moved, report))
    BY DEF movedfiles_driver
  <2> HIDE DEF report
  <2> QED
    BY <2>1, <2>2, Whenever, CleanAccounts
<1>2. Accounts(badfuncs_driver(f), R) /\ Honest(badfuncs_driver(f))
  BY SharedEntries, Whenever, CleanAccounts DEF badfuncs_driver
<1>3. Accounts(kmidiff_driver(f), R) /\ Honest(kmidiff_driver(f))
  BY SharedEntries, Whenever, CleanAccounts DEF kmidiff_driver
<1>4. ASSUME f.symbols \in Nat
      PROVE  Accounts(lto_driver(f), R) /\ Honest(lto_driver(f))
  BY <1>4, SharedEntries, Repeated, Whenever, CleanAccounts DEF lto_driver
<1>5. ASSUME f.changes \in Nat
      PROVE  Accounts(kmod_driver(f), R)
  <2>1. Times(f.changes, Inform) \in Seq(R)
    BY <1>5, SharedEntries, Repeated
  <2>2. When(f.peer, Times(f.changes, Inform)) \in Seq(R)
    BY <2>1, Whenever
  <2> QED
    BY <2>2, VerdictParts DEF Accounts, kmod_driver
<1>6. ASSUME IsFiniteSet(f.errors)
      PROVE  Accounts(manpage_driver(f), R) /\ Honest(manpage_driver(f))
  <2>1. Cardinality(f.errors) \in Nat
    BY <1>6, FS_CardinalityType
  <2> QED
    BY <2>1, SharedEntries, Repeated, CleanAccounts DEF manpage_driver
<1> QED
  BY <1>1, <1>2, <1>3, <1>4, <1>5, <1>6

\* Dependencies on shared objects, which are read twice from one file.
LEMMA DsodepsAccounts ==
    ASSUME NEW f, NEW R, Plain(R)
    PROVE  Accounts(dsodeps_driver(f), R) /\ Honest(dsodeps_driver(f))
<1> DEFINE lost == When(f.peer /\ f.needed \ f.needed # {}, Verify)
<1>1. lost \in Seq(R)
  BY SharedEntries, Whenever
<1>2. dsodeps_driver(f) = Clean(lost \o lost)
  BY DEF dsodeps_driver
<1> HIDE DEF lost
<1> QED
  BY <1>1, <1>2, Joined, CleanAccounts

\* Positions in a sequence can be counted.
LEMMA CountOfPositions ==
    ASSUME NEW R, NEW s \in Seq(R), NEW T, T \subseteq DOMAIN s
    PROVE  Cardinality(T) \in Nat
<1>1. Len(s) \in Nat /\ T \subseteq 1 .. Len(s)
  OBVIOUS
<1>2. IsFiniteSet(1 .. Len(s))
  BY <1>1, FS_Interval
<1> QED
  BY <1>1, <1>2, FS_Subset, FS_CardinalityType

\* Both kinds of run paths, and the entries of each.
LEMMA RunpathAccounts ==
    ASSUME NEW f, NEW R, Plain(R), f.rpath \in Seq(STRING), f.runpath \in Seq(STRING)
    PROVE  Accounts(runpath_driver(f), R) /\ Honest(runpath_driver(f))
<1> DEFINE strange(path) == {i \in DOMAIN path : path[i] = "elsewhere"}
           count == Cardinality(strange(f.rpath)) + Cardinality(strange(f.runpath))
           both == When(f.rpath # <<>> /\ f.runpath # <<>>, Final)
           entries == Times(count, Verify)
<1>1. count \in Nat
  <2>1. /\ Cardinality(strange(f.rpath)) \in Nat
        /\ Cardinality(strange(f.runpath)) \in Nat
    BY CountOfPositions
  <2> HIDE DEF strange
  <2> QED
    BY <2>1
<1>2. runpath_driver(f) = Clean(both \o entries)
  BY DEF runpath_driver
<1> HIDE DEF count
<1>3. both \in Seq(R) /\ entries \in Seq(R)
  BY <1>1, SharedEntries, Whenever, Repeated
<1> HIDE DEF both, entries
<1>4. both \o entries \in Seq(R)
  BY <1>3, Joined
<1> QED
  BY <1>2, <1>4, CleanAccounts

\* The sections of debugging symbols.
LEMMA DebuginfoAccounts ==
    ASSUME NEW f, NEW R, Plain(R)
    PROVE  Accounts(debuginfo_driver(f), R) /\ Honest(debuginfo_driver(f))
<1> DEFINE lacks == f.wanted \ f.sections # {}
           lacked == f.wanted \ f.before # {}
           has == f.sections # {}
           state == When(IF f.debugpkg THEN lacks ELSE has /\ ~f.guile, Bad)
           gained == When(lacked /\ ~lacks /\ has, IF f.debugpkg THEN Inform ELSE Bad)
           lost == When(~lacked /\ lacks, IF f.debugpkg THEN Bad ELSE Inform)
           change == IF ~f.peer THEN <<>> ELSE gained \o lost
           go == When(~f.debugpkg /\ f.go, Verify)
           added == state \o change \o go
<1>1. debuginfo_driver(f) = Verdict(~Failing(added), added)
  BY DEF debuginfo_driver
<1>2. state \in Seq(R) /\ go \in Seq(R)
  BY SharedEntries, Whenever
<1>3. gained \in Seq(R) /\ lost \in Seq(R)
  BY SharedEntries, None DEF When
<1>4. change \in Seq(R)
  <2> HIDE DEF gained, lost
  <2> QED
    BY <1>3, None, Joined
<1> HIDE DEF state, change, go
<1>5. state \o change \in Seq(R)
  BY <1>2, <1>4, Joined
<1>6. added \in Seq(R)
  BY <1>2, <1>5, Joined
<1> HIDE DEF added
<1> QED
  BY <1>1, <1>6, FailingAccounts DEF Plain

\* The exit code of abidiff.
LEMMA AbidiffAccounts ==
    ASSUME NEW f, NEW R, Plain(R), NEW lenient
    PROVE  Accounts(abidiff_driver(f, lenient), R) /\ Honest(abidiff_driver(f, lenient))
<1> DEFINE differs_ == f.exit \cap {"change", "incompatible"} # {}
           worse == (differs_ /\ ~lenient) \/ (~differs_ /\ "usage" \in f.exit)
           severity == IF worse /\ ~f.listed THEN RESULT_VERIFY ELSE RESULT_INFO
           entry == Entry(severity, IF worse THEN "anyone" ELSE "not")
<1>1. abidiff_driver(f, lenient)
        = Clean(When(f.peer /\ (differs_ \/ "usage" \in f.exit), <<entry>>))
  BY DEF abidiff_driver
<1>2. entry \in R
  BY DEF Plain, Reportable
<1> HIDE DEF entry
<1> QED
  BY <1>1, <1>2, One, Whenever, CleanAccounts

\* Lists of politics, udev rules and XML.
LEMMA TextsAccount ==
    ASSUME NEW f, NEW R, Plain(R)
    PROVE  /\ Accounts(politics_driver(f), R) /\ Honest(politics_driver(f))
           /\ Accounts(udevrules_driver(f), R) /\ Honest(udevrules_driver(f))
           /\ Accounts(xml_driver(f), R) /\ Honest(xml_driver(f))
<1>1. Accounts(udevrules_driver(f), R) /\ Honest(udevrules_driver(f))
  BY SharedEntries, NotesShared DEF udevrules_driver, Accounts, Honest, Verdict
<1>2. Accounts(xml_driver(f), R) /\ Honest(xml_driver(f))
  <2> DEFINE invalid == When(f.xml = "invalid", Inform)
             malformed == When(f.xml = "malformed", Verify)
             added == invalid \o malformed
  <2>1. xml_driver(f) = Verdict(f.xml # "malformed", added)
    BY DEF xml_driver
  <2>2. invalid \in Seq(R) /\ malformed \in Seq(R) /\ invalid \in Seq(Notes)
    BY SharedEntries, NotesShared, Whenever
  <2>3. f.xml = "malformed" => malformed # <<>>
    BY SharedEntries, Whenever
  <2>4. f.xml # "malformed" => malformed = <<>>
    BY DEF When
  <2> HIDE DEF invalid, malformed
  <2>5. /\ added \in Seq(R)
        /\ malformed # <<>> => added # <<>>
        /\ malformed = <<>> => added = invalid
    BY <2>2, Joined
  <2> HIDE DEF added
  <2>6. xml_driver(f).added = added /\ (xml_driver(f).ok <=> f.xml # "malformed")
    BY <2>1, VerdictParts
  <2> QED
    BY <2>2, <2>3, <2>4, <2>5, <2>6 DEF Accounts, Honest
<1>3. Accounts(politics_driver(f), R) /\ Honest(politics_driver(f))
  <2> DEFINE Kind(k) == {i \in DOMAIN f.entries : f.entries[i].digest = k}
             matching == IF Kind("same") # {} THEN Kind("same") ELSE Kind("any")
             last == CHOOSE i \in matching : \A j \in matching : j <= i
             allowed == f.entries[last].allowed
  <2>1. politics_driver(f)
          = IF matching = {} THEN Quiet
            ELSE Verdict(allowed, IF allowed THEN Inform ELSE Final)
    BY DEF politics_driver
  <2> HIDE DEF matching, allowed
  <2>2. Accounts(Quiet, R) /\ Honest(Quiet)
    BY None, NotesShared DEF Quiet, Accounts, Honest, Verdict
  <2>3. /\ Accounts(Verdict(allowed, IF allowed THEN Inform ELSE Final), R)
        /\ Honest(Verdict(allowed, IF allowed THEN Inform ELSE Final))
    BY SharedEntries, NotesShared DEF Accounts, Honest, Verdict
  <2> QED
    BY <2>1, <2>2, <2>3
<1> QED
  BY <1>1, <1>2, <1>3

\* A class file that is wrong is reported; otherwise the driver fails only for
\* what was wrong in a jar before.
LEMMA JavabytecodeAccounts ==
    ASSUME NEW f, NEW R, Plain(R), NEW before, f.classes \in Seq(STRING)
    PROVE  LET v == javabytecode_driver(f, before) IN
           /\ v.added \in Seq(R) /\ Honest(v)
           /\ ~v.ok => \/ v.added # <<>> \/ ~before
                       \/ f.jar /\ f.unpacked = "no_directory"
           /\ v.added = javabytecode_driver(f, TRUE).added
           /\ v.added # <<>> => ~v.ok
<1> DEFINE wrong(c) == \/ c \in {"unreadable", "old"}
                       \/ c = "changed" /\ f.peer /\ ~f.jar
           count == Cardinality({i \in DOMAIN f.classes : wrong(f.classes[i])})
           added == Times(count, Bad)
<1>1. \A b : javabytecode_driver(f, b)
                = IF f.jar /\ f.unpacked = "no_directory" THEN Verdict(FALSE, <<>>)
                  ELSE IF f.jar /\ f.unpacked = "no_archive" THEN Quiet
                  ELSE Verdict(added = <<>> /\ (f.jar => b), added)
  BY DEF javabytecode_driver
<1>2. count \in Nat
  <2> HIDE DEF wrong
  <2> QED
    BY CountOfPositions
<1> HIDE DEF count
<1>3. added \in Seq(R)
  BY <1>2, SharedEntries, Repeated
<1> HIDE DEF added
<1>4. CASE f.jar /\ f.unpacked = "no_directory"
  <2>1. \A b : javabytecode_driver(f, b) = Verdict(FALSE, <<>>)
    BY <1>1, <1>4
  <2>2. Verdict(FALSE, <<>>).added = <<>> /\ ~Verdict(FALSE, <<>>).ok
    BY DEF Verdict
  <2> QED
    BY <1>4, <2>1, <2>2, None DEF Honest
<1>5. CASE f.jar /\ f.unpacked = "no_archive"
  <2>1. \A b : javabytecode_driver(f, b) = Quiet
    BY <1>1, <1>5
  <2>2. Quiet.added = <<>> /\ Quiet.ok
    BY DEF Quiet, Verdict
  <2> QED
    BY <2>1, <2>2, None, NotesShared DEF Honest
<1>6. CASE ~(f.jar /\ f.unpacked \in {"no_directory", "no_archive"})
  <2>1. \A b : /\ javabytecode_driver(f, b).added = added
               /\ javabytecode_driver(f, b).ok <=> added = <<>> /\ (f.jar => b)
    BY <1>1, <1>6, VerdictParts
  <2> QED
    BY <2>1, <1>3, NotesShared DEF Honest
<1> QED
  BY <1>4, <1>5, <1>6

\* A script fails with a report, unless it needs extglob as its peer does not.
LEMMA ShellsyntaxAccounts ==
    ASSUME NEW f, NEW R, Plain(R), f.syntax \in {"valid", "extglob", "invalid"}
    PROVE  LET v == shellsyntax_driver(f) IN
           /\ v.added \in Seq(R) /\ Honest(v)
           /\ ~v.ok => v.added # <<>> \/ (f.syntax = "extglob" /\ f.before_valid)
<1> DEFINE was_script == f.peer /\ f.before_shell # "none"
           shells == When(f.peer /\ f.shell # f.before_shell, Inform)
           compared == IF f.syntax = "invalid" THEN Bad ELSE When(~f.before_valid, Inform)
           extglob == When(f.syntax = "extglob", Inform)
           invalid == When(f.syntax = "invalid", Bad)
           rest == IF was_script THEN compared ELSE extglob \o invalid
           added == shells \o rest
<1>1. shellsyntax_driver(f) = Verdict(f.syntax = "valid", added)
  BY DEF shellsyntax_driver
<1>2. shells \in Seq(R) /\ shells \in Seq(Notes)
  BY SharedEntries, NotesShared, Whenever
<1>3. /\ compared \in Seq(R)
      /\ f.syntax = "valid" => compared \in Seq(Notes)
      /\ f.syntax = "invalid" => compared # <<>>
      /\ f.syntax = "extglob" /\ ~f.before_valid => compared # <<>>
  BY SharedEntries, NotesShared, Whenever
<1>4. /\ extglob \in Seq(R) /\ invalid \in Seq(R)
      /\ f.syntax = "extglob" => extglob # <<>>
      /\ f.syntax = "invalid" => invalid # <<>>
      /\ f.syntax = "valid" => extglob \in Seq(Notes) /\ invalid \in Seq(Notes)
  BY SharedEntries, NotesShared, Whenever DEF When
<1>5. /\ rest \in Seq(R)
      /\ f.syntax = "valid" => rest \in Seq(Notes)
      /\ f.syntax = "invalid" => rest # <<>>
      /\ f.syntax = "extglob" /\ ~f.before_valid => rest # <<>>
  <2> HIDE DEF compared, extglob, invalid
  <2>1. /\ extglob \o invalid \in Seq(R)
        /\ extglob \o invalid = <<>> => extglob = <<>> /\ invalid = <<>>
    BY <1>4, Joined
  <2>2. f.syntax = "valid" => extglob \o invalid \in Seq(Notes)
    BY <1>4, Joined
  <2> QED
    BY <1>3, <1>4, <2>1, <2>2
<1> HIDE DEF shells, rest
<1>6. added \in Seq(R) /\ (added = <<>> => rest = <<>>)
  BY <1>2, <1>5, Joined
<1>7. f.syntax = "valid" => added \in Seq(Notes)
  BY <1>2, <1>5, Joined
<1> HIDE DEF added
<1>8. shellsyntax_driver(f).added = added /\ (shellsyntax_driver(f).ok <=> f.syntax = "valid")
  BY <1>1, VerdictParts
<1> QED
  BY <1>5, <1>6, <1>7, <1>8 DEF Honest

\* A desktop file fails for what the validator or the checks of its keys say.
LEMMA DesktopAccounts ==
    ASSUME NEW f, NEW R, Plain(R), f.valid \/ f.output
    PROVE  Accounts(desktop_driver(f), R) /\ Honest(desktop_driver(f))
<1> DEFINE e1 == When(f.exec = "unexecutable" \/ (f.exec = "missing" /\ ~f.tryexec), Verify)
           e2 == When(f.exec = "missing" /\ f.tryexec, Inform)
           e3 == When(f.icon \in {"unreadable", "missing"}, Verify)
           contents == e1 \o e2 \o e3
           output == When(f.output, IF f.valid THEN Inform ELSE Bad)
           added == output \o contents
<1>1. desktop_driver(f) = Verdict(f.valid /\ contents = <<>>, added)
  BY DEF desktop_driver
<1>2. contents \in Seq(R)
  <2>1. e1 \in Seq(R) /\ e2 \in Seq(R) /\ e3 \in Seq(R)
    BY SharedEntries, Whenever
  <2> HIDE DEF e1, e2, e3
  <2>2. e1 \o e2 \in Seq(R)
    BY <2>1, Joined
  <2> QED
    BY <2>1, <2>2, Joined
<1>3. /\ output \in Seq(R)
      /\ f.valid => output \in Seq(Notes)
      /\ f.output => output # <<>>
  BY SharedEntries, NotesShared, None DEF When
<1> HIDE DEF contents, output
<1>4. /\ added \in Seq(R)
      /\ added = <<>> => output = <<>> /\ contents = <<>>
      /\ contents = <<>> => added = output
  BY <1>2, <1>3, Joined
<1> HIDE DEF added
<1>5. /\ desktop_driver(f).added = added
      /\ desktop_driver(f).ok <=> f.valid /\ contents = <<>>
  BY <1>1, VerdictParts
<1> QED
  BY <1>3, <1>4, <1>5 DEF Accounts, Honest

\* What concerns one file alone, or a file and its peer.
LEMMA FilesAccount ==
    ASSUME NEW f, NEW R, Plain(R)
    PROVE  /\ Accounts(types_driver(f), R)
           /\ Accounts(filesize_driver(f), R)
           /\ Accounts(pathmigration_driver(f), R) /\ Honest(pathmigration_driver(f))
<1>1. Accounts(types_driver(f), R)
  <2>1. When(f.peer /\ f.change = "content", Inform) \in Seq(R)
    BY SharedEntries, Whenever
  <2> QED
    BY <2>1, VerdictParts DEF types_driver, Accounts
<1>2. Accounts(pathmigration_driver(f), R) /\ Honest(pathmigration_driver(f))
  <2>1. CASE f.migrates
    <3>1. pathmigration_driver(f) = Verdict(FALSE, Verify)
      BY <2>1 DEF pathmigration_driver, When
    <3> QED
      BY <3>1, SharedEntries DEF Accounts, Honest, Verdict
  <2>2. CASE ~f.migrates
    <3>1. pathmigration_driver(f) = Verdict(TRUE, <<>>)
      BY <2>2 DEF pathmigration_driver, When
    <3> QED
      BY <3>1, None, NotesShared DEF Accounts, Honest, Verdict
  <2> QED
    BY <2>1, <2>2
<1>3. Accounts(filesize_driver(f), R)
  <2>1. \/ filesize_driver(f) = Quiet
        \/ \E v \in {RESULT_INFO, RESULT_VERIFY}, w \in {"anyone", "not"} :
              filesize_driver(f) = Verdict(v = RESULT_INFO, <<Entry(v, w)>>)
    <3> DEFINE difference == IF f.size > f.before_size THEN f.size - f.before_size
                             ELSE f.before_size - f.size
               emptiness == f.size = 0 \/ f.before_size = 0
               change == (difference * 100) \div f.before_size
               large == emptiness \/ (settings.size_threshold > 0
                                      /\ change >= settings.size_threshold)
               severity == IF large /\ settings.size_threshold # -1 THEN RESULT_VERIFY
                           ELSE RESULT_INFO
               who == IF large THEN "anyone" ELSE "not"
               nothing == ~f.peer \/ difference = 0 \/ (~emptiness /\ change = 0)
    <3>1. filesize_driver(f)
            = IF nothing THEN Quiet
              ELSE Verdict(severity = RESULT_INFO, <<Entry(severity, who)>>)
      BY DEF filesize_driver
    <3>2. severity \in {RESULT_INFO, RESULT_VERIFY} /\ who \in {"anyone", "not"}
      OBVIOUS
    <3> HIDE DEF severity, who, nothing
    <3> QED
      BY <3>1, <3>2
  <2>2. Accounts(Quiet, R)
    BY None DEF Quiet, Accounts, Verdict
  <2>3. ASSUME NEW v \in {RESULT_INFO, RESULT_VERIFY}, NEW w \in {"anyone", "not"}
        PROVE  Accounts(Verdict(v = RESULT_INFO, <<Entry(v, w)>>), R)
    <3>1. Entry(v, w) \in R
      BY DEF Plain, Reportable
    <3> DEFINE entry == Entry(v, w)
    <3> HIDE DEF entry
    <3>2. <<entry>> \in Seq(R) /\ <<entry>> # <<>>
      BY <3>1, One DEF entry
    <3>3. Accounts(Verdict(v = RESULT_INFO, <<entry>>), R)
      BY <3>2, VerdictAccounts
    <3> QED
      BY <3>3 DEF entry
  <2> QED
    BY <2>1, <2>2, <2>3
<1> QED
  BY <1>1, <1>2, <1>3

\* A link, by what it was and what became of its destination.
LEMMA SymlinksAccount ==
    ASSUME NEW f, NEW R, Plain(R),
           f.target \in {"unreadable", "unresolvable", "reachable", "dangling", "loop"}
    PROVE  Accounts(symlinks_driver(f), R)
<1> DEFINE report == IF f.was = "dir" THEN Bad
                     ELSE IF f.target = "reachable" THEN Inform ELSE Verify
           became == When(f.was \in {"dir", "file"}, report)
           entry == Entry(RESULT_VERIFY, "none")
<1>1. became \in Seq(R) /\ (f.was = "dir" => became # <<>>)
  <2>1. report \in Seq(R) /\ report # <<>>
    BY SharedEntries
  <2> HIDE DEF report
  <2> QED
    BY <2>1, Whenever
<1>2. entry \in R
  BY DEF Plain, Reportable
<1>3. symlinks_driver(f) \in {Verdict(FALSE, Bad), Verdict(FALSE, <<entry>>),
                              Verdict(f.was # "dir", became), Verdict(TRUE, became \o Inform),
                              Verdict(FALSE, became \o Bad)}
  BY DEF symlinks_driver
<1> HIDE DEF became, entry
<1>4. /\ became \o Inform \in Seq(R)
      /\ became \o Bad \in Seq(R) /\ became \o Bad # <<>>
  BY <1>1, SharedEntries, Joined
<1>5. /\ Accounts(Verdict(FALSE, Bad), R)
      /\ Accounts(Verdict(f.was # "dir", became), R)
      /\ Accounts(Verdict(TRUE, became \o Inform), R)
      /\ Accounts(Verdict(FALSE, became \o Bad), R)
  BY <1>1, <1>4, SharedEntries, VerdictAccounts
<1>6. Accounts(Verdict(FALSE, <<entry>>), R)
  <2>1. <<entry>> \in Seq(R) /\ <<entry>> # <<>>
    BY <1>2, One
  <2> QED
    BY <2>1, VerdictAccounts
<1> QED
  BY <1>3, <1>5, <1>6

\* Packages that came, went or lost their payload, with what a rebase makes
\* of it.
LEMMA PackagesAccount ==
    ASSUME NEW f, NEW R, Plain(R)
    PROVE  /\ Accounts(subpackages_item(f), R) /\ Honest(subpackages_item(f))
           /\ Accounts(lostpayload_item(f), R)
           /\ Accounts(emptyrpm_item(f), R)
           /\ rebase => /\ subpackages_item(f).added \in Seq(Notes)
                        /\ lostpayload_item(f).added \in Seq(Notes)
<1>1. /\ Accounts(lostpayload_item(f), R)
      /\ rebase => lostpayload_item(f).added \in Seq(Notes)
  <2> DEFINE lost == IF f.after = "none" THEN TRUE ELSE f.after = "empty" /\ ~f.expected
             report == IF rebase THEN Inform ELSE Verify
             added == When(lost, report)
  <2>1. lostpayload_item(f) = Verdict(rebase \/ ~lost, added)
    BY DEF lostpayload_item
  <2>2. /\ report \in Seq(R) /\ report # <<>>
        /\ rebase => report \in Seq(Notes)
    BY SharedEntries, NotesShared
  <2> HIDE DEF lost, report
  <2>3. /\ added \in Seq(R)
        /\ lost => added # <<>>
        /\ rebase => added \in Seq(Notes)
    BY <2>2, Whenever
  <2> HIDE DEF added
  <2>4. /\ lostpayload_item(f).added = added
        /\ lostpayload_item(f).ok <=> rebase \/ ~lost
    BY <2>1, VerdictParts
  <2> QED
    BY <2>3, <2>4 DEF Accounts
<1>2. Accounts(emptyrpm_item(f), R)
  <2> DEFINE new == f.after = "empty" /\ f.before = "none"
             fine == f.expected \/ f.ghosts
             report == IF fine THEN Inform ELSE Verify
             added == When(new, report)
  <2>1. emptyrpm_item(f) = Verdict(~new \/ fine, added)
    BY DEF emptyrpm_item
  <2>2. report \in Seq(R) /\ report # <<>>
    BY SharedEntries
  <2> HIDE DEF report
  <2>3. added \in Seq(R) /\ (new => added # <<>>)
    BY <2>2, Whenever
  <2> HIDE DEF added
  <2>4. emptyrpm_item(f).added = added /\ (emptyrpm_item(f).ok <=> ~new \/ fine)
    BY <2>1, VerdictParts
  <2> QED
    BY <2>3, <2>4 DEF Accounts
<1>3. /\ Accounts(subpackages_item(f), R) /\ Honest(subpackages_item(f))
      /\ rebase => subpackages_item(f).added \in Seq(Notes)
  <2> DEFINE severity == IF rebase THEN RESULT_INFO ELSE RESULT_VERIFY
             lost == Entry(severity, "anyone")
             gained == Entry(severity, "not")
             added == IF f.after = "none" THEN <<lost>>
                      ELSE When(f.before = "none", <<gained>>)
  <2>1. subpackages_item(f) = Verdict(rebase \/ added = <<>>, added)
    BY DEF subpackages_item
  <2>2. /\ lost \in R /\ gained \in R
        /\ rebase => lost \in Notes /\ gained \in Notes
    BY NotesShared DEF Plain, Reportable, Authorities
  <2> HIDE DEF lost, gained
  <2>3. added \in Seq(R) /\ (rebase => added \in Seq(Notes))
    BY <2>2, One, None DEF When
  <2> HIDE DEF added
  <2>4. /\ subpackages_item(f).added = added
        /\ subpackages_item(f).ok <=> rebase \/ added = <<>>
    BY <2>1, VerdictParts
  <2> QED
    BY <2>3, <2>4, NotesShared DEF Accounts, Honest
<1> QED
  BY <1>1, <1>2, <1>3

\* What lost, gained or kept its mark as configuration or documentation.
LEMMA MarkedAccount ==
    ASSUME NEW f, NEW R, Plain(R)
    PROVE  /\ Accounts(config_driver(f), R) /\ Accounts(doc_driver(f), R)
           /\ rebase => /\ config_driver(f).added \in Seq(Notes)
                        /\ doc_driver(f).added \in Seq(Notes)
<1> DEFINE report == IF rebase THEN Inform ELSE Verify
           changed == When(f.change # "none", report)
           noted == When(f.change # "none", Inform)
<1>1. /\ report \in Seq(R) /\ report # <<>>
      /\ rebase => report \in Seq(Notes)
  BY SharedEntries, NotesShared
<1>2. config_driver(f) \in {Quiet, Verdict(FALSE, report),
                            Verdict(rebase \/ f.change = "none", changed)}
  BY DEF config_driver
<1>3. doc_driver(f) \in {Quiet, Verdict(TRUE, noted), Verdict(rebase, report)}
  BY DEF doc_driver
<1> HIDE DEF report
<1>4. /\ changed \in Seq(R) /\ (f.change # "none" => changed # <<>>)
      /\ rebase => changed \in Seq(Notes)
      /\ noted \in Seq(R) /\ noted \in Seq(Notes)
  BY <1>1, SharedEntries, NotesShared, Whenever
<1> HIDE DEF changed, noted
<1> DEFINE Right(v) == Accounts(v, R) /\ (rebase => v.added \in Seq(Notes))
<1>5. rebase \in BOOLEAN
  BY DEF rebase, is_rebase
<1>6. Right(Quiet)
  BY None, NotesShared DEF Quiet, Accounts, Verdict
<1>7. /\ Right(Verdict(FALSE, report))
      /\ Right(Verdict(rebase \/ f.change = "none", changed))
      /\ Right(Verdict(TRUE, noted))
      /\ Right(Verdict(rebase, report))
  BY <1>1, <1>4, <1>5, VerdictParts DEF Accounts
<1> HIDE DEF Right
<1>8. Right(config_driver(f)) /\ Right(doc_driver(f))
  BY <1>2, <1>3, <1>6, <1>7
<1> QED
  BY <1>8 DEF Right

-----------------------------------------------------------------------------

(***************************************************************************)
(* Inspections with security checks.                                       *)
(***************************************************************************)

\* R has what an inspection with security checks may say of a file: nothing
\* but notes and what rules of the types in T ask for, if it is ignored.
Careful(R, f, T) ==
    /\ R \subseteq EntryType
    /\ Inform \in Seq(R)
    /\ ~f.ignored => Plain(R)
    /\ \A type \in T : Security(f, type) \in Seq(R)

\* A new file; in a rebase that is a note.
LEMMA AddedfilesAccount ==
    ASSUME NEW f, NEW R, Careful(R, f, {"securitypath"})
    PROVE  /\ Accounts(addedfiles_driver(f), R)
           /\ rebase => addedfiles_driver(f).added \in Seq(Notes)
<1> DEFINE forbidden == f.forbidden /\ ~f.ignored
           secure == f.security /\ f.kind = "reg" /\ f.origin \in {"renamed", "new"}
           security == Security(f, "securitypath")
           added == IF forbidden THEN (IF rebase THEN Inform ELSE Bad)
                    ELSE IF secure THEN (IF rebase THEN Inform ELSE security)
                    ELSE When(~f.ignored /\ f.origin = "new", Inform)
<1>1. addedfiles_driver(f) = Verdict(~Failing(added), added)
  BY DEF addedfiles_driver
<1>2. security \in Seq(R) /\ Inform \in Seq(R) /\ R \subseteq EntryType
  BY DEF Careful
<1>3. ~f.ignored => Bad \in Seq(R)
  BY SharedEntries DEF Careful
<1> HIDE DEF security
<1>4. added \in Seq(R) /\ (rebase => added \in Seq(Notes))
  BY <1>2, <1>3, None, NotesShared DEF When
<1> HIDE DEF added
<1>5. addedfiles_driver(f).added = added
  BY <1>1 DEF Verdict
<1> QED
  BY <1>1, <1>2, <1>4, <1>5, FailingAccounts

\* A removed file; in a rebase only a rule about its path makes it fail.
LEMMA RemovedfilesAccount ==
    ASSUME NEW f, NEW R, Careful(R, f, {"securitypath"})
    PROVE  /\ Accounts(removedfiles_driver(f), R)
           /\ rebase /\ ~f.sentry => removedfiles_driver(f).added \in Seq(Notes)
<1> DEFINE ruled == f.sentry \/ (f.security /\ ~rebase)
           severity == IF ruled THEN get_secrule_result_severity(f, "securitypath")
                       ELSE RESULT_INFO
           report == IF severity = RESULT_INFO THEN Inform
                     ELSE <<Entry(severity, "security")>>
           speaks == ~f.peer /\ severity \notin {RESULT_NULL, RESULT_SKIP}
           added == When(speaks, report)
<1>1. removedfiles_driver(f) = Verdict(~Failing(added), added)
  BY DEF removedfiles_driver
<1>2. Security(f, "securitypath") \in Seq(R) /\ Inform \in Seq(R) /\ R \subseteq EntryType
  BY DEF Careful
<1>3. speaks => report \in Seq(R)
  <2>1. CASE severity = RESULT_INFO
    BY <2>1, <1>2
  <2>2. CASE severity # RESULT_INFO
    <3>1. speaks => report = Security(f, "securitypath")
      BY <2>2 DEF Security, When
    <3> QED
      BY <3>1, <1>2
  <2> QED
    BY <2>1, <2>2
<1>4. ~ruled => report = Inform
  OBVIOUS
<1> HIDE DEF report, speaks
<1>5. added \in Seq(R) /\ (rebase /\ ~f.sentry => added \in Seq(Notes))
  BY <1>3, <1>4, None, NotesShared DEF When
<1> HIDE DEF added
<1>6. removedfiles_driver(f).added = added
  BY <1>1 DEF Verdict
<1> QED
  BY <1>1, <1>2, <1>5, <1>6, FailingAccounts

\* A changed file on a security path is reported to the security team.
LEMMA ChangedfilesAccount ==
    ASSUME NEW f, NEW R, Careful(R, f, {}),
           \A v \in Reportable : Entry(v, "security") \in R
    PROVE  LET v == changedfiles_driver(f) IN
           /\ v.added \in Seq(R)
           /\ ~v.ok => (f.security /\ reported) \/ v.added # <<>>
<1> DEFINE base == IF f.security THEN Entry(RESULT_BAD, "security") ELSE Inform[1]
           Report(severity) == <<Entry(severity, base.waiverauth)>>
           ignore == f.ignored /\ ~f.security
           added ==
             IF ~f.peer \/ ignore THEN <<>>
             ELSE IF f.content = "compressed"
             THEN When(f.change = "content", Report(base.severity))
             ELSE IF f.content = "mo" /\ f.change = "broken" THEN Report(RESULT_BAD)
             ELSE IF f.content \in {"mo", "header"} /\ f.change = "content"
             THEN Report(RESULT_INFO)
             ELSE When(~rebase /\ f.change # "none", Report(RESULT_INFO))
           severity == IF added = <<>> THEN base.severity ELSE added[1].severity
<1>1. changedfiles_driver(f)
        = Verdict(~f.peer \/ ~fails(severity, reported \/ added # <<>>), added)
  BY DEF changedfiles_driver
<1>2. base.severity \in Reportable
  BY DEF Inform, Entry, Reportable
<1>3. ASSUME NEW v \in Reportable, ~ignore
      PROVE  Report(v) \in Seq(R)
  <2>1. Entry(v, base.waiverauth) \in R
    <3>1. CASE f.security
      <4>1. base.waiverauth = "security"
        BY <3>1 DEF Entry
      <4> QED
        BY <4>1
    <3>2. CASE ~f.security
      <4>1. base.waiverauth = "not" /\ Plain(R)
        BY <3>2, <1>3 DEF Careful, Inform, Entry
      <4> QED
        BY <4>1 DEF Plain
    <3> QED
      BY <3>1, <3>2
  <2> HIDE DEF base
  <2> QED
    BY <2>1, One
<1>4. added \in Seq(R)
  <2> HIDE DEF base, Report, ignore
  <2> QED
    BY <1>2, <1>3, None DEF When, Reportable
<1>5. ASSUME added = <<>>, ~f.security
       PROVE  severity = RESULT_INFO
  <2>1. base.severity = RESULT_INFO
    BY <1>5 DEF Inform, Entry
  <2> HIDE DEF added, base
  <2> QED
    BY <1>5, <2>1
<1> HIDE DEF severity, added
<1>6. /\ changedfiles_driver(f).added = added
      /\ changedfiles_driver(f).ok <=> ~f.peer \/ ~fails(severity, reported \/ added # <<>>)
  BY <1>1, VerdictParts
<1> QED
  BY <1>4, <1>5, <1>6 DEF fails, RESULT_INFO, RESULT_VERIFY

\* An object or an archive, by four types of rules.
LEMMA ElfAccounts ==
    ASSUME NEW f, NEW R, Careful(R, f, {"execstack", "relro", "pic", "textrel"}),
           get_secrule_result_severity(f, "pic") # RESULT_NULL
    PROVE  Accounts(elf_driver(f), R) /\ Honest(elf_driver(f))
<1>1. /\ Security(f, "execstack") \in Seq(R) /\ Security(f, "relro") \in Seq(R)
      /\ Security(f, "pic") \in Seq(R) /\ Security(f, "textrel") \in Seq(R)
  BY DEF Careful
<1>2. CASE f.archive
  <2> DEFINE lost == f.peer /\ f.lost_pic
             added == When(lost, Security(f, "pic"))
             silent == get_secrule_result_severity(f, "pic") = RESULT_SKIP
  <2>1. elf_driver(f) = Verdict(~lost \/ silent, added)
    BY <1>2 DEF elf_driver
  <2>2. added \in Seq(R)
    BY <1>1, Whenever
  <2>3. ~lost \/ silent => added = <<>>
    BY DEF When, Security
  <2>4. lost /\ ~silent => added # <<>>
    BY DEF When, Security
  <2> HIDE DEF lost, added, silent
  <2> QED
    BY <2>1, <2>2, <2>3, <2>4, NotesShared, VerdictParts DEF Accounts, Honest
<1>3. CASE ~f.archive
  <2> DEFINE stack == inspect_elf_execstack(f)
             textrel == When(f.textrel /\ ~(f.peer /\ f.before_textrel), Security(f, "textrel"))
             relro == When(f.peer, check_relro(f))
  <2>1. elf_driver(f) = Clean(stack \o textrel \o relro)
    BY <1>3 DEF elf_driver
  <2>2. stack \in Seq(R)
    <3> DEFINE a == When(~f.rel, Security(f, "execstack"))
               b == When("valid" \notin f.stack, Security(f, "execstack"))
               c == When("executable" \in f.stack, Security(f, "execstack"))
    <3>1. a \in Seq(R) /\ b \in Seq(R) /\ c \in Seq(R)
      BY <1>1, Whenever
    <3>2. stack \in {<<>>, a, b \o c}
      BY DEF inspect_elf_execstack
    <3> HIDE DEF a, b, c, stack
    <3>3. b \o c \in Seq(R) /\ <<>> \in Seq(R)
      BY <3>1, None, Joined
    <3> QED
      BY <3>1, <3>2, <3>3, Zenon
  <2>3. textrel \in Seq(R) /\ relro \in Seq(R)
    BY <1>1, Whenever DEF check_relro
  <2> HIDE DEF stack, textrel, relro
  <2>4. stack \o textrel \o relro \in Seq(R)
    BY <2>2, <2>3, Joined
  <2> QED
    BY <2>1, <2>4, CleanAccounts
<1> QED
  BY <1>2, <1>3

\* A file whose setuid or setgid bit the fileinfo list does not expect.
Unexpected(f) ==
    /\ "id" \in f.mode /\ f.listed.mode # "expected"
    /\ get_secrule_result_severity(f, "modes") # RESULT_SKIP

ToSecurity(added) == \E n \in DOMAIN added : added[n].waiverauth = "security"

\* Appending a finding keeps a report to the security team.
LEMMA ReportIsKept ==
    ASSUME NEW R, NEW s \in Seq(R), NEW t \in Seq(R), ToSecurity(s)
    PROVE  ToSecurity(s \o t)
<1>1. PICK n \in DOMAIN s : s[n].waiverauth = "security"
  BY DEF ToSecurity
<1>2. n \in DOMAIN (s \o t) /\ (s \o t)[n] = s[n]
  OBVIOUS
<1> QED
  BY <1>1, <1>2 DEF ToSecurity

\* What the fileinfo list says of a file.
LEMMA MatchAccounts ==
    ASSUME NEW f, NEW R, Inform \in Seq(R), Security(f, "modes") \in Seq(R),
           NEW carries, NEW insecure
    PROVE  Accounts(match_fileinfo(f, carries, insecure), R)
<1> DEFINE found == When(carries = "unexpected" \/ insecure, Security(f, "modes"))
           added == IF carries = "expected" THEN Inform ELSE found
<1>1. added \in Seq(R)
  BY None DEF When
<1>2. /\ match_fileinfo(f, carries, insecure).added = added
      /\ match_fileinfo(f, carries, insecure).ok = (carries = "expected" \/ added = <<>>)
  BY DEF match_fileinfo
<1> HIDE DEF added
<1> QED
  BY <1>1, <1>2 DEF Accounts

\* The fileinfo list is asked whether a rule says otherwise; the permission
\* checks after it only add to what it says.
LEMMA PermissionsAccount ==
    ASSUME NEW f, NEW R, Careful(R, f, {"modes", "worldwritable"}),
           get_secrule_result_severity(f, "modes") # RESULT_NULL
    PROVE  /\ Accounts(check_permissions(f), R)
           /\ Unexpected(f) => ToSecurity(check_permissions(f).added)
<1> DEFINE Low == Bits \ {"id", "vtx"}
           after == f.mode \cap Low
           before == IF f.peer THEN f.before_mode \cap Low ELSE {}
           diff == (before \ after) \cup (after \ before)
           m == match_fileinfo(f, f.listed.mode, "id" \in f.mode)
           id_bit == "id" \notin before /\ "id" \in after
           relaxed == /\ f.kind = "dir"
                      /\ ("vtx" \in diff /\ "vtx" \notin after) \/ after \cap diff # {}
           report == IF id_bit THEN <<Entry(RESULT_VERIFY, "security")>>
                     ELSE IF relaxed THEN Verify ELSE Inform
           speaks == (~f.ignored \/ id_bit) /\ diff # {} /\ f.peer /\ ~m.allowed
           changed == When(speaks, report)
           writable == When(~m.allowed /\ f.kind # "link" /\ "w" \in after,
                            Security(f, "worldwritable"))
<1>1. check_permissions(f)
          = Verdict(m.ok /\ ~Failing(changed) /\ writable = <<>>,
                    m.added \o changed \o writable)
  BY DEF check_permissions
<1>2. /\ R \subseteq EntryType /\ Inform \in Seq(R)
      /\ Security(f, "modes") \in Seq(R) /\ Security(f, "worldwritable") \in Seq(R)
      /\ ~f.ignored => Plain(R)
  BY DEF Careful
<1>3. Accounts(m, R)
  BY <1>2, MatchAccounts
<1>4. m.added \in Seq(R) /\ (~m.ok => m.added # <<>>)
  BY <1>3 DEF Accounts
<1>5. changed \in Seq(R)
  <2>1. ~id_bit
    OBVIOUS
  <2>2. speaks => ~f.ignored
    BY <2>1
  <2>3. report \in {Verify, Inform}
    BY <2>1
  <2>4. speaks => report \in Seq(R)
    <3> HIDE DEF speaks, report
    <3> QED
      BY <1>2, <2>2, <2>3, SharedEntries
  <2> HIDE DEF speaks, report
  <2> QED
    BY <2>4, None DEF When
<1>6. writable \in Seq(R)
  BY <1>2, Whenever
<1>7. Unexpected(f) => ToSecurity(m.added)
  <2> SUFFICES ASSUME Unexpected(f)
               PROVE  ToSecurity(m.added)
    OBVIOUS
  <2>1. m.added = Security(f, "modes")
    BY DEF match_fileinfo, When, Unexpected
  <2>2. Security(f, "modes") = <<Entry(get_secrule_result_severity(f, "modes"), "security")>>
    BY DEF Security, When, Unexpected
  <2> HIDE DEF m
  <2> QED
    BY <2>1, <2>2 DEF ToSecurity, Entry
<1> HIDE DEF m, changed, writable
<1>8. /\ m.added \o changed \in Seq(R)
      /\ m.added \o changed \o writable \in Seq(R)
      /\ m.added \o changed \o writable = <<>>
            => m.added = <<>> /\ changed = <<>> /\ writable = <<>>
  BY <1>4, <1>5, <1>6, Joined
<1>9. Unexpected(f) => ToSecurity(m.added \o changed \o writable)
  BY <1>4, <1>5, <1>6, <1>7, <1>8, ReportIsKept
<1> DEFINE added == m.added \o changed \o writable
           ok == m.ok /\ ~Failing(changed) /\ writable = <<>>
<1>10. ~ok => added # <<>>
  BY <1>2, <1>4, <1>5, <1>8, NotFailing
<1>11. ok \in BOOLEAN /\ added \in Seq(R)
  <2>1. m.ok \in BOOLEAN
    BY DEF m, match_fileinfo
  <2> QED
    BY <2>1, <1>8 DEF Failing
<1> HIDE DEF ok, added
<1>12. check_permissions(f) = Verdict(ok, added)
  BY <1>1 DEF ok, added
<1>13. Unexpected(f) => ToSecurity(added)
  BY <1>9 DEF added
<1>14. Accounts(Verdict(ok, added), R)
  BY <1>10, <1>11, VerdictAccounts
<1>15. check_permissions(f).added = added
  BY <1>11, <1>12, VerdictParts
<1> QED
  BY <1>12, <1>13, <1>14, <1>15, Zenon

\* What the ownership checks add; a file fails for an entry.
LEMMA OwnershipAccounts ==
    ASSUME NEW f, NEW R, Careful(R, f, {"modes", "setuid"}), f.forbidden \in Nat,
           NEW was_reported
    PROVE  Accounts(check_ownership(f, was_reported), R)
<1> DEFINE insecure(added) == "id" \in f.mode /\ ~was_reported /\ added = <<>>
           match(carries, added) == match_fileinfo(f, carries, insecure(added))
           again(carries, added) ==
               match(carries, added).added \o When(~match(carries, added).allowed, Bad)
           b1 == Times(f.forbidden, Bad)
           a1 == When(~f.ignored, b1)
           a2 == a1 \o match(f.listed.owner, a1).added
           a3 == a2 \o match(f.listed.group, a2).added
           b4 == When(f.bin /\ ~f.ignored /\ ~f.bin_owner, again(f.listed.owner, a3))
           a4 == a3 \o b4
           setuid == When("x" \in f.mode, Security(f, "setuid"))
                     \o When("gw" \in f.mode, Security(f, "setuid"))
           c5 == When(~f.ignored, again(f.listed.group, a4))
           b5 == When(f.bin /\ ~f.bin_group, IF f.cap_setuid THEN setuid ELSE c5)
           a5 == a4 \o b5
           to_bin == f.bin /\ \/ f.bin_owner /\ f.changed = {"owner"}
                              \/ f.bin_group /\ f.changed = {"group"}
                              \/ f.changed = {"owner", "group"}
           change == IF to_bin THEN Inform ELSE Verify
           changes == When(~f.ignored /\ f.peer /\ f.changed # {}, change)
           ok == changes = <<>> /\ \A n \in DOMAIN a5 : a5[n].waiverauth = "not"
<1>1. check_ownership(f, was_reported) = Verdict(ok, a5 \o changes)
  BY DEF check_ownership, Times
<1>2. /\ R \subseteq EntryType /\ Inform \in Seq(R)
      /\ Security(f, "modes") \in Seq(R) /\ Security(f, "setuid") \in Seq(R)
      /\ ~f.ignored => Plain(R)
  BY DEF Careful
<1>3. \A carries, added : match(carries, added).added \in Seq(R)
  BY <1>2, MatchAccounts DEF Accounts
<1> HIDE DEF match
<1>4. ASSUME NEW carries, NEW added, ~f.ignored
      PROVE  again(carries, added) \in Seq(R)
  <2>1. When(~match(carries, added).allowed, Bad) \in Seq(R)
    BY <1>2, <1>4, SharedEntries, Whenever
  <2> QED
    BY <1>3, <2>1, Joined
<1> HIDE DEF again
<1>5. a1 \in Seq(R)
  <2>1. ~f.ignored => b1 \in Seq(R)
    BY <1>2, SharedEntries, Repeated
  <2> HIDE DEF b1
  <2> QED
    BY <2>1, None DEF When
<1> HIDE DEF a1
<1>6. a2 \in Seq(R)
  BY <1>3, <1>5, Joined
<1> HIDE DEF a2
<1>7. a3 \in Seq(R)
  BY <1>3, <1>6, Joined
<1> HIDE DEF a3
<1>8. b4 \in Seq(R)
  BY <1>4, None DEF When
<1> HIDE DEF b4
<1>9. a4 \in Seq(R)
  BY <1>7, <1>8, Joined
<1> HIDE DEF a4
<1>10. b5 \in Seq(R)
  <2>1. setuid \in Seq(R)
    BY <1>2, Whenever, Joined
  <2>2. c5 \in Seq(R)
    BY <1>4, None DEF When
  <2> HIDE DEF setuid, c5
  <2> QED
    BY <2>1, <2>2, None DEF When
<1> HIDE DEF b5
<1>11. a5 \in Seq(R)
  BY <1>9, <1>10, Joined
<1> HIDE DEF a5
<1>12. changes \in Seq(R)
  <2>1. ~f.ignored => change \in Seq(R)
    BY <1>2, SharedEntries
  <2> HIDE DEF change
  <2> QED
    BY <2>1, None DEF When
<1> HIDE DEF changes
<1>13. a5 \o changes \in Seq(R) /\ (a5 \o changes = <<>> => a5 = <<>> /\ changes = <<>>)
  BY <1>11, <1>12, Joined
<1>14. ok \in BOOLEAN /\ (a5 \o changes = <<>> => ok)
  BY <1>13
<1> HIDE DEF ok
<1> QED
  BY <1>1, <1>13, <1>14, VerdictAccounts

\* The capabilities inspection repeats the permission and ownership checks,
\* and returns what they add whatever it finds of the capabilities.
LEMMA CapabilitiesAccount ==
    ASSUME NEW f, NEW R, Careful(R, f, {"modes", "worldwritable", "setuid", "caps"}),
           get_secrule_result_severity(f, "modes") # RESULT_NULL, f.forbidden \in Nat
    PROVE  /\ Accounts(capabilities_driver(f), R)
           /\ Unexpected(f) => ToSecurity(capabilities_driver(f).added)
<1> DEFINE p == check_permissions(f)
           o == check_ownership(f, reported \/ p.added # <<>>)
           before == IF f.peer THEN f.before_caps ELSE "none"
           compared == When("none" \notin {before, f.caps},
                            IF before = f.caps THEN Inform ELSE Security(f, "caps"))
           unlisted == {f.caps, f.caps_list} = {"none"}
           against_list == When(before = "none" /\ ~unlisted,
                                IF f.caps = f.caps_list THEN Inform
                                ELSE Security(f, "caps"))
           ok == unlisted \/ (p.ok /\ o.ok /\ ~Failing(compared \o against_list))
           added == p.added \o o.added \o compared \o against_list
<1>1. capabilities_driver(f) = Verdict(ok, added)
  BY DEF capabilities_driver
<1>2. /\ R \subseteq EntryType /\ Inform \in Seq(R) /\ Security(f, "caps") \in Seq(R)
      /\ Careful(R, f, {"modes", "worldwritable"}) /\ Careful(R, f, {"modes", "setuid"})
  BY DEF Careful
<1>3. /\ Accounts(p, R) /\ (Unexpected(f) => ToSecurity(p.added))
      /\ Accounts(o, R)
  BY <1>2, PermissionsAccount, OwnershipAccounts
<1>4. compared \in Seq(R) /\ against_list \in Seq(R)
  BY <1>2, None DEF When
<1> HIDE DEF p, o, compared, against_list, unlisted
<1>5. /\ p.added \in Seq(R) /\ (~p.ok => p.added # <<>>)
      /\ o.added \in Seq(R) /\ (~o.ok => o.added # <<>>)
  BY <1>3 DEF Accounts
<1>6. /\ p.added \o o.added \in Seq(R)
      /\ p.added \o o.added = <<>> => p.added = <<>> /\ o.added = <<>>
      /\ p.added \o o.added \o compared \in Seq(R)
      /\ p.added \o o.added \o compared = <<>> => p.added \o o.added = <<>> /\ compared = <<>>
      /\ added \in Seq(R)
      /\ added = <<>> => p.added \o o.added \o compared = <<>> /\ against_list = <<>>
      /\ compared \o against_list \in Seq(R)
      /\ compared = <<>> /\ against_list = <<>> => compared \o against_list = <<>>
  BY <1>4, <1>5, Joined
<1>7. Unexpected(f) => ToSecurity(added)
  <2> SUFFICES ASSUME Unexpected(f)
               PROVE  ToSecurity(added)
    OBVIOUS
  <2>1. ToSecurity(p.added \o o.added)
    BY <1>3, <1>5, ReportIsKept
  <2>2. ToSecurity(p.added \o o.added \o compared)
    BY <2>1, <1>4, <1>6, ReportIsKept
  <2> QED
    BY <2>2, <1>4, <1>6, ReportIsKept
<1>8. Failing(compared \o against_list) => compared \o against_list # <<>>
  BY <1>2, <1>6, NotFailing
<1>9. added = <<>> => ok
  <2> HIDE DEF added
  <2> QED
    BY <1>5, <1>6, <1>8
<1>10. ok \in BOOLEAN
  OBVIOUS
<1> HIDE DEF ok, added
<1>11. Accounts(Verdict(ok, added), R)
  BY <1>6, <1>9, <1>10, VerdictAccounts
<1>12. capabilities_driver(f).added = added
  BY <1>1, <1>10, VerdictParts
<1> QED
  BY <1>1, <1>7, <1>11, <1>12, Zenon

\* A finding in one file makes all that follow fail.
LEMMA UnicodeAccounts ==
    ASSUME NEW f, NEW R, Careful(R, f, {"unicode"}), Final \in Seq(R),
           NEW S, results \in Seq(S)
    PROVE  LET v == unicode_driver(f) IN
           /\ v.added \in Seq(R)
           /\ ~v.ok => \/ v.added # <<>>
                       \/ \E n \in DOMAIN results : results[n].waiverauth = "security"
           /\ v.ok => ~ToSecurity(v.added) /\ v.added \in Seq(Notes)
<1> DEFINE severity == get_secrule_result_severity(f, "unicode")
           finding == IF severity = RESULT_INFO THEN Inform ELSE Security(f, "unicode")
           tree == When(f.spec /\ f.in_tree, finding)
           file == When(f.in_file /\ ~f.ignored, finding)
           added == IF f.spec /\ ~f.prepared THEN Final ELSE tree \o file
           all == results \o added
           ok == /\ \A n \in DOMAIN all : all[n].waiverauth # "security"
                 /\ f.spec => f.prepared
<1>1. unicode_driver(f) = Verdict(ok, added)
  BY DEF unicode_driver
<1>2. finding \in Seq(R) /\ R \subseteq EntryType
  BY DEF Careful
<1>3. finding \in Seq(Notes) \/ \E e : finding = <<e>> /\ e.waiverauth = "security"
  <2>1. CASE severity = RESULT_INFO
    BY <2>1, NotesShared
  <2>2. CASE severity # RESULT_INFO
    <3>1. CASE severity \in {RESULT_NULL, RESULT_SKIP}
      BY <2>2, <3>1, NotesShared DEF Security, When
    <3>2. CASE severity \notin {RESULT_NULL, RESULT_SKIP}
      <4>1. finding = <<Entry(severity, "security")>>
        BY <2>2, <3>2 DEF Security, When
      <4>2. Entry(severity, "security").waiverauth = "security"
        BY DEF Entry
      <4> QED
        BY <4>1, <4>2, Zenon
    <3> QED
      BY <3>1, <3>2
  <2> QED
    BY <2>1, <2>2
<1> HIDE DEF finding
<1>4. /\ tree \in Seq(R) /\ file \in Seq(R) /\ tree \o file \in Seq(R)
      /\ tree \in {<<>>, finding} /\ file \in {<<>>, finding}
  <2>1. tree \in Seq(R) /\ file \in Seq(R)
    BY <1>2, Whenever
  <2>2. tree \in {<<>>, finding} /\ file \in {<<>>, finding}
    BY DEF When
  <2> HIDE DEF tree, file
  <2> QED
    BY <2>1, <2>2, Joined
<1> HIDE DEF tree, file
<1>5. added \in Seq(R)
  BY <1>4
<1>6. /\ DOMAIN all = 1 .. Len(results) + Len(added)
      /\ \A n \in 1 .. Len(results) : all[n] = results[n]
      /\ \A n \in 1 .. Len(added) : all[Len(results) + n] = added[n]
      /\ Len(results) \in Nat /\ Len(added) \in Nat
      /\ DOMAIN results = 1 .. Len(results) /\ DOMAIN added = 1 .. Len(added)
  <2> HIDE DEF added
  <2> QED
    BY <1>5
<1>7. ASSUME added = <<>>, ~ok
      PROVE  \E n \in DOMAIN results : results[n].waiverauth = "security"
  <2>1. ~(f.spec /\ ~f.prepared)
    BY <1>7 DEF Final
  <2>2. PICK n \in DOMAIN all : all[n].waiverauth = "security"
    BY <1>7, <2>1
  <2>3. Len(added) = 0
    BY <1>7
  <2> HIDE DEF added, all
  <2>4. n \in DOMAIN results /\ all[n] = results[n]
    BY <1>6, <2>2, <2>3
  <2> QED
    BY <2>2, <2>4
<1>8. ASSUME ok
      PROVE  /\ \A n \in DOMAIN added : added[n].waiverauth # "security"
             /\ added \in Seq(Notes)
  <2>1. \A n \in DOMAIN added : added[n].waiverauth # "security"
    <3> HIDE DEF added
    <3>2. \A n \in 1 .. Len(added) : Len(results) + n \in DOMAIN all
      BY <1>6
    <3> QED
      BY <1>6, <1>8, <3>2
  <2>2. added = tree \o file
    BY <1>8
  <2> HIDE DEF added
  <2>3. /\ tree = finding /\ file = <<>> => added = finding
        /\ tree = <<>> => added = file
        /\ tree = finding /\ file = finding => added = finding \o finding
    <3>1. \A s \in Seq(R) : s \o <<>> = s /\ <<>> \o s = s
      OBVIOUS
    <3> QED
      BY <2>2, <3>1, <1>4, <1>2
  <2>4. finding \in Seq(Notes) => finding \o finding \in Seq(Notes)
    BY Joined
  <2>5. CASE finding \in Seq(Notes)
    BY <2>1, <2>3, <2>4, <2>5, <1>4, NotesShared
  <2>6. CASE finding \notin Seq(Notes)
    <3>1. PICK e : finding = <<e>> /\ e.waiverauth = "security"
      BY <2>6, <1>3
    <3>2. added # finding /\ added # finding \o finding
      BY <2>1, <3>1
    <3>3. added = <<>>
      BY <2>3, <3>2, <1>4
    <3> QED
      BY <2>1, <3>3, NotesShared
  <2> QED
    BY <2>5, <2>6
<1>9. ok \in BOOLEAN
  OBVIOUS
<1> HIDE DEF ok, added
<1>10. unicode_driver(f).added = added /\ (unicode_driver(f).ok <=> ok)
  BY <1>1, <1>9, VerdictParts
<1> QED
  BY <1>5, <1>7, <1>8, <1>10 DEF ToSecurity

-----------------------------------------------------------------------------

(***************************************************************************)
(* All drivers.                                                            *)
(***************************************************************************)

Result == [at : Nat, severity : RESULT_NULL .. RESULT_BAD, waiverauth : Authorities]

\* The inspections that say OK by the return values alone, symlinks apart.
ByResult ==
    {"abidiff", "badfuncs", "debuginfo", "desktop", "dsodeps", "elf", "javabytecode",
     "kmidiff", "lto", "manpage", "metadata", "modularity", "movedfiles",
     "pathmigration", "politics", "runpath", "shellsyntax", "subpackages",
     "udevrules", "unicode", "xml"}
Truthful == ByResult \cup {"changelog"}

\* The inspections that see setuid and setgid bits, and those that are
\* lenient in a rebase.
Privileged == {"permissions", "capabilities"}
Comparing == {"addedfiles", "removedfiles", "config", "doc", "subpackages",
              "lostpayload", "upstream"}

\* The rules of a file let its inspection say nothing to the security team;
\* the configuration lets it say nothing to anyone else.
Silenced(f) ==
    /\ insp \notin {"changedfiles", "annocheck"}
    /\ \A t \in rules_asked[insp] : get_secrule_result_severity(f, t) = RESULT_SKIP
Hushed(f) == f.ignored /\ insp \notin of_packages

\* What may be said of a file.
Fit(f) ==
    {e \in EntryType :
        /\ insp # "annocheck" => e.severity \in Reportable
        /\ Silenced(f) => e.waiverauth # "security"
        /\ Hushed(f) /\ e.severity >= RESULT_VERIFY => ForSecurity(e)}

\* The severity of a rule is one that can be reported, or skip.
LEMMA RuleSeverity ==
    ASSUME NEW i \in DOMAIN Items, NEW f \in Items[i], NEW type
    PROVE  get_secrule_result_severity(f, type) \in Reportable \cup {RESULT_SKIP}
BY ItemsAssumption DEF get_secrule_result_severity, Reportable

\* What can be reported are entries, and neither OK nor skipped.
LEMMA ReportableEntries ==
    ASSUME NEW v \in Reportable, NEW w \in Authorities
    PROVE  /\ Entry(v, w) \in EntryType
           /\ Entry(v, w).severity = v /\ Entry(v, w).waiverauth = w
           /\ v # RESULT_OK /\ v # RESULT_NULL /\ v # RESULT_SKIP
BY DEF Entry, EntryType, Reportable, RESULT_NULL, RESULT_SKIP, RESULT_OK, RESULT_INFO,
       RESULT_VERIFY, RESULT_BAD

\* Of a file that is not to be ignored anything may be said but to the
\* security team.
LEMMA FitIsPlain ==
    ASSUME NEW f, ~Hushed(f)
    PROVE  Plain(Fit(f))
<1>1. Fit(f) \subseteq EntryType
  BY DEF Fit
<1>2. ASSUME NEW v \in Reportable, NEW w \in {"none", "not", "anyone"}
      PROVE  Entry(v, w) \in Fit(f)
  <2>1. w \in Authorities /\ w # "security"
    BY DEF Authorities
  <2> QED
    BY <2>1, ReportableEntries DEF Fit
<1> QED
  BY <1>1, <1>2 DEF Plain

\* Of any file, a note may be said and what its rules ask for.
LEMMA FitIsCareful ==
    ASSUME insp \in DOMAIN Items, NEW f \in Items[insp], insp \notin {"changedfiles", "annocheck"}
    PROVE  /\ Careful(Fit(f), f, rules_asked[insp])
           /\ insp = "unicode" => Final \in Seq(Fit(f))
<1>1. Fit(f) \subseteq EntryType
  BY DEF Fit
<1>2. /\ Entry(RESULT_INFO, "not") \in Fit(f)
      /\ insp = "unicode" => Entry(RESULT_BAD, "not") \in Fit(f)
  <2>1. RESULT_INFO \in Reportable /\ RESULT_BAD \in Reportable /\ "not" \in Authorities
    BY DEF Reportable, Authorities
  <2>2. "not" # "security" /\ ~(RESULT_INFO >= RESULT_VERIFY)
    BY DEF RESULT_INFO, RESULT_VERIFY
  <2> QED
    BY <2>1, <2>2, ReportableEntries DEF Fit, ForSecurity
<1>3. /\ Inform \in Seq(Fit(f))
      /\ insp = "unicode" => Final \in Seq(Fit(f))
  BY <1>2, One DEF Inform, Final
<1>4. ~f.ignored => Plain(Fit(f))
  BY FitIsPlain DEF Hushed
<1>5. ASSUME NEW type \in rules_asked[insp]
      PROVE  Security(f, type) \in Seq(Fit(f))
  <2> DEFINE severity == get_secrule_result_severity(f, type)
  <2>1. CASE severity \in {RESULT_NULL, RESULT_SKIP}
    BY <2>1, None DEF Security, When
  <2>2. CASE severity \notin {RESULT_NULL, RESULT_SKIP}
    <3>1. severity \in Reportable /\ ~Silenced(f)
      BY <2>2, RuleSeverity DEF Silenced
    <3>2. "security" \in Authorities
      BY DEF Authorities
    <3>3. Entry(severity, "security") \in Fit(f)
      BY <3>1, <3>2, ReportableEntries DEF Fit, ForSecurity
    <3>4. Security(f, type) = <<Entry(severity, "security")>>
      BY <2>2 DEF Security, When
    <3> HIDE DEF severity
    <3> QED
      BY <3>3, <3>4, One
  <2> QED
    BY <2>1, <2>2
<1> QED
  BY <1>1, <1>3, <1>4, <1>5 DEF Careful

\* changedfiles and annocheck do not ask whether a rule says skip.
LEMMA FitIsUnasked ==
    ASSUME NEW f, insp \in {"changedfiles", "annocheck"}
    PROVE  /\ Careful(Fit(f), f, {})
           /\ \A v \in Reportable : Entry(v, "security") \in Fit(f)
           /\ insp = "annocheck" =>
                 /\ Inform[1] \in Fit(f)
                 /\ \A v \in RESULT_NULL .. RESULT_BAD :
                       /\ Entry(v, "security") \in Fit(f)
                       /\ ~f.ignored => Entry(v, "anyone") \in Fit(f)
<1>1. Fit(f) \subseteq EntryType /\ ~Silenced(f) /\ (~f.ignored => ~Hushed(f))
  BY DEF Fit, Silenced, Hushed
<1>2. ASSUME NEW v \in Reportable
      PROVE  Entry(v, "security") \in Fit(f)
  <2>1. "security" \in Authorities
    BY DEF Authorities
  <2> QED
    BY <1>1, <2>1, ReportableEntries DEF Fit, ForSecurity
<1>3. Inform = <<Entry(RESULT_INFO, "not")>> /\ Entry(RESULT_INFO, "not") \in Fit(f)
  <2>1. RESULT_INFO \in Reportable /\ ~(RESULT_INFO >= RESULT_VERIFY) /\ "not" \in Authorities
    BY DEF Reportable, RESULT_INFO, RESULT_VERIFY, Authorities
  <2> QED
    BY <1>1, <2>1, ReportableEntries DEF Fit, Inform
<1>4. Inform \in Seq(Fit(f)) /\ Inform[1] \in Fit(f)
  BY <1>3, One
<1>5. ~f.ignored => Plain(Fit(f))
  BY <1>1, FitIsPlain
<1>6. ASSUME insp = "annocheck", NEW v \in RESULT_NULL .. RESULT_BAD
      PROVE  /\ Entry(v, "security") \in Fit(f)
             /\ ~f.ignored => Entry(v, "anyone") \in Fit(f)
  <2>1. \A w \in Authorities : Entry(v, w) \in EntryType /\ Entry(v, w).waiverauth = w
    BY DEF Entry, EntryType
  <2>2. {"security", "anyone"} \subseteq Authorities
    BY DEF Authorities
  <2> QED
    BY <1>1, <1>6, <2>1, <2>2 DEF Fit, ForSecurity, Hushed
<1> QED
  BY <1>1, <1>2, <1>4, <1>5, <1>6 DEF Careful

\* What a driver returns is an account: what it adds fits the file, in an
\* inspection that goes by return values only failures are above INFO, and
\* there is a reason for a failure.
Says(f, v) ==
    /\ v.added \in Seq(Fit(f))
    /\ insp \in Truthful => Honest(v)
    /\ insp = "annocheck" /\ ~v.ok => Failing(v.added)
    /\ insp = "unicode" /\ v.ok => ~ToSecurity(v.added)
    /\ ~v.ok => \/ v.added # <<>>
                \/ insp = "unicode" /\ ToSecurity(results)
                \/ insp = "changedfiles" /\ f.security /\ reported
                \/ insp = "javabytecode" /\ ~jar_result
                \/ insp = "patches" /\ unhandled
                \/ FailsSilently(f)

\* What accounts for a file, if it is honest where it has to be, says why.
LEMMA AccountSays ==
    ASSUME NEW f, NEW v, Accounts(v, Fit(f)), insp # "annocheck",
           insp # "unicode", insp \in Truthful => Honest(v)
    PROVE  Says(f, v)
BY DEF Accounts, Says

\* A file that the loop passes on is not ignored, or its path is not looked at.
LEMMA OthersArePlain ==
    ASSUME NEW f, ~skipped(f), insp \notin security_checks, insp # "unicode"
    PROVE  Plain(Fit(f))
<1>1. ~Hushed(f)
  BY DEF Hushed, skipped, of_packages, security_checks
<1> QED
  BY <1>1, FitIsPlain

\* The drivers of the inspections with security checks.
LEMMA CarefulDriversSay ==
    ASSUME insp \in DOMAIN Items, settings \in Settings[insp], results \in Seq(Result),
           NEW f \in Items[insp],
           insp \in security_checks \cup {"unicode"}
    PROVE  /\ Says(f, driver(f))
           /\ insp \in Privileged /\ Unexpected(f) => ToSecurity(driver(f).added)
           /\ /\ insp \in Comparing /\ rebase
              /\ insp = "removedfiles" => ~f.sentry
              => driver(f).added \in Seq(Notes)
<1> USE DEF Privileged, Comparing, Truthful, ByResult
<1>0. \A type : get_secrule_result_severity(f, type) # RESULT_NULL
  <2> TAKE type
  <2>1. get_secrule_result_severity(f, type) \in Reportable \cup {RESULT_SKIP}
    BY RuleSeverity
  <2> QED
    BY <2>1 DEF Reportable, RESULT_NULL, RESULT_SKIP, RESULT_INFO, RESULT_VERIFY, RESULT_BAD
<1>1. CASE insp = "permissions"
  <2>1. driver(f) = check_permissions(f)
    BY <1>1 DEF driver
  <2>2. Careful(Fit(f), f, {"modes", "worldwritable"})
    <3>1. rules_asked[insp] = {"modes", "worldwritable"}
      BY <1>1 DEF rules_asked
    <3> QED
      BY <1>1, <3>1, FitIsCareful
  <2>3. /\ Accounts(check_permissions(f), Fit(f))
        /\ Unexpected(f) => ToSecurity(check_permissions(f).added)
    BY <1>0, <2>2, PermissionsAccount
  <2> QED
    BY <1>1, <2>1, <2>3, AccountSays
<1>2. CASE insp = "ownership"
  <2>1. driver(f) = check_ownership(f, reported)
    BY <1>2 DEF driver
  <2>2. Careful(Fit(f), f, {"modes", "setuid"})
    <3>1. rules_asked[insp] = {"modes", "setuid"}
      BY <1>2 DEF rules_asked
    <3> QED
      BY <1>2, <3>1, FitIsCareful
  <2>3. f.forbidden \in Nat
    BY <1>2, ItemsAssumption
  <2>4. Accounts(check_ownership(f, reported), Fit(f))
    BY <2>2, <2>3, OwnershipAccounts
  <2> QED
    BY <1>2, <2>1, <2>4, AccountSays
<1>3. CASE insp = "capabilities"
  <2>1. driver(f) = capabilities_driver(f)
    BY <1>3 DEF driver
  <2>2. Careful(Fit(f), f, {"modes", "worldwritable", "setuid", "caps"})
    <3>1. rules_asked[insp] = {"modes", "worldwritable", "setuid", "caps"}
      BY <1>3 DEF rules_asked
    <3> QED
      BY <1>3, <3>1, FitIsCareful
  <2>3. f.forbidden \in Nat
    BY <1>3, ItemsAssumption
  <2>4. /\ Accounts(capabilities_driver(f), Fit(f))
        /\ Unexpected(f) => ToSecurity(capabilities_driver(f).added)
    BY <1>0, <2>2, <2>3, CapabilitiesAccount
  <2> QED
    BY <1>3, <2>1, <2>4, AccountSays
<1>4. CASE insp = "addedfiles"
  <2>1. driver(f) = addedfiles_driver(f)
    BY <1>4 DEF driver
  <2>2. Careful(Fit(f), f, {"securitypath"})
    <3>1. rules_asked[insp] = {"securitypath"}
      BY <1>4 DEF rules_asked
    <3> QED
      BY <1>4, <3>1, FitIsCareful
  <2>3. /\ Accounts(addedfiles_driver(f), Fit(f))
        /\ rebase => addedfiles_driver(f).added \in Seq(Notes)
    BY <2>2, AddedfilesAccount
  <2> QED
    BY <1>4, <2>1, <2>3, AccountSays
<1>5. CASE insp = "removedfiles"
  <2>1. driver(f) = removedfiles_driver(f)
    BY <1>5 DEF driver
  <2>2. Careful(Fit(f), f, {"securitypath"})
    <3>1. rules_asked[insp] = {"securitypath"}
      BY <1>5 DEF rules_asked
    <3> QED
      BY <1>5, <3>1, FitIsCareful
  <2>3. /\ Accounts(removedfiles_driver(f), Fit(f))
        /\ rebase /\ ~f.sentry => removedfiles_driver(f).added \in Seq(Notes)
    BY <2>2, RemovedfilesAccount
  <2> QED
    BY <1>5, <2>1, <2>3, AccountSays
<1>6. CASE insp = "elf"
  <2>1. driver(f) = elf_driver(f)
    BY <1>6 DEF driver
  <2>2. Careful(Fit(f), f, {"execstack", "relro", "pic", "textrel"})
    <3>1. rules_asked[insp] = {"execstack", "relro", "pic", "textrel"}
      BY <1>6 DEF rules_asked
    <3> QED
      BY <1>6, <3>1, FitIsCareful
  <2>3. Accounts(elf_driver(f), Fit(f)) /\ Honest(elf_driver(f))
    BY <1>0, <2>2, ElfAccounts
  <2> QED
    BY <1>6, <2>1, <2>3, AccountSays
<1>7. CASE insp = "unicode"
  <2>1. driver(f) = unicode_driver(f)
    BY <1>7 DEF driver
  <2>2. Careful(Fit(f), f, {"unicode"})
    <3>1. rules_asked[insp] = {"unicode"}
      BY <1>7 DEF rules_asked
    <3> QED
      BY <1>7, <3>1, FitIsCareful
  <2>3. Final \in Seq(Fit(f))
    BY <1>7, FitIsCareful
  <2> DEFINE v == unicode_driver(f)
  <2>4. /\ v.added \in Seq(Fit(f))
        /\ ~v.ok => v.added # <<>> \/ ToSecurity(results)
        /\ v.ok => ~ToSecurity(v.added) /\ v.added \in Seq(Notes)
    BY <2>2, <2>3, UnicodeAccounts DEF ToSecurity
  <2> HIDE DEF v
  <2> QED
    BY <1>7, <2>1, <2>4 DEF v, Says, Honest
<1>8. CASE insp = "changedfiles"
  <2>1. driver(f) = changedfiles_driver(f)
    BY <1>8 DEF driver
  <2> DEFINE v == changedfiles_driver(f)
  <2>2. v.added \in Seq(Fit(f)) /\ (~v.ok => (f.security /\ reported) \/ v.added # <<>>)
    BY <1>8, FitIsUnasked, ChangedfilesAccount
  <2> HIDE DEF v
  <2> QED
    BY <1>8, <2>1, <2>2 DEF v, Says
<1>9. CASE insp = "annocheck"
  <2>1. driver(f) = annocheck_driver(f, settings.failure_severity)
    BY <1>9 DEF driver
  <2> DEFINE v == annocheck_driver(f, settings.failure_severity)
             failing == settings.failure_severity
             fortify == get_secrule_result_severity(f, "fortifysource")
  <2>2. failing \in RESULT_NULL .. RESULT_BAD
    BY InspectionsAssumption
  <2>3. fortify \in Reportable \cup {RESULT_SKIP}
    BY RuleSeverity
  <2>4. fortify \in RESULT_NULL .. RESULT_BAD
    BY <2>3 DEF Reportable, RESULT_NULL, RESULT_SKIP, RESULT_INFO, RESULT_VERIFY, RESULT_BAD
  <2>5. f.tests \in Seq([fails : BOOLEAN, fortify : BOOLEAN])
    BY <1>9, ItemsAssumption
  <2>6. /\ Fit(f) \subseteq EntryType /\ Inform[1] \in Fit(f)
        /\ ~f.ignored => Entry(failing, "anyone") \in Fit(f)
        /\ Entry(fortify, "security") \in Fit(f)
    BY <1>9, <2>2, <2>4, FitIsUnasked DEF Careful
  <2>7. v.added \in Seq(Fit(f)) /\ (~v.ok => Failing(v.added))
    BY <2>2, <2>5, <2>6, AnnocheckAccounts
  <2>8. Failing(v.added) => v.added # <<>>
    BY DEF Failing
  <2> HIDE DEF v
  <2> QED
    BY <1>9, <2>1, <2>7, <2>8 DEF v, Says
<1> QED
  BY <1>1, <1>2, <1>3, <1>4, <1>5, <1>6, <1>7, <1>8, <1>9 DEF security_checks

\* Of the other drivers, those that a rebase makes lenient,
LEMMA ComparingDriversSay ==
    ASSUME insp \in DOMAIN Items, NEW f \in Items[insp], Plain(Fit(f)),
           insp \in {"config", "doc", "subpackages", "lostpayload", "upstream"}
    PROVE  /\ Says(f, driver(f))
           /\ rebase => driver(f).added \in Seq(Notes)
<1> USE DEF Truthful, ByResult
<1>1. CASE insp = "config"
  <2>1. driver(f) = config_driver(f)
    BY <1>1 DEF driver
  <2>2. /\ Accounts(config_driver(f), Fit(f))
        /\ rebase => config_driver(f).added \in Seq(Notes)
    BY MarkedAccount
  <2> QED
    BY <1>1, <2>1, <2>2, AccountSays
<1>2. CASE insp = "doc"
  <2>1. driver(f) = doc_driver(f)
    BY <1>2 DEF driver
  <2>2. /\ Accounts(doc_driver(f), Fit(f))
        /\ rebase => doc_driver(f).added \in Seq(Notes)
    BY MarkedAccount
  <2> QED
    BY <1>2, <2>1, <2>2, AccountSays
<1>3. CASE insp = "subpackages"
  <2>1. driver(f) = subpackages_item(f)
    BY <1>3 DEF driver
  <2>2. /\ Accounts(subpackages_item(f), Fit(f))
        /\ Honest(subpackages_item(f))
        /\ rebase => subpackages_item(f).added \in Seq(Notes)
    BY PackagesAccount
  <2> QED
    BY <1>3, <2>1, <2>2, AccountSays
<1>4. CASE insp = "lostpayload"
  <2>1. driver(f) = lostpayload_item(f)
    BY <1>4 DEF driver
  <2>2. /\ Accounts(lostpayload_item(f), Fit(f))
        /\ rebase => lostpayload_item(f).added \in Seq(Notes)
    BY PackagesAccount
  <2> QED
    BY <1>4, <2>1, <2>2, AccountSays
<1>5. CASE insp = "upstream"
  <2>1. driver(f) = upstream_driver(f, rebase \/ settings.rebaseable)
    BY <1>5 DEF driver
  <2>2. /\ Accounts(upstream_driver(f, rebase \/ settings.rebaseable), Fit(f))
        /\ rebase => upstream_driver(f, rebase \/ settings.rebaseable).added \in Seq(Notes)
    BY UpstreamAccounts
  <2> QED
    BY <1>5, <2>1, <2>2, AccountSays
<1> QED
  BY <1>1, <1>2, <1>3, <1>4, <1>5

\* those of packages, spec files and headers,
LEMMA PackageDriversSay ==
    ASSUME insp \in DOMAIN Items, NEW f \in Items[insp], Plain(Fit(f)),
           insp \in {"emptyrpm", "files", "disttag", "specname", "patches",
                    "metadata", "changelog", "modularity", "license"}
    PROVE  Says(f, driver(f))
<1> USE DEF Truthful, ByResult
<1>1. CASE insp = "emptyrpm"
  <2>1. driver(f) = emptyrpm_item(f)
    BY <1>1 DEF driver
  <2>2. Accounts(emptyrpm_item(f), Fit(f))
    BY PackagesAccount
  <2> QED
    BY <1>1, <2>1, <2>2, AccountSays
<1>2. CASE insp = "files"
  <2>1. driver(f) = files_driver(f)
    BY <1>2 DEF driver
  <2>2. f.lines \in Seq(STRING)
    BY <1>2, ItemsAssumption
  <2>3. Accounts(files_driver(f), Fit(f))
    BY <2>2, SourcesAccount
  <2> QED
    BY <1>2, <2>1, <2>3, AccountSays
<1>3. CASE insp = "disttag"
  <2>1. driver(f) = disttag_driver(f)
    BY <1>3 DEF driver
  <2>2. Accounts(disttag_driver(f), Fit(f))
    BY SourcesAccount
  <2> QED
    BY <1>3, <2>1, <2>2, AccountSays
<1>4. CASE insp = "specname"
  <2>1. driver(f) = specname_driver(f, specgood)
    BY <1>4 DEF driver
  <2>2. Accounts(specname_driver(f, specgood), Fit(f))
    BY SourcesAccount
  <2> QED
    BY <1>4, <2>1, <2>2, AccountSays
<1>5. CASE insp = "patches"
  <2>1. driver(f) = patches_driver(f, unhandled)
    BY <1>5 DEF driver
  <2>2. f.kind \in {"unhandled", "removed", "patch"}
    BY <1>5, ItemsAssumption
  <2> DEFINE v == patches_driver(f, unhandled)
  <2>3. v.added \in Seq(Fit(f)) /\ (~v.ok => v.added # <<>> \/ unhandled)
    BY <2>2, PatchesAccount
  <2> HIDE DEF v
  <2> QED
    BY <1>5, <2>1, <2>3 DEF v, Says
<1>6. CASE insp = "metadata"
  <2>1. driver(f) = metadata_item(f, rebase)
    BY <1>6 DEF driver
  <2>2. IsFiniteSet(f.words) /\ IsFiniteSet(f.changed)
    BY <1>6, ItemsAssumption
  <2>3. Accounts(metadata_item(f, rebase), Fit(f)) /\ Honest(metadata_item(f, rebase))
    BY <2>2, MetadataAccounts
  <2> QED
    BY <1>6, <2>1, <2>3, AccountSays
<1>7. CASE insp = "changelog"
  <2>1. driver(f) = changelog_item(f)
    BY <1>7 DEF driver
  <2>2. f.bad_words \in Nat /\ f.forbidden \in Nat
    BY <1>7, ItemsAssumption
  <2>3. Accounts(changelog_item(f), Fit(f)) /\ Honest(changelog_item(f))
    BY <2>2, ChangelogAccounts
  <2> QED
    BY <1>7, <2>1, <2>3, AccountSays
<1>8. CASE insp = "modularity"
  <2>1. driver(f) = modularity_item(f)
    BY <1>8 DEF driver
  <2>2. Accounts(modularity_item(f), Fit(f)) /\ Honest(modularity_item(f))
    BY ModularityAccounts
  <2> QED
    BY <1>8, <2>1, <2>2, AccountSays
<1>9. CASE insp = "license"
  <2>1. driver(f) = license_item(f)
    BY <1>9 DEF driver
  <2>2. f.unapproved \in Nat /\ f.booleans \in Nat
    BY <1>9, ItemsAssumption
  <2>3. Accounts(license_item(f), Fit(f))
    BY <2>2, LicenseAccounts
  <2> QED
    BY <1>9, <2>1, <2>3, AccountSays
<1> QED
  BY <1>1, <1>2, <1>3, <1>4, <1>5, <1>6, <1>7, <1>8, <1>9

\* those of files and links,
LEMMA FileDriversSay ==
    ASSUME insp \in DOMAIN Items, NEW f \in Items[insp], Plain(Fit(f)),
           insp \in {"movedfiles", "types", "filesize", "pathmigration",
                    "symlinks", "manpage", "politics", "udevrules", "xml",
                    "javabytecode", "shellsyntax", "desktop"}
    PROVE  Says(f, driver(f))
<1> USE DEF Truthful, ByResult
<1>1. CASE insp = "movedfiles"
  <2>1. driver(f) = movedfiles_driver(f, rebase)
    BY <1>1 DEF driver
  <2>2. /\ Accounts(movedfiles_driver(f, rebase), Fit(f))
        /\ Honest(movedfiles_driver(f, rebase))
    BY SingleFindings
  <2> QED
    BY <1>1, <2>1, <2>2, AccountSays
<1>2. CASE insp = "types"
  <2>1. driver(f) = types_driver(f)
    BY <1>2 DEF driver
  <2>2. Accounts(types_driver(f), Fit(f))
    BY FilesAccount
  <2> QED
    BY <1>2, <2>1, <2>2, AccountSays
<1>3. CASE insp = "filesize"
  <2>1. driver(f) = filesize_driver(f)
    BY <1>3 DEF driver
  <2>2. Accounts(filesize_driver(f), Fit(f))
    BY FilesAccount
  <2> QED
    BY <1>3, <2>1, <2>2, AccountSays
<1>4. CASE insp = "pathmigration"
  <2>1. driver(f) = pathmigration_driver(f)
    BY <1>4 DEF driver
  <2>2. Accounts(pathmigration_driver(f), Fit(f)) /\ Honest(pathmigration_driver(f))
    BY FilesAccount
  <2> QED
    BY <1>4, <2>1, <2>2, AccountSays
<1>5. CASE insp = "symlinks"
  <2>1. driver(f) = symlinks_driver(f)
    BY <1>5 DEF driver
  <2>2. f.target \in {"unreadable", "unresolvable", "reachable", "dangling", "loop"}
    BY <1>5, ItemsAssumption
  <2>3. Accounts(symlinks_driver(f), Fit(f))
    BY <2>2, SymlinksAccount
  <2> QED
    BY <1>5, <2>1, <2>3, AccountSays
<1>6. CASE insp = "manpage"
  <2>1. driver(f) = manpage_driver(f)
    BY <1>6 DEF driver
  <2>2. IsFiniteSet(f.errors)
    BY <1>6, ItemsAssumption
  <2>3. Accounts(manpage_driver(f), Fit(f)) /\ Honest(manpage_driver(f))
    BY <2>2, SingleFindings
  <2> QED
    BY <1>6, <2>1, <2>3, AccountSays
<1>7. CASE insp = "politics"
  <2>1. driver(f) = politics_driver(f)
    BY <1>7 DEF driver
  <2>2. Accounts(politics_driver(f), Fit(f)) /\ Honest(politics_driver(f))
    BY TextsAccount
  <2> QED
    BY <1>7, <2>1, <2>2, AccountSays
<1>8. CASE insp = "udevrules"
  <2>1. driver(f) = udevrules_driver(f)
    BY <1>8 DEF driver
  <2>2. Accounts(udevrules_driver(f), Fit(f)) /\ Honest(udevrules_driver(f))
    BY TextsAccount
  <2> QED
    BY <1>8, <2>1, <2>2, AccountSays
<1>9. CASE insp = "xml"
  <2>1. driver(f) = xml_driver(f)
    BY <1>9 DEF driver
  <2>2. Accounts(xml_driver(f), Fit(f)) /\ Honest(xml_driver(f))
    BY TextsAccount
  <2> QED
    BY <1>9, <2>1, <2>2, AccountSays
<1>10. CASE insp = "javabytecode"
  <2>1. driver(f) = javabytecode_driver(f, jar_result)
    BY <1>10 DEF driver
  <2>2. f.classes \in Seq(STRING)
    BY <1>10, ItemsAssumption
  <2> DEFINE v == javabytecode_driver(f, jar_result)
  <2>3. /\ v.added \in Seq(Fit(f)) /\ Honest(v)
        /\ ~v.ok => v.added # <<>> \/ ~jar_result \/ FailsSilently(f)
    BY <1>10, <2>2, JavabytecodeAccounts DEF FailsSilently
  <2> HIDE DEF v
  <2> QED
    BY <1>10, <2>1, <2>3 DEF v, Says
<1>11. CASE insp = "shellsyntax"
  <2>1. driver(f) = shellsyntax_driver(f)
    BY <1>11 DEF driver
  <2>2. f.syntax \in {"valid", "extglob", "invalid"}
    BY <1>11, ItemsAssumption
  <2> DEFINE v == shellsyntax_driver(f)
  <2>3. /\ v.added \in Seq(Fit(f)) /\ Honest(v)
        /\ ~v.ok => v.added # <<>> \/ FailsSilently(f)
    BY <1>11, <2>2, ShellsyntaxAccounts DEF FailsSilently
  <2> HIDE DEF v
  <2> QED
    BY <1>11, <2>1, <2>3 DEF v, Says
<1>12. CASE insp = "desktop"
  <2>1. driver(f) = desktop_driver(f)
    BY <1>12 DEF driver
  <2>2. f.valid \/ f.output
    BY <1>12, ItemsAssumption
  <2>3. Accounts(desktop_driver(f), Fit(f)) /\ Honest(desktop_driver(f))
    BY <2>2, DesktopAccounts
  <2> QED
    BY <1>12, <2>1, <2>3, AccountSays
<1> QED
  BY <1>1, <1>2, <1>3, <1>4, <1>5, <1>6, <1>7, <1>8, <1>9, <1>10, <1>11, <1>12

\* and those of ELF files and what goes with them.
LEMMA ElfDriversSay ==
    ASSUME insp \in DOMAIN Items, NEW f \in Items[insp], Plain(Fit(f)),
           insp \in {"dsodeps", "lto", "badfuncs", "kmod", "runpath", "debuginfo",
                    "abidiff", "kmidiff"}
    PROVE  Says(f, driver(f))
<1> USE DEF Truthful, ByResult
<1>1. CASE insp = "dsodeps"
  <2>1. driver(f) = dsodeps_driver(f)
    BY <1>1 DEF driver
  <2>2. Accounts(dsodeps_driver(f), Fit(f)) /\ Honest(dsodeps_driver(f))
    BY DsodepsAccounts
  <2> QED
    BY <1>1, <2>1, <2>2, AccountSays
<1>2. CASE insp = "lto"
  <2>1. driver(f) = lto_driver(f)
    BY <1>2 DEF driver
  <2>2. f.symbols \in Nat
    BY <1>2, ItemsAssumption
  <2>3. Accounts(lto_driver(f), Fit(f)) /\ Honest(lto_driver(f))
    BY <2>2, SingleFindings
  <2> QED
    BY <1>2, <2>1, <2>3, AccountSays
<1>3. CASE insp = "badfuncs"
  <2>1. driver(f) = badfuncs_driver(f)
    BY <1>3 DEF driver
  <2>2. Accounts(badfuncs_driver(f), Fit(f)) /\ Honest(badfuncs_driver(f))
    BY SingleFindings
  <2> QED
    BY <1>3, <2>1, <2>2, AccountSays
<1>4. CASE insp = "kmod"
  <2>1. driver(f) = kmod_driver(f)
    BY <1>4 DEF driver
  <2>2. f.changes \in Nat
    BY <1>4, ItemsAssumption
  <2>3. Accounts(kmod_driver(f), Fit(f))
    BY <2>2, SingleFindings
  <2> QED
    BY <1>4, <2>1, <2>3, AccountSays
<1>5. CASE insp = "runpath"
  <2>1. driver(f) = runpath_driver(f)
    BY <1>5 DEF driver
  <2>2. f.rpath \in Seq(STRING) /\ f.runpath \in Seq(STRING)
    BY <1>5, ItemsAssumption
  <2>3. Accounts(runpath_driver(f), Fit(f)) /\ Honest(runpath_driver(f))
    BY <2>2, RunpathAccounts
  <2> QED
    BY <1>5, <2>1, <2>3, AccountSays
<1>6. CASE insp = "debuginfo"
  <2>1. driver(f) = debuginfo_driver(f)
    BY <1>6 DEF driver
  <2>2. Accounts(debuginfo_driver(f), Fit(f)) /\ Honest(debuginfo_driver(f))
    BY DebuginfoAccounts
  <2> QED
    BY <1>6, <2>1, <2>2, AccountSays
<1>7. CASE insp = "abidiff"
  <2>1. driver(f) = abidiff_driver(f, rebase)
    BY <1>7 DEF driver
  <2>2. Accounts(abidiff_driver(f, rebase), Fit(f)) /\ Honest(abidiff_driver(f, rebase))
    BY AbidiffAccounts
  <2> QED
    BY <1>7, <2>1, <2>2, AccountSays
<1>8. CASE insp = "kmidiff"
  <2>1. driver(f) = kmidiff_driver(f)
    BY <1>8 DEF driver
  <2>2. Accounts(kmidiff_driver(f), Fit(f)) /\ Honest(kmidiff_driver(f))
    BY SingleFindings
  <2> QED
    BY <1>8, <2>1, <2>2, AccountSays
<1> QED
  BY <1>1, <1>2, <1>3, <1>4, <1>5, <1>6, <1>7, <1>8

\* So say all drivers, of any file that they look at.
LEMMA DriversSay ==
    ASSUME insp \in DOMAIN Items, settings \in Settings[insp], results \in Seq(Result),
           NEW f \in Items[insp], Looks(f)
    PROVE  /\ Says(f, driver(f))
           /\ insp \in Privileged /\ Unexpected(f) => ToSecurity(driver(f).added)
           /\ /\ insp \in Comparing /\ rebase
              /\ insp = "removedfiles" => ~f.sentry
              => driver(f).added \in Seq(Notes)
<1>1. CASE insp \in security_checks \cup {"unicode"}
  BY <1>1, CarefulDriversSay
<1>2. CASE insp \notin security_checks \cup {"unicode"}
  <2>1. Plain(Fit(f)) /\ insp \notin Privileged
    BY <1>2, OthersArePlain DEF Looks, Privileged, security_checks
  <2>2. CASE insp \in {"config", "doc", "subpackages", "lostpayload", "upstream"}
    BY <2>1, <2>2, ComparingDriversSay
  <2>3. CASE insp \notin {"config", "doc", "subpackages", "lostpayload", "upstream"}
    <3>1. insp \notin Comparing
      BY <1>2, <2>3 DEF Comparing, security_checks
    <3>2. insp \in inspections
      BY InspectionsAssumption
    <3>3. Says(f, driver(f))
      BY <1>2, <2>1, <2>3, <3>2, PackageDriversSay, FileDriversSay, ElfDriversSay
         DEF inspections, security_checks
    <3> QED
      BY <2>1, <3>1, <3>3
  <2> QED
    BY <2>2, <2>3
<1> QED
  BY <1>1, <1>2

-----------------------------------------------------------------------------

(***************************************************************************)
(* The invariant.                                                          *)
(***************************************************************************)

TypeOK ==
    /\ insp \in DOMAIN Items /\ settings \in Settings[insp]
    /\ files \in Seq(Items[insp])
    /\ rebase_build \in {0, detected(settings.build, 0)}
    /\ idx \in 1 .. Len(files) + 1
    /\ {result, reported, returned} \subseteq BOOLEAN
    /\ results \in Seq(Result)

\* Whether versions differ is answered from what rebase_build keeps or anew,
\* and what it keeps is the same either way.
LEMMA RebaseAnswer ==
    ASSUME NEW build, NEW kept \in {0, detected(build, 0)}
    PROVE  /\ differs(build) => is_rebase(build, kept)
           /\ detected(build, kept) \in {0, detected(build, 0)}
BY DEF differs, detected, is_rebase

ResultOf(at, entry) == [at |-> at, severity |-> entry.severity,
                        waiverauth |-> entry.waiverauth]

\* Adding results keeps those that are there, and all that is new is what was
\* added.
LEMMA AddedResults ==
    ASSUME NEW at \in Nat, NEW added \in Seq(EntryType),
           results \in Seq(Result), add_result(at, added)
    PROVE  /\ results' \in Seq(Result)
           /\ added_results \subseteq added_results'
           /\ \A n \in DOMAIN added : ResultOf(at, added[n]) \in added_results'
           /\ \A r \in added_results' :
                 \/ r \in added_results
                 \/ \E n \in DOMAIN added : r = ResultOf(at, added[n])
<1> DEFINE new == [n \in DOMAIN added |-> ResultOf(at, added[n])]
<1>1. results' = results \o new
  BY DEF add_result, ResultOf
<1>2. \A n \in DOMAIN added : ResultOf(at, added[n]) \in Result
  <2>1. \A n \in DOMAIN added : added[n] \in EntryType
    OBVIOUS
  <2> QED
    BY <2>1 DEF EntryType, Result, ResultOf
<1>3. /\ new \in Seq(Result) /\ Len(new) = Len(added)
      /\ \A n \in DOMAIN added : new[n] = ResultOf(at, added[n])
  <2>1. DOMAIN added = 1 .. Len(added) /\ Len(added) \in Nat
    OBVIOUS
  <2> QED
    BY <2>1, <1>2
<1> HIDE DEF new
<1>4. /\ results' \in Seq(Result)
      /\ DOMAIN results = 1 .. Len(results)
      /\ DOMAIN results' = 1 .. Len(results) + Len(added)
      /\ \A n \in 1 .. Len(results) : results'[n] = results[n]
      /\ \A n \in 1 .. Len(added) : results'[Len(results) + n] = new[n]
      /\ DOMAIN added = 1 .. Len(added)
      /\ Len(results) \in Nat /\ Len(added) \in Nat
  <2>1. ASSUME NEW s \in Seq(Result), NEW t \in Seq(Result)
        PROVE  /\ s \o t \in Seq(Result)
               /\ DOMAIN (s \o t) = 1 .. Len(s) + Len(t)
               /\ \A n \in 1 .. Len(s) : (s \o t)[n] = s[n]
               /\ \A n \in 1 .. Len(t) : (s \o t)[Len(s) + n] = t[n]
    OBVIOUS
  <2>2. /\ DOMAIN added = 1 .. Len(added) /\ Len(added) \in Nat
        /\ DOMAIN results = 1 .. Len(results) /\ Len(results) \in Nat
    OBVIOUS
  <2>3. /\ results' \in Seq(Result)
        /\ DOMAIN results' = 1 .. Len(results) + Len(new)
        /\ \A n \in 1 .. Len(results) : results'[n] = results[n]
        /\ \A n \in 1 .. Len(new) : results'[Len(results) + n] = new[n]
    BY <1>1, <1>3, <2>1
  <2> QED
    BY <2>2, <2>3, <1>3
<1>5. added_results \subseteq added_results'
  BY <1>4 DEF added_results
<1>6. ASSUME NEW n \in DOMAIN added
      PROVE  ResultOf(at, added[n]) \in added_results'
  <2>1. Len(results) + n \in DOMAIN results'
    BY <1>4
  <2> QED
    BY <2>1, <1>3, <1>4 DEF added_results
<1>7. ASSUME NEW r \in added_results'
      PROVE  \/ r \in added_results
             \/ \E n \in DOMAIN added : r = ResultOf(at, added[n])
  <2>1. PICK k \in DOMAIN results' : r = results'[k]
    BY DEF added_results
  <2>2. CASE k \in 1 .. Len(results)
    BY <2>1, <2>2, <1>4 DEF added_results
  <2>3. CASE k \notin 1 .. Len(results)
    <3>1. k - Len(results) \in 1 .. Len(added)
      BY <2>3, <1>4
    <3>2. k = Len(results) + (k - Len(results))
      BY <1>4
    <3> QED
      BY <2>1, <3>1, <3>2, <1>3, <1>4
  <2> QED
    BY <2>2, <2>3
<1> QED
  BY <1>4, <1>5, <1>6, <1>7

\* The same of entries from a set, as the invariant needs it.
LEMMA NewResults ==
    ASSUME NEW at \in Nat, NEW R, R \subseteq EntryType, NEW added \in Seq(R),
           results \in Seq(Result), add_result(at, added)
    PROVE  /\ results' \in Seq(Result)
           /\ added_results \subseteq added_results'
           /\ added = <<>> => added_results' = added_results
           /\ added # <<>> => \E e \in R : ResultOf(at, e) \in added_results'
           /\ Failing(added) => \E r \in added_results' : r.severity >= RESULT_VERIFY
           /\ ToSecurity(added) => \E r \in added_results' :
                                      r.at = at /\ r.waiverauth = "security"
           /\ \A r \in added_results' :
                 \/ r \in added_results
                 \/ \E e \in R : r = ResultOf(at, e)
           /\ \A S : added \in Seq(S) =>
                 \A r \in added_results' :
                    \/ r \in added_results
                    \/ \E e \in S : r = ResultOf(at, e)
<1>1. added \in Seq(EntryType)
  OBVIOUS
<1>2. /\ results' \in Seq(Result)
      /\ added_results \subseteq added_results'
      /\ \A n \in DOMAIN added : ResultOf(at, added[n]) \in added_results'
      /\ \A r \in added_results' :
            \/ r \in added_results
            \/ \E n \in DOMAIN added : r = ResultOf(at, added[n])
  BY <1>1, AddedResults
<1>3. \A S : added \in Seq(S) => \A n \in DOMAIN added : added[n] \in S
  OBVIOUS
<1>4. \A S : added \in Seq(S) =>
                 \A r \in added_results' :
                    \/ r \in added_results
                    \/ \E e \in S : r = ResultOf(at, e)
  BY <1>2, <1>3, Zenon
<1>5. added = <<>> => added_results' = added_results
  <2>1. added = <<>> => DOMAIN added = {}
    OBVIOUS
  <2> QED
    BY <1>2, <2>1
<1>6. added # <<>> => \E e \in R : ResultOf(at, e) \in added_results'
  <2>1. added # <<>> => 1 \in DOMAIN added
    OBVIOUS
  <2> QED
    BY <1>2, <1>3, <2>1
<1>7. Failing(added) => \E r \in added_results' : r.severity >= RESULT_VERIFY
  BY <1>2 DEF Failing, ResultOf
<1>8. ToSecurity(added) => \E r \in added_results' :
                              r.at = at /\ r.waiverauth = "security"
  BY <1>2 DEF ToSecurity, ResultOf
<1> QED
  BY <1>2, <1>4, <1>5, <1>6, <1>7, <1>8

\* The files looked at before, one file later.
LEMMA EarlierGrows ==
    ASSUME idx \in Nat \ {0}, idx' = idx + 1, UNCHANGED <<insp, files>>
    PROVE  /\ earlier \subseteq earlier'
           /\ \A f \in earlier' : \/ f \in earlier
                                  \/ f = files[idx] /\ f.subject /\ ~skipped(f)
           /\ files[idx].subject /\ ~skipped(files[idx]) => files[idx] \in earlier'
<1>1. \A f : skipped(f)' <=> skipped(f)
  BY DEF skipped
<1>2. 1 .. idx' - 1 = 1 .. idx - 1 \cup {idx}
  OBVIOUS
<1>3. earlier' = {files[i] : i \in {i \in 1 .. idx - 1 \cup {idx} :
                                      files[i].subject /\ ~skipped(files[i])}}
  BY <1>1, <1>2 DEF earlier
<1> QED
  BY <1>3 DEF earlier

\* Something failed without a reason.
Mute == \E f \in earlier : FailsSilently(f)

\* What was found is reported, though no variable keeps it, and what static
\* variables make later files fail for has failed the inspection.
Remembered ==
    /\ insp = "specname" /\ earlier # {} /\ ~specgood => reported /\ ~result
    /\ insp = "license" /\ (\E f \in earlier : ~counts_as_good(f) /\ f.license # "unbalanced")
          => reported
    /\ insp = "changelog" /\ (\E f \in earlier : changelog_item(f).added # <<>>) => reported
    /\ insp = "javabytecode" /\ ~jar_result => reported /\ ~result
    /\ insp = "patches" /\ unhandled => reported /\ ~result
    /\ insp = "unicode" /\ (\E r \in added_results : r.waiverauth = "security") => ~result

\* While files are looked at, the return values of the drivers, the variable
\* reported and the results account for each other.
Running ==
    /\ \A r \in added_results : /\ r.at # 0
                                /\ insp # "annocheck" => r.severity \in Reportable
    /\ ~ready => results = <<>>
    /\ reported <=> added_results # {}
    /\ ~result => Mute \/ \E r \in added_results : r.severity # RESULT_OK
    /\ insp \in Truthful /\ result => \A r \in added_results : r.severity <= RESULT_INFO
    /\ Remembered

Account ==
    /\ returned /\ ready => idx \notin DOMAIN files
    /\ ~returned => Running

IInv ==
    /\ TypeOK
    /\ RebaseIsLenient
    /\ PrivilegedModesReported
    /\ SkippedRulesAreSilent
    /\ IgnoredFilesOnlySecurity
    /\ Account
    /\ OkIsEarned

-----------------------------------------------------------------------------

\* Nothing is reported before the first file.
LEMMA InitHolds == Init => IInv
<1> SUFFICES ASSUME Init
             PROVE  IInv
  OBVIOUS
<1>1. /\ insp \in DOMAIN Items /\ settings \in Settings[insp] /\ files \in Seq(Items[insp])
      /\ idx = 1 /\ result = TRUE /\ reported = FALSE /\ results = <<>> /\ returned = FALSE
      /\ rebase_build \in {0, detected(settings.build, 0)}
  BY DEF Init, Start
<1>2. TypeOK
  <2>1. Len(files) \in Nat
    BY <1>1
  <2>2. results \in Seq(Result)
    BY <1>1, None
  <2>3. idx \in 1 .. Len(files) + 1
    BY <1>1, <2>1
  <2>4. {result, reported, returned} \subseteq BOOLEAN
    BY <1>1
  <2> QED
    BY <1>1, <2>2, <2>3, <2>4, Zenon DEF TypeOK
<1>3. findings = {} /\ added_results = {} /\ 1 .. idx - 1 = {} /\ earlier = {}
  BY <1>1 DEF findings, added_results, earlier
<1>4. Account
  BY <1>1, <1>3 DEF Account, Running, Remembered, jar_result, unhandled
<1> QED
  BY <1>1, <1>2, <1>3, <1>4
     DEF IInv, RebaseIsLenient, PrivilegedModesReported, SkippedRulesAreSilent,
         IgnoredFilesOnlySecurity, OkIsEarned

-----------------------------------------------------------------------------

\* What one file adds to the results.
LEMMA InspectAdds ==
    ASSUME TypeOK, Account, Inspect
    PROVE  /\ ~returned /\ ready /\ Running /\ idx \in Nat \ {0}
           /\ idx \in DOMAIN files /\ files[idx] \in Items[insp] /\ Looks(files[idx])
           /\ UNCHANGED <<insp, settings, files, returned>> /\ idx' = idx + 1
           /\ Says(files[idx], driver(files[idx]))
           /\ reported' = (reported \/ driver(files[idx]).added # <<>>)
           /\ result' = ((result \/ insp \in {"files", "disttag"}) /\ driver(files[idx]).ok)
           /\ add_result(idx, driver(files[idx]).added)
           /\ results \in Seq(Result)
<1>1. /\ ready /\ idx \in DOMAIN files /\ Looks(files[idx])
      /\ UNCHANGED <<insp, settings, files, returned>> /\ idx' = idx + 1
      /\ reported' = (reported \/ driver(files[idx]).added # <<>>)
      /\ result' = ((result \/ insp \in {"files", "disttag"}) /\ driver(files[idx]).ok)
      /\ add_result(idx, driver(files[idx]).added)
  BY DEF Inspect
<1>2. /\ insp \in DOMAIN Items /\ settings \in Settings[insp] /\ results \in Seq(Result)
      /\ files \in Seq(Items[insp]) /\ idx \in Nat \ {0}
  <2>1. Len(files) \in Nat
    BY DEF TypeOK
  <2> QED
    BY <2>1 DEF TypeOK
<1>3. files[idx] \in Items[insp]
  BY <1>1, <1>2
<1>4. Says(files[idx], driver(files[idx]))
  BY <1>1, <1>2, <1>3, DriversSay
<1>5. ~returned /\ Running
  <2>1. ~returned
    BY <1>1 DEF Account
  <2> QED
    BY <2>1 DEF Account
<1> QED
  BY <1>1, <1>2, <1>3, <1>4, <1>5

\* What that makes of the results.
LEMMA InspectResults ==
    ASSUME TypeOK, Account, Inspect
    PROVE  /\ results' \in Seq(Result)
           /\ added_results \subseteq added_results'
           /\ driver(files[idx]).added = <<>> => added_results' = added_results
           /\ driver(files[idx]).added # <<>>
                => \E e \in Fit(files[idx]) : ResultOf(idx, e) \in added_results'
           /\ Failing(driver(files[idx]).added)
                => \E r \in added_results' : r.severity >= RESULT_VERIFY
           /\ ToSecurity(driver(files[idx]).added)
                => \E r \in added_results' : r.at = idx /\ r.waiverauth = "security"
           /\ \A r \in added_results' : \/ r \in added_results
                                        \/ \E e \in Fit(files[idx]) : r = ResultOf(idx, e)
           /\ driver(files[idx]).added \in Seq(Notes) =>
                 \A r \in added_results' : \/ r \in added_results
                                           \/ \E e \in Notes : r = ResultOf(idx, e)
<1> DEFINE added == driver(files[idx]).added
           R == Fit(files[idx])
<1>1. /\ added \in Seq(R) /\ results \in Seq(Result) /\ add_result(idx, added)
      /\ idx \in Nat
  BY InspectAdds DEF Says
<1>2. R \subseteq EntryType
  BY DEF Fit
<1> HIDE DEF added, R
<1>3. /\ results' \in Seq(Result)
      /\ added_results \subseteq added_results'
      /\ added = <<>> => added_results' = added_results
      /\ added # <<>> => \E e \in R : ResultOf(idx, e) \in added_results'
      /\ Failing(added) => \E r \in added_results' : r.severity >= RESULT_VERIFY
      /\ ToSecurity(added) => \E r \in added_results' :
                                 r.at = idx /\ r.waiverauth = "security"
      /\ \A r \in added_results' : r \in added_results \/ \E e \in R : r = ResultOf(idx, e)
      /\ added \in Seq(Notes) => \A r \in added_results' :
                                    \/ r \in added_results
                                    \/ \E e \in Notes : r = ResultOf(idx, e)
  BY <1>1, <1>2, NewResults
<1> QED
  BY <1>3, Zenon DEF added, R

\* What a fit entry is as a result.
LEMMA FitResult ==
    ASSUME NEW f, NEW e \in Fit(f), NEW at \in Nat \ {0}, NEW r, r = ResultOf(at, e)
    PROVE  /\ r.at = at /\ r.at # 0
           /\ r.severity = e.severity /\ r.waiverauth = e.waiverauth
           /\ insp # "annocheck" => r.severity \in Reportable
BY DEF Fit, ResultOf

\* The accounts still match after one more file.
LEMMA InspectRuns ==
    ASSUME TypeOK, Account, Inspect
    PROVE  Running'
<1> DEFINE f == files[idx]
           v == driver(f)
<1>1. /\ ready /\ Running /\ idx \in Nat \ {0} /\ UNCHANGED <<insp, settings, files>>
      /\ idx' = idx + 1 /\ f \in Items[insp] /\ Looks(f)
      /\ reported' = (reported \/ v.added # <<>>)
      /\ result' = ((result \/ insp \in {"files", "disttag"}) /\ v.ok)
      /\ Says(f, v)
  BY InspectAdds
<1>2. /\ added_results \subseteq added_results'
      /\ v.added = <<>> => added_results' = added_results
      /\ v.added # <<>> => \E e \in Fit(f) : ResultOf(idx, e) \in added_results'
      /\ Failing(v.added) => \E r \in added_results' : r.severity >= RESULT_VERIFY
      /\ \A r \in added_results' : \/ r \in added_results
                                   \/ \E e \in Fit(f) : r = ResultOf(idx, e)
      /\ v.added \in Seq(Notes) =>
            \A r \in added_results' : \/ r \in added_results
                                      \/ \E e \in Notes : r = ResultOf(idx, e)
  BY InspectResults
<1>3. /\ earlier \subseteq earlier'
      /\ \A g \in earlier' : g \in earlier \/ g = f
      /\ f \in earlier'
  BY <1>1, EarlierGrows DEF Looks
<1>4. (ready' <=> ready) /\ insp \in DOMAIN Items
  BY <1>1 DEF ready, needs, TypeOK
<1> HIDE DEF f, v
<1>5. \A r \in added_results' : /\ r.at # 0
                                /\ insp # "annocheck" => r.severity \in Reportable
  BY <1>1, <1>2, FitResult DEF Running
<1>6. reported' <=> added_results' # {}
  BY <1>1, <1>2 DEF Running
<1>7. Remembered'
  <2>1. CASE insp = "specname"
    <3>1. v = specname_driver(f, specgood)
      BY <2>1 DEF v, driver
    <3>2. ASSUME ~specgood'
          PROVE  v.added # <<>> /\ ~v.ok
      <4>1. ~f.matches /\ ~specgood
        BY <1>3, <3>2 DEF specgood
      <4> QED
        BY <3>1, <4>1 DEF specname_driver, Clean, Verdict, When, Final
    <3> QED
      BY <1>1, <2>1, <3>2 DEF Remembered
  <2>2. CASE insp = "license"
    <3>1. v = license_item(f)
      BY <2>2 DEF v, driver
    <3>2. ASSUME ~counts_as_good(f), f.license # "unbalanced"
          PROVE  v.added # <<>>
      <4>1. f.license = "tokens" /\ f.unapproved \in Nat /\ f.booleans \in Nat
        <5>1. /\ f.license \in {"none", "unbalanced", "tokens"}
              /\ f.unapproved \in Nat /\ f.booleans \in Nat
          BY <1>1, <1>4, <2>2, ItemsAssumption
        <5> QED
          BY <3>2, <5>1 DEF counts_as_good
      <4>2. Plain(Fit(f))
        BY <1>1, <2>2, OthersArePlain DEF Looks, security_checks
      <4> QED
        BY <3>1, <3>2, <4>1, <4>2, LicenseAccounts
    <3>3. (\E g \in earlier' : ~counts_as_good(g) /\ g.license # "unbalanced") => reported'
      BY <1>1, <1>3, <2>2, <3>2 DEF Running, Remembered
    <3> QED
      BY <1>1, <2>2, <3>3 DEF Remembered
  <2>3. CASE insp = "changelog"
    <3>1. v = changelog_item(f)
      BY <2>3 DEF v, driver
    <3>2. (\E g \in earlier' : changelog_item(g).added # <<>>) => reported'
      BY <1>1, <1>3, <2>3, <3>1 DEF Running, Remembered
    <3> QED
      BY <1>1, <2>3, <3>2 DEF Remembered
  <2>4. CASE insp = "javabytecode"
    <3>1. v = javabytecode_driver(f, jar_result)
      BY <2>4 DEF v, driver
    <3>2. ASSUME javabytecode_driver(f, TRUE).added # <<>>
          PROVE  v.added # <<>> /\ ~v.ok
      <4>1. Plain(Fit(f))
        BY <1>1, <2>4, OthersArePlain DEF Looks, security_checks
      <4>2. f.classes \in Seq(STRING)
        BY <1>1, <1>4, <2>4, ItemsAssumption
      <4> QED
        BY <3>1, <3>2, <4>1, <4>2, JavabytecodeAccounts
    <3>3. ~jar_result' => reported' /\ ~result'
      BY <1>1, <1>3, <2>4, <3>2 DEF jar_result, Running, Remembered
    <3> QED
      BY <1>1, <2>4, <3>3 DEF Remembered
  <2>5. CASE insp = "patches"
    <3>1. v = patches_driver(f, unhandled)
      BY <2>5 DEF v, driver
    <3>2. ASSUME f.kind = "unhandled"
          PROVE  v.added # <<>> /\ ~v.ok
      BY <3>1, <3>2 DEF patches_driver, Verdict, Verify
    <3>3. unhandled' => reported' /\ ~result'
      BY <1>1, <1>3, <2>5, <3>2 DEF unhandled, Running, Remembered
    <3> QED
      BY <1>1, <2>5, <3>3 DEF Remembered
  <2>6. CASE insp = "unicode"
    <3> SUFFICES ASSUME NEW r \in added_results', r.waiverauth = "security"
                 PROVE  ~result'
      BY <1>1, <2>6 DEF Remembered
    <3>1. CASE r \in added_results
      BY <1>1, <2>6, <3>1 DEF Running, Remembered
    <3>2. CASE r \notin added_results
      <4>1. results \in Seq(Result) /\ add_result(idx, v.added)
        BY InspectAdds DEF f, v
      <4>2. v.added \in Seq(EntryType)
        <5>1. v.added \in Seq(Fit(f)) /\ Fit(f) \subseteq EntryType
          BY <1>1 DEF Says, Fit
        <5> QED
          BY <5>1
      <4>3. PICK n \in DOMAIN v.added : r = ResultOf(idx, v.added[n])
        BY <1>1, <3>2, <4>1, <4>2, AddedResults
      <4>4. ToSecurity(v.added)
        BY <4>3 DEF ToSecurity, ResultOf
      <4> QED
        BY <1>1, <2>6, <4>4 DEF Says
    <3> QED
      BY <3>1, <3>2
  <2>7. CASE insp \notin {"specname", "license", "changelog", "javabytecode", "patches",
                          "unicode"}
    BY <1>1, <2>7 DEF Remembered
  <2> QED
    BY <2>1, <2>2, <2>3, <2>4, <2>5, <2>6, <2>7
<1>8. ~result' => Mute' \/ \E r \in added_results' : r.severity # RESULT_OK
  <2>1. ASSUME v.added # <<>>, insp # "annocheck"
        PROVE  \E r \in added_results' : r.severity # RESULT_OK
    <3>1. PICK r \in added_results' : r.severity \in Reportable
      BY <1>2, <1>5, <2>1
    <3> QED
      BY <3>1 DEF Reportable, RESULT_OK, RESULT_INFO, RESULT_VERIFY, RESULT_BAD
  <2>2. ASSUME reported, insp # "annocheck"
        PROVE  \E r \in added_results' : r.severity # RESULT_OK
    <3>1. PICK r \in added_results' : r.severity \in Reportable
      BY <1>1, <1>2, <1>5, <2>2 DEF Running
    <3> QED
      BY <3>1 DEF Reportable, RESULT_OK, RESULT_INFO, RESULT_VERIFY, RESULT_BAD
  <2>3. CASE ~result
    <3>1. Mute \/ \E r \in added_results : r.severity # RESULT_OK
      BY <1>1, <2>3 DEF Running
    <3>2. Mute => Mute'
      BY <1>1, <1>3 DEF Mute, FailsSilently
    <3> QED
      BY <1>2, <3>1, <3>2
  <2>4. CASE ~v.ok
    <3>1. CASE insp = "annocheck"
      <4>1. PICK r \in added_results' : r.severity >= RESULT_VERIFY
        BY <1>1, <1>2, <2>4, <3>1 DEF Says
      <4>2. r.severity # RESULT_OK
        BY <4>1 DEF RESULT_OK, RESULT_VERIFY
      <4> QED
        BY <4>2
    <3>2. CASE v.added # <<>> /\ insp # "annocheck"
      BY <2>1, <3>2
    <3>3. CASE insp = "unicode" /\ ToSecurity(results)
      <4>1. added_results # {}
        BY <3>3 DEF ToSecurity, added_results
      <4>2. reported
        BY <1>1, <4>1 DEF Running
      <4> QED
        BY <2>2, <3>3, <4>2
    <3>4. CASE insp = "changedfiles" /\ f.security /\ reported
      BY <2>2, <3>4
    <3>5. CASE insp = "javabytecode" /\ ~jar_result
      <4>1. reported
        BY <1>1, <3>5 DEF Running, Remembered
      <4> QED
        BY <2>2, <3>5, <4>1
    <3>6. CASE insp = "patches" /\ unhandled
      <4>1. reported
        BY <1>1, <3>6 DEF Running, Remembered
      <4> QED
        BY <2>2, <3>6, <4>1
    <3>7. CASE FailsSilently(f)
      BY <1>1, <1>3, <3>7 DEF Mute, FailsSilently
    <3> QED
      BY <1>1, <2>4, <3>1, <3>2, <3>3, <3>4, <3>5, <3>6, <3>7 DEF Says
  <2> QED
    BY <1>1, <2>3, <2>4
<1>9. insp \in Truthful /\ result' => \A r \in added_results' : r.severity <= RESULT_INFO
  <2> SUFFICES ASSUME insp \in Truthful, result', NEW r \in added_results'
               PROVE  r.severity <= RESULT_INFO
    OBVIOUS
  <2>1. result /\ v.ok
    BY <1>1 DEF Truthful, ByResult
  <2>2. v.added \in Seq(Notes)
    BY <1>1, <2>1 DEF Says, Honest
  <2>3. CASE r \in added_results
    BY <1>1, <2>1, <2>3 DEF Running
  <2>4. ASSUME NEW e \in Notes, r = ResultOf(idx, e)
        PROVE  r.severity <= RESULT_INFO
    BY <2>4 DEF Notes, ResultOf
  <2> QED
    BY <1>2, <2>2, <2>3, <2>4
<1> QED
  BY <1>1, <1>4, <1>5, <1>6, <1>7, <1>8, <1>9 DEF Running

-----------------------------------------------------------------------------

(***************************************************************************)
(* The steps of an inspection.                                             *)
(***************************************************************************)

\* One file of an inspection.
LEMMA InspectKeeps ==
    ASSUME IInv, Inspect
    PROVE  IInv'
<1> DEFINE f == files[idx]
           v == driver(f)
<1> TypeOK /\ Account
  BY DEF IInv
<1>1. /\ ~returned /\ ready /\ Running /\ idx \in Nat \ {0}
      /\ idx \in DOMAIN files /\ f \in Items[insp] /\ Looks(f)
      /\ UNCHANGED <<insp, settings, files, returned>> /\ idx' = idx + 1
      /\ reported' = (reported \/ v.added # <<>>)
      /\ result' = ((result \/ insp \in {"files", "disttag"}) /\ v.ok)
  BY InspectAdds
<1>2. /\ results' \in Seq(Result)
      /\ added_results \subseteq added_results'
      /\ ToSecurity(v.added) => \E r \in added_results' : r.at = idx /\ r.waiverauth = "security"
      /\ \A r \in added_results' : \/ r \in added_results
                                   \/ \E e \in Fit(f) : r = ResultOf(idx, e)
      /\ v.added \in Seq(Notes) =>
            \A r \in added_results' : \/ r \in added_results
                                      \/ \E e \in Notes : r = ResultOf(idx, e)
  BY InspectResults
<1>3. /\ insp \in Privileged /\ Unexpected(f) => ToSecurity(v.added)
      /\ /\ insp \in Comparing /\ rebase
         /\ insp = "removedfiles" => ~f.sentry
         => v.added \in Seq(Notes)
  BY <1>1, DriversSay DEF TypeOK
<1>4. TypeOK'
  <2>1. rebase_build' \in {0, detected(settings.build, 0)}
    <3>1. rebase_build' \in {rebase_build, detected(settings.build, rebase_build)}
      BY DEF Inspect
    <3> QED
      BY <3>1, RebaseAnswer DEF TypeOK
  <2>2. idx' \in 1 .. Len(files') + 1
    BY <1>1 DEF TypeOK
  <2>3. {result', reported', returned'} \subseteq BOOLEAN
    <3> HIDE DEF v
    <3> QED
      BY <1>1 DEF TypeOK
  <2> QED
    BY <1>1, <1>2, <2>1, <2>2, <2>3 DEF TypeOK
<1> HIDE DEF v, f
<1>5. ASSUME NEW r \in added_results', r \notin added_results
      PROVE  \E e \in Fit(f) : /\ r.at = idx /\ r.severity = e.severity
                               /\ r.waiverauth = e.waiverauth
  BY <1>1, <1>2, <1>5, FitResult
<1>6. RebaseIsLenient'
  <2> SUFFICES ASSUME NEW r \in findings', differs(settings.build), insp \in Comparing,
                      insp = "removedfiles" => ~files[r.at].sentry
               PROVE  r.severity <= RESULT_INFO
    BY <1>1 DEF RebaseIsLenient, Comparing
  <2> rebase
    BY RebaseAnswer DEF TypeOK, rebase
  <2>1. CASE r \in added_results
    BY <2>1 DEF IInv, RebaseIsLenient, findings, Comparing
  <2>2. CASE r \notin added_results
    <3>1. r.at = idx
      BY <1>5, <2>2 DEF findings
    <3>2. v.added \in Seq(Notes)
      BY <1>3, <3>1 DEF f
    <3>3. PICK e \in Notes : r = ResultOf(idx, e)
      BY <1>2, <2>2, <3>2 DEF findings
    <3> QED
      BY <3>3 DEF Notes, ResultOf
  <2> QED
    BY <2>1, <2>2
<1>7. PrivilegedModesReported'
  <2> SUFFICES ASSUME NEW i \in 1 .. idx, insp \in Privileged, files[i].subject,
                      Unexpected(files[i])
               PROVE  \E r \in findings' : r.at = i /\ r.waiverauth = "security"
    BY <1>1 DEF PrivilegedModesReported, Privileged, Unexpected
  <2>1. CASE i = idx
    <3>1. PICK r \in added_results' : r.at = idx /\ r.waiverauth = "security"
      BY <2>1, <1>2, <1>3 DEF f
    <3> QED
      BY <2>1, <3>1, <1>1 DEF findings
  <2>2. CASE i # idx
    <3>1. i \in 1 .. idx - 1
      BY <2>2, <1>1
    <3>2. PICK r \in findings : r.at = i /\ r.waiverauth = "security"
      BY <3>1 DEF IInv, PrivilegedModesReported, Privileged, Unexpected
    <3> QED
      BY <3>2, <1>2 DEF findings
  <2> QED
    BY <2>1, <2>2
<1>8. SkippedRulesAreSilent'
  <2> SUFFICES ASSUME NEW r \in findings', insp \notin {"changedfiles", "annocheck"},
                      r.waiverauth = "security"
               PROVE  \E t \in rules_asked[insp] :
                         get_secrule_result_severity(files[r.at], t) # RESULT_SKIP
    BY <1>1 DEF SkippedRulesAreSilent
  <2>1. CASE r \in added_results
    BY <2>1 DEF IInv, SkippedRulesAreSilent, findings
  <2>2. CASE r \notin added_results
    BY <1>5, <2>2 DEF f, Fit, Silenced, findings
  <2> QED
    BY <2>1, <2>2
<1>9. IgnoredFilesOnlySecurity'
  <2> SUFFICES ASSUME NEW r \in findings', insp \notin of_packages,
                      files[r.at].ignored, r.severity >= RESULT_VERIFY
               PROVE  ForSecurity(r)
    BY <1>1 DEF IgnoredFilesOnlySecurity, ForSecurity, of_packages, own_loop
  <2>1. CASE r \in added_results
    BY <2>1 DEF IInv, IgnoredFilesOnlySecurity, findings
  <2>2. CASE r \notin added_results
    BY <1>5, <2>2 DEF f, Fit, Hushed, ForSecurity, findings
  <2> QED
    BY <2>1, <2>2
<1>10. Running' /\ ~returned'
  BY <1>1, InspectRuns
<1>11. Account'
  BY <1>10 DEF Account
<1>12. OkIsEarned'
  BY <1>10 DEF Running, OkIsEarned
<1> QED
  BY <1>4, <1>6, <1>7, <1>8, <1>9, <1>11, <1>12 DEF IInv

\* A file that is not looked at.
LEMMA SkipKeeps ==
    ASSUME IInv, Skip
    PROVE  IInv'
<1>1. /\ ready /\ idx \in DOMAIN files /\ ~Looks(files[idx]) /\ idx' = idx + 1
      /\ UNCHANGED <<insp, settings, files, rebase_build, result, reported, results, returned>>
  BY DEF Skip
<1>2. TypeOK /\ Account /\ idx \in Nat \ {0}
  <2>1. TypeOK /\ Account
    BY DEF IInv
  <2>2. Len(files) \in Nat
    BY <2>1 DEF TypeOK
  <2> QED
    BY <2>1, <2>2 DEF TypeOK
<1>3. TypeOK'
  BY <1>1, <1>2 DEF TypeOK
<1>4. added_results' = added_results /\ findings' = findings
  BY <1>1 DEF added_results, findings
<1>5. RebaseIsLenient' /\ SkippedRulesAreSilent' /\ IgnoredFilesOnlySecurity'
  <2>1. of_packages' = of_packages
    BY DEF of_packages, own_loop
  <2> QED
    BY <1>1, <1>4, <2>1
       DEF IInv, RebaseIsLenient, SkippedRulesAreSilent, IgnoredFilesOnlySecurity, ForSecurity
<1>6. PrivilegedModesReported'
  <2>1. insp \in Privileged => ~files[idx].subject
    BY <1>1 DEF Looks, skipped, Privileged, security_checks
  <2> SUFFICES ASSUME NEW i \in 1 .. idx, insp \in Privileged,
                      files[i].subject, Unexpected(files[i])
               PROVE  \E r \in findings : r.at = i /\ r.waiverauth = "security"
    BY <1>1, <1>2, <1>4 DEF PrivilegedModesReported, Privileged, Unexpected
  <2>2. i \in 1 .. idx - 1
    BY <1>2, <2>1
  <2> QED
    BY <2>2 DEF IInv, PrivilegedModesReported, Privileged, Unexpected
<1>7. ~returned /\ Running
  <2>1. ~returned
    BY <1>1, <1>2 DEF Account
  <2> QED
    BY <1>2, <2>1 DEF Account
<1>8. Running'
  <2>1. earlier \subseteq earlier' /\ (insp # "kmidiff" => earlier' = earlier)
    BY <1>1, <1>2, EarlierGrows DEF Looks
  <2>2. ready' <=> ready
    BY <1>1 DEF ready, needs
  <2>3. Mute => Mute'
    BY <1>1, <2>1 DEF Mute, FailsSilently
  <2>4. Remembered'
    BY <1>1, <1>4, <1>7, <2>1 DEF Running, Remembered, specgood, jar_result, unhandled
  <2> QED
    BY <1>1, <1>4, <1>7, <2>2, <2>3, <2>4 DEF Running
<1>9. Account'
  BY <1>1, <1>7, <1>8 DEF Account
<1>10. OkIsEarned'
  BY <1>1, <1>7, <1>8 DEF Running, OkIsEarned
<1> QED
  BY <1>3, <1>5, <1>6, <1>9, <1>10 DEF IInv

\* What a single result about no file makes of the results.
LEMMA ClosingResult ==
    ASSUME NEW e \in EntryType, results \in Seq(Result), add_result(0, <<e>>)
    PROVE  /\ results' \in Seq(Result)
           /\ ResultOf(0, e) \in added_results'
           /\ added_results \subseteq added_results'
           /\ \A r \in added_results' : r \in added_results \/ r = ResultOf(0, e)
<1>1. <<e>> \in Seq({e}) /\ <<e>> # <<>> /\ {e} \subseteq EntryType
  BY One
<1> DEFINE added == <<e>>
<1> HIDE DEF added
<1>2. /\ results' \in Seq(Result)
      /\ added_results \subseteq added_results'
      /\ \E x \in {e} : ResultOf(0, x) \in added_results'
      /\ \A r \in added_results' : r \in added_results \/ \E x \in {e} : r = ResultOf(0, x)
  <2>1. added \in Seq({e}) /\ added # <<>> /\ add_result(0, added)
    BY <1>1 DEF added
  <2> QED
    BY <1>1, <2>1, NewResults
<1> QED
  BY <1>2

\* What nothing makes of them.
LEMMA ClosingNothing ==
    ASSUME results \in Seq(Result), add_result(0, <<>>)
    PROVE  results' \in Seq(Result) /\ added_results' = added_results
<1> DEFINE added == <<>>
<1>1. added \in Seq(EntryType) /\ added = <<>> /\ add_result(0, added)
  BY None
<1> HIDE DEF added
<1> QED
  BY <1>1, NewResults

\* What is said of all files is about none of them.
LEMMA ClosingKeeps ==
    ASSUME IInv, results' \in Seq(Result), findings' = findings,
           UNCHANGED <<insp, settings, files, rebase_build, idx>>,
           {result', reported', returned'} \subseteq BOOLEAN
    PROVE  /\ TypeOK' /\ RebaseIsLenient' /\ PrivilegedModesReported'
           /\ SkippedRulesAreSilent' /\ IgnoredFilesOnlySecurity'
<1>1. TypeOK'
  BY DEF IInv, TypeOK
<1>2. RebaseIsLenient' /\ SkippedRulesAreSilent'
  BY DEF IInv, RebaseIsLenient, SkippedRulesAreSilent
<1>3. PrivilegedModesReported'
  BY DEF IInv, PrivilegedModesReported
<1>4. IgnoredFilesOnlySecurity'
  BY DEF IInv, IgnoredFilesOnlySecurity, ForSecurity, of_packages, own_loop
<1> QED
  BY <1>1, <1>2, <1>3, <1>4

\* The entries that close an inspection.
LEMMA ClosingEntries ==
    /\ Entry(RESULT_OK, "none") \in EntryType /\ Entry(RESULT_INFO, "not") \in EntryType
    /\ Entry(RESULT_SKIP, "none") \in EntryType /\ Entry(RESULT_BAD, "not") \in EntryType
    /\ \A v, w : ResultOf(0, Entry(v, w)).severity = v /\ ResultOf(0, Entry(v, w)).at = 0
    /\ RESULT_OK <= RESULT_INFO /\ RESULT_SKIP <= RESULT_INFO /\ RESULT_INFO <= RESULT_INFO
    /\ RESULT_INFO # RESULT_OK /\ RESULT_BAD # RESULT_OK /\ RESULT_SKIP # RESULT_OK
BY DEF Entry, EntryType, Authorities, ResultOf, RESULT_NULL, RESULT_SKIP, RESULT_OK,
       RESULT_INFO, RESULT_BAD

\* An inspection that cannot start says so, or is one of the two that say
\* nothing.
LEMMA UnreadyKeeps ==
    ASSUME IInv, Unready
    PROVE  IInv'
<1>1. /\ ~ready /\ ~returned /\ add_result(0, needs[insp].added)
      /\ result' = needs[insp].ok /\ returned' = TRUE
      /\ UNCHANGED <<insp, settings, files, rebase_build, idx, reported>>
  BY DEF Unready
<1>2. TypeOK /\ Running /\ results = <<>> /\ results \in Seq(Result) /\ added_results = {}
  <2>1. TypeOK /\ Running /\ results = <<>> /\ results \in Seq(Result)
    BY <1>1 DEF IInv, Account, Running, TypeOK
  <2> QED
    BY <2>1 DEF added_results
<1>3. (ready' <=> ready) /\ earlier' = earlier
  BY <1>1 DEF ready, needs, earlier, skipped
<1>4. insp \in {"udevrules", "javabytecode", "annocheck", "changelog", "modularity",
                "upstream", "patches", "license", "politics", "lto", "badfuncs"}
  BY <1>1 DEF ready, needs
<1>5. ASSUME NEW e \in EntryType, NEW ok \in BOOLEAN, needs[insp] = Verdict(ok, <<e>>),
             e.severity <= RESULT_INFO \/ insp = "license"
      PROVE  IInv'
  <2>0. needs[insp].added = <<e>> /\ needs[insp].ok = ok
    BY <1>5 DEF Verdict
  <2>1. /\ results' \in Seq(Result) /\ added_results' = {ResultOf(0, e)}
    BY <1>1, <1>2, <2>0, ClosingResult
  <2>2. findings' = findings
    BY <1>2, <2>1 DEF findings, ResultOf
  <2>3. /\ TypeOK' /\ RebaseIsLenient' /\ PrivilegedModesReported'
        /\ SkippedRulesAreSilent' /\ IgnoredFilesOnlySecurity'
    BY <1>1, <1>2, <2>0, <2>1, <2>2, ClosingKeeps DEF TypeOK
  <2>4. OkIsEarned'
    BY <1>1, <1>5, <2>0, <2>1 DEF OkIsEarned, ResultOf
  <2>5. Account'
    BY <1>1, <1>3 DEF Account
  <2> QED
    BY <2>3, <2>4, <2>5 DEF IInv
<1>6. ASSUME needs[insp].added = <<>>, needs[insp].ok \in BOOLEAN,
             insp \in {"javabytecode", "annocheck"}
      PROVE  IInv'
  <2>1. results' \in Seq(Result) /\ added_results' = {}
    BY <1>1, <1>2, <1>6, ClosingNothing
  <2>2. findings' = findings
    BY <1>2, <2>1 DEF findings
  <2>3. /\ TypeOK' /\ RebaseIsLenient' /\ PrivilegedModesReported'
        /\ SkippedRulesAreSilent' /\ IgnoredFilesOnlySecurity'
    BY <1>1, <1>2, <1>6, <2>1, <2>2, ClosingKeeps DEF TypeOK
  <2>4. OkIsEarned'
    BY <1>1, <1>3, <1>6, <2>1 DEF OkIsEarned
  <2>5. Account'
    BY <1>1, <1>3 DEF Account
  <2> QED
    BY <2>3, <2>4, <2>5 DEF IInv
<1>7. CASE insp = "udevrules"
  <2>1. needs[insp] = Verdict(TRUE, <<Entry(RESULT_SKIP, "none")>>)
    BY <1>7 DEF needs
  <2>2. Entry(RESULT_SKIP, "none").severity = RESULT_SKIP
    BY DEF Entry
  <2> QED
    BY <1>5, <2>1, <2>2, ClosingEntries
<1>8. CASE insp = "javabytecode"
  <2>1. needs[insp] = Verdict(FALSE, <<>>)
    BY <1>8 DEF needs
  <2> QED
    BY <1>6, <1>8, <2>1 DEF Verdict
<1>9. CASE insp = "annocheck"
  <2>1. needs[insp] = Quiet
    BY <1>9 DEF needs
  <2> QED
    BY <1>6, <1>9, <2>1 DEF Verdict, Quiet
<1>10. CASE insp \in {"changelog", "modularity", "upstream", "patches"}
  <2>1. needs[insp] = Verdict(TRUE, <<Entry(RESULT_INFO, "not")>>)
    BY <1>10 DEF needs, Inform
  <2>2. Entry(RESULT_INFO, "not").severity = RESULT_INFO
    BY DEF Entry
  <2> QED
    BY <1>5, <2>1, <2>2, ClosingEntries
<1>11. CASE insp = "license"
  <2>1. needs[insp] = Verdict(FALSE, <<Entry(RESULT_BAD, "not")>>)
    BY <1>11 DEF needs, Final
  <2>2. Entry(RESULT_BAD, "not").severity = RESULT_BAD
    BY DEF Entry
  <2> QED
    BY <1>5, <1>11, <2>1, <2>2, ClosingEntries
<1>12. CASE insp \in {"politics", "lto", "badfuncs"}
  <2>1. needs[insp] = Verdict(TRUE, <<Entry(RESULT_OK, "none")>>)
    BY <1>12 DEF needs
  <2>2. Entry(RESULT_OK, "none").severity = RESULT_OK
    BY DEF Entry
  <2> QED
    BY <1>5, <2>1, <2>2, ClosingEntries
<1> QED
  BY <1>4, <1>7, <1>8, <1>9, <1>10, <1>11, <1>12

\* Which variable decides that all is well.
LEMMA WhoSaysOk ==
    /\ insp \in {"types", "lostpayload"} => (everything_is_ok <=> ~reported)
    /\ insp \in ByResult \cup {"symlinks"} => (everything_is_ok <=> result)
    /\ insp \in {"files", "disttag"} => (everything_is_ok <=> result /\ seen)
    /\ insp = "specname" => (everything_is_ok <=> specgood)
    /\ insp = "license" => (everything_is_ok <=> \A f \in earlier : counts_as_good(f))
    /\ insp = "changelog" => (everything_is_ok <=> result /\ last_was_quiet)
    /\ insp \notin ByResult \cup {"symlinks", "types", "lostpayload", "files", "disttag",
                                  "specname", "license", "changelog"}
          => (everything_is_ok <=> result /\ ~reported)
<1>1. insp \in {"types", "lostpayload"} => (everything_is_ok <=> ~reported)
  BY DEF everything_is_ok
<1>2. insp \in ByResult \cup {"symlinks"} => (everything_is_ok <=> result)
  BY DEF everything_is_ok, ByResult
<1>3. insp \in {"files", "disttag"} => (everything_is_ok <=> result /\ seen)
  BY DEF everything_is_ok
<1>4. insp = "specname" => (everything_is_ok <=> specgood)
  BY DEF everything_is_ok
<1>5. insp = "license" => (everything_is_ok <=> \A f \in earlier : counts_as_good(f))
  BY DEF everything_is_ok
<1>6. insp = "changelog" => (everything_is_ok <=> result /\ last_was_quiet)
  BY DEF everything_is_ok
<1>7. insp \notin ByResult \cup {"symlinks", "types", "lostpayload", "files", "disttag",
                                  "specname", "license", "changelog"}
          => (everything_is_ok <=> result /\ ~reported)
  BY DEF everything_is_ok, ByResult
<1> QED
  BY <1>1, <1>2, <1>3, <1>4, <1>5, <1>6, <1>7

\* Each of them is right about the results.
LEMMA OkIsClean ==
    ASSUME Running, everything_is_ok,
           insp \notin {"symlinks", "license", "files", "disttag", "specname"}
    PROVE  \A r \in added_results : r.severity <= RESULT_INFO
<1>1. CASE insp \in Truthful
  <2>1. result
    BY <1>1, WhoSaysOk DEF Truthful
  <2> QED
    BY <1>1, <2>1 DEF Running
<1>2. CASE insp \notin Truthful
  <2>1. ~reported
    BY <1>2, WhoSaysOk DEF Truthful
  <2> QED
    BY <2>1 DEF Running
<1> QED
  BY <1>1, <1>2

\* A list of numbers that is not empty has a greatest.
LEMMA NatMax ==
    ASSUME NEW n \in Nat, NEW T, T \subseteq 1 .. n, T # {}
    PROVE  \E m \in T : \A k \in T : k <= m
<1> DEFINE U == {n - k : k \in T}
<1>1. U \subseteq Nat /\ U # {}
  <2>1. \A k \in T : n - k \in Nat
    OBVIOUS
  <2>2. PICK k \in T : TRUE
    OBVIOUS
  <2> QED
    BY <2>1, <2>2
<1>2. PICK u \in U : \A k \in U : u <= k
  BY <1>1, NatMin
<1>3. PICK m \in T : u = n - m
  OBVIOUS
<1>4. ASSUME NEW k \in T
      PROVE  k <= m
  <2>1. n - m <= n - k
    BY <1>2, <1>3
  <2> QED
    BY <2>1
<1> QED
  BY <1>4

\* If the last package has no new changelog entry, and only then, all is well
\* though something was reported.
LEMMA LastWasQuiet ==
    ASSUME TypeOK, insp = "changelog", idx \notin DOMAIN files, earlier # {},
           \A f \in earlier : changelog_item(f).added = <<>>
    PROVE  last_was_quiet
<1> DEFINE T == {i \in DOMAIN files : files[i].subject}
<1>1. Len(files) \in Nat /\ DOMAIN files = 1 .. Len(files) /\ idx = Len(files) + 1
  BY DEF TypeOK
<1>2. \A i \in T : files[i] \in earlier
  BY <1>1 DEF earlier, skipped, own_loop
<1>3. T # {} /\ T \subseteq 1 .. Len(files)
  BY <1>1 DEF earlier
<1>4. PICK m \in T : \A k \in T : k <= m
  BY <1>1, <1>3, NatMax
<1>5. \A j \in DOMAIN files : j > m => ~files[j].subject
  BY <1>1, <1>4
<1>6. driver(files[m]).added = <<>>
  <2>1. driver(files[m]) = changelog_item(files[m])
    BY DEF driver
  <2> QED
    BY <1>2, <2>1
<1> QED
  BY <1>4, <1>5, <1>6 DEF last_was_quiet

skips == \/ insp = "unicode" /\ ~result /\ ~seen
         \/ insp \in {"disttag", "files", "specname"} /\ ~seen

\* An inspection that does not say OK, and looked at something, has said
\* something else.
LEMMA NotOkIsSaid ==
    ASSUME TypeOK, Running, idx \notin DOMAIN files, ready,
           ~everything_is_ok, ~skips, ~NothingSaid
    PROVE  added_results # {}
<1>1. result \/ added_results # {}
  BY DEF Running, Mute, NothingSaid
<1>2. reported => added_results # {}
  BY DEF Running
<1>3. CASE insp \in {"types", "lostpayload"}
  BY <1>2, <1>3, WhoSaysOk
<1>4. CASE insp \in ByResult \cup {"symlinks"}
  BY <1>1, <1>4, WhoSaysOk
<1>5. CASE insp \in {"files", "disttag"}
  BY <1>1, <1>5, WhoSaysOk DEF skips
<1>6. CASE insp = "specname"
  <2>1. earlier # {}
    BY <1>6 DEF skips, seen
  <2> QED
    BY <1>2, <1>6, <2>1, WhoSaysOk DEF Running, Remembered
<1>7. CASE insp = "license"
  <2>1. PICK f \in earlier : ~counts_as_good(f)
    BY <1>7, WhoSaysOk
  <2>2. f.license # "unbalanced"
    BY <1>7 DEF NothingSaid
  <2> QED
    BY <1>2, <1>7, <2>1, <2>2 DEF Running, Remembered
<1>8. CASE insp = "changelog"
  <2>1. earlier # {}
    BY <1>8 DEF NothingSaid
  <2>2. result => \E f \in earlier : changelog_item(f).added # <<>>
    BY <1>8, <2>1, LastWasQuiet, WhoSaysOk
  <2> QED
    BY <1>1, <1>2, <1>8, <2>2 DEF Running, Remembered
<1>9. CASE insp \notin ByResult \cup {"symlinks", "types", "lostpayload", "files", "disttag",
                                      "specname", "license", "changelog"}
  BY <1>1, <1>2, <1>9, WhoSaysOk
<1> QED
  BY <1>3, <1>4, <1>5, <1>6, <1>7, <1>8, <1>9

\* The end of an inspection.
LEMMA ReturnKeeps ==
    ASSUME IInv, Return
    PROVE  IInv'
<1> DEFINE ok_entry == Entry(RESULT_OK, "none")
           info_entry == Entry(RESULT_INFO, "not")
<1>1. /\ ready /\ idx \notin DOMAIN files /\ ~returned /\ returned' = TRUE
      /\ add_result(0, IF everything_is_ok THEN <<ok_entry>> ELSE When(skips, <<info_entry>>))
      /\ UNCHANGED <<insp, settings, files, rebase_build, idx, reported>>
  BY DEF Return, skips, Inform
<1>2. /\ insp = "unicode" => (result' <=> result \/ skips)
      /\ insp = "specname" => (result' <=> specgood \/ skips)
      /\ insp = "files" => (result' <=> result /\ seen)
      /\ insp \notin {"unicode", "specname", "files"} => (result' <=> result)
      /\ result' \in BOOLEAN
  <2>1. insp = "unicode" => result' = (result \/ skips)
    BY DEF Return, skips
  <2>2. insp = "specname" => result' = (specgood \/ skips)
    BY DEF Return, skips
  <2>3. insp = "files" => result' = (result /\ seen)
    BY DEF Return
  <2>4. insp \notin {"unicode", "specname", "files"} => result' = result
    BY DEF Return
  <2>5. result \in BOOLEAN
    BY DEF IInv, TypeOK
  <2> QED
    <3>1. /\ (result \/ skips) \in BOOLEAN /\ (specgood \/ skips) \in BOOLEAN
          /\ (result /\ seen) \in BOOLEAN
      OBVIOUS
    <3>2. result' \in BOOLEAN
      BY <2>1, <2>2, <2>3, <2>4, <2>5, <3>1
    <3>3. insp = "unicode" => (result' <=> result \/ skips)
      BY <2>1
    <3>4. insp = "specname" => (result' <=> specgood \/ skips)
      BY <2>2
    <3>5. insp = "files" => (result' <=> result /\ seen)
      BY <2>3
    <3>6. insp \notin {"unicode", "specname", "files"} => (result' <=> result)
      BY <2>4
    <3> QED
      BY <3>2, <3>3, <3>4, <3>5, <3>6
<1>3. TypeOK /\ Running /\ results \in Seq(Result)
  BY <1>1 DEF IInv, Account, TypeOK
<1>4. /\ results' \in Seq(Result)
      /\ added_results \subseteq added_results'
      /\ everything_is_ok =>
            /\ ResultOf(0, ok_entry) \in added_results'
            /\ \A r \in added_results' : r \in added_results \/ r = ResultOf(0, ok_entry)
      /\ ~everything_is_ok /\ skips =>
            /\ ResultOf(0, info_entry) \in added_results'
            /\ \A r \in added_results' : r \in added_results \/ r = ResultOf(0, info_entry)
      /\ ~everything_is_ok /\ ~skips => added_results' = added_results
  <2>1. CASE everything_is_ok
    <3>1. add_result(0, <<ok_entry>>)
      BY <1>1, <2>1
    <3> QED
      BY <1>3, <2>1, <3>1, ClosingResult, ClosingEntries
  <2>2. CASE ~everything_is_ok /\ skips
    <3>1. add_result(0, <<info_entry>>)
      BY <1>1, <2>2 DEF When
    <3> QED
      BY <1>3, <2>2, <3>1, ClosingResult, ClosingEntries
  <2>3. CASE ~everything_is_ok /\ ~skips
    <3>1. add_result(0, <<>>)
      BY <1>1, <2>3 DEF When
    <3> QED
      BY <1>3, <2>3, <3>1, ClosingNothing
  <2> QED
    BY <2>1, <2>2, <2>3
<1>5. findings' = findings
  BY <1>4, ClosingEntries DEF findings
<1>6. /\ TypeOK' /\ RebaseIsLenient' /\ PrivilegedModesReported'
      /\ SkippedRulesAreSilent' /\ IgnoredFilesOnlySecurity'
  BY <1>1, <1>2, <1>3, <1>4, <1>5, ClosingKeeps DEF TypeOK
<1>7. OkIsEarned'
  <2> SUFFICES ASSUME insp \notin {"symlinks", "license", "files", "disttag", "specname"},
                      NEW q \in added_results', q.at = 0, q.severity = RESULT_OK,
                      NEW r \in added_results'
               PROVE  r.severity <= RESULT_INFO
    BY <1>1 DEF OkIsEarned
  <2>1. q \notin added_results
    BY <1>3 DEF Running
  <2>2. everything_is_ok
    BY <1>4, <2>1, ClosingEntries
  <2>3. r \in added_results \/ r = ResultOf(0, ok_entry)
    BY <1>4, <2>2
  <2> QED
    BY <1>3, <2>2, <2>3, OkIsClean, ClosingEntries
<1>8. Account'
  BY <1>1 DEF Account
<1> QED
  BY <1>6, <1>7, <1>8 DEF IInv

\* Every step of an inspection keeps the invariant.
LEMMA NextKeeps == IInv /\ [Next]_vars => IInv'
<1> SUFFICES ASSUME IInv, [Next]_vars
             PROVE  IInv'
  OBVIOUS
<1>1. CASE Terminated \/ UNCHANGED vars
  <2>1. UNCHANGED vars
    BY <1>1 DEF Terminated
  <2>2. UNCHANGED <<insp, settings, files, rebase_build, idx, result, reported, results, returned>>
    BY <2>1 DEF vars
  <2>3. added_results' = added_results /\ findings' = findings
    BY <2>2 DEF added_results, findings
  <2>4. /\ earlier' = earlier /\ (ready' <=> ready)
    BY <2>2 DEF earlier, skipped, ready, needs
  <2>5. TypeOK' /\ RebaseIsLenient' /\ PrivilegedModesReported'
    BY <2>2, <2>3 DEF IInv, TypeOK, RebaseIsLenient, PrivilegedModesReported
  <2>6. SkippedRulesAreSilent' /\ IgnoredFilesOnlySecurity'
    BY <2>2, <2>3
       DEF IInv, SkippedRulesAreSilent, IgnoredFilesOnlySecurity, ForSecurity, of_packages,
           own_loop
  <2>7. OkIsEarned'
    BY <2>2, <2>3 DEF IInv, OkIsEarned
  <2>8. Account'
    BY <2>2, <2>3, <2>4
       DEF IInv, Account, Running, Remembered, Mute, FailsSilently, specgood, jar_result,
           unhandled
  <2> QED
    BY <2>5, <2>6, <2>7, <2>8 DEF IInv
<1> QED
  BY <1>1, UnreadyKeeps, SkipKeeps, InspectKeeps, ReturnKeeps DEF Next

-----------------------------------------------------------------------------

\* The variables of an inspection keep within their types.
THEOREM TypeCorrect == Spec => []TypeOK
<1>1. IInv => TypeOK
  BY DEF IInv
<1> QED
  BY InitHolds, NextKeeps, <1>1, PTL DEF Spec

\* Of any setuid or setgid file that is not on the fileinfo list, in any list
\* of files, the permission checks tell the security team.
THEOREM PrivilegesAreReported == Spec => []PrivilegedModesReported
<1>1. IInv => PrivilegedModesReported
  BY DEF IInv
<1> QED
  BY InitHolds, NextKeeps, <1>1, PTL DEF Spec

\* In a rebase the comparing inspections fail no file, but for a removed one
\* that a security rule names.
THEOREM RebasesAreLenient == Spec => []RebaseIsLenient
<1>1. IInv => RebaseIsLenient
  BY DEF IInv
<1> QED
  BY InitHolds, NextKeeps, <1>1, PTL DEF Spec

\* A file whose rules all say skip is not left to the security team, by
\* whichever inspection.
THEOREM RulesSilence == Spec => []SkippedRulesAreSilent
<1>1. IInv => SkippedRulesAreSilent
  BY DEF IInv
<1> QED
  BY InitHolds, NextKeeps, <1>1, PTL DEF Spec

\* Of an ignored file no inspection tells anyone but the security team more
\* than a note.
THEOREM IgnoredIsSecurity == Spec => []IgnoredFilesOnlySecurity
<1>1. IInv => IgnoredFilesOnlySecurity
  BY DEF IInv
<1> QED
  BY InitHolds, NextKeeps, <1>1, PTL DEF Spec

\* An inspection that says OK of everything added nothing above INFO.
THEOREM OkMeansFine == Spec => []OkIsEarned
<1>1. IInv => OkIsEarned
  BY DEF IInv
<1> QED
  BY InitHolds, NextKeeps, <1>1, PTL DEF Spec

-----------------------------------------------------------------------------

(***************************************************************************)
(* What fails an inspection is in its results.                             *)
(***************************************************************************)

\* A report is among the results that are new.
LEMMA NewPosition ==
    ASSUME NEW at \in Nat, NEW added \in Seq(EntryType), NEW k \in DOMAIN added,
           results \in Seq(Result), add_result(at, added)
    PROVE  \E n \in Len(results) + 1 .. Len(results') :
              results'[n].at = at /\ results'[n].severity = added[k].severity
<1> DEFINE new == [n \in DOMAIN added |-> ResultOf(at, added[n])]
<1>1. results' = results \o new
  BY DEF add_result, ResultOf
<1>2. \A n \in DOMAIN added : ResultOf(at, added[n]) \in Result
  <2>1. \A n \in DOMAIN added : added[n] \in EntryType
    OBVIOUS
  <2> QED
    BY <2>1 DEF EntryType, Result, ResultOf
<1>3. DOMAIN added = 1 .. Len(added) /\ Len(added) \in Nat /\ Len(results) \in Nat
  OBVIOUS
<1>4. new \in Seq(Result) /\ Len(new) = Len(added) /\ new[k] = ResultOf(at, added[k])
  BY <1>2, <1>3
<1> HIDE DEF new
<1>5. ASSUME NEW s \in Seq(Result), NEW t \in Seq(Result)
      PROVE  /\ Len(s \o t) = Len(s) + Len(t)
             /\ \A n \in 1 .. Len(t) : (s \o t)[Len(s) + n] = t[n]
  OBVIOUS
<1>6. Len(results') = Len(results) + Len(added) /\ results'[Len(results) + k] = new[k]
  BY <1>1, <1>3, <1>4, <1>5
<1>7. Len(results) + k \in Len(results) + 1 .. Len(results')
  BY <1>3, <1>6
<1>8. new[k].at = at /\ new[k].severity = added[k].severity
  BY <1>4 DEF ResultOf
<1> QED
  BY <1>6, <1>7, <1>8

\* A file that fails the inspection is reported.
LEMMA InspectExplains ==
    ASSUME IInv, Inspect
    PROVE  Explained
<1> DEFINE f == files[idx]
           v == driver(f)
<1> TypeOK /\ Account
  BY DEF IInv
<1>1. /\ ~returned /\ returned' = returned /\ Running /\ idx \in Nat \ {0}
      /\ idx \in DOMAIN files /\ Says(f, v)
      /\ result' = ((result \/ insp \in {"files", "disttag"}) /\ v.ok)
      /\ add_result(idx, v.added) /\ results \in Seq(Result)
  BY InspectAdds
<1> HIDE DEF v
<1>2. SUFFICES ASSUME result, ~result', ~NoReason
               PROVE  \E n \in Len(results) + 1 .. Len(results') :
                         results'[n].at = idx /\ results'[n].severity >= RESULT_INFO
  BY <1>1 DEF Explained
<1>3. ~v.ok
  BY <1>1, <1>2
<1>4. v.added # <<>>
  <2>1. ~FailsSilently(f) /\ ~(insp = "changedfiles" /\ f.security /\ reported)
    BY <1>1, <1>2 DEF NoReason
  <2>2. ~(insp = "unicode" /\ ToSecurity(results))
    BY <1>1, <1>2 DEF Running, Remembered, ToSecurity, added_results
  <2>3. ~(insp = "javabytecode" /\ ~jar_result) /\ ~(insp = "patches" /\ unhandled)
    BY <1>1, <1>2 DEF Running, Remembered
  <2> QED
    BY <1>1, <1>3, <2>1, <2>2, <2>3 DEF Says
<1>5. v.added \in Seq(Fit(f)) /\ Fit(f) \subseteq EntryType
  BY <1>1 DEF Says, Fit
<1> HIDE DEF f
<1>6. PICK k \in DOMAIN v.added : v.added[k].severity >= RESULT_INFO
  <2>1. CASE insp = "annocheck"
    <3>1. PICK k \in DOMAIN v.added : v.added[k].severity >= RESULT_VERIFY
      BY <1>1, <1>3, <2>1 DEF Says, Failing
    <3>2. v.added[k].severity \in RESULT_NULL .. RESULT_BAD
      BY <1>5 DEF EntryType
    <3> QED
      BY <3>1, <3>2 DEF RESULT_NULL, RESULT_INFO, RESULT_VERIFY, RESULT_BAD
  <2>2. CASE insp # "annocheck"
    <3>1. 1 \in DOMAIN v.added /\ v.added[1] \in Fit(f)
      BY <1>4, <1>5
    <3>2. v.added[1].severity \in Reportable
      BY <2>2, <3>1 DEF Fit
    <3> QED
      BY <3>1, <3>2 DEF Reportable, RESULT_INFO, RESULT_VERIFY, RESULT_BAD
  <2> QED
    BY <2>1, <2>2
<1>7. v.added \in Seq(EntryType)
  BY <1>5
<1> DEFINE added == v.added
<1>8. /\ added \in Seq(EntryType) /\ k \in DOMAIN added /\ add_result(idx, added)
      /\ added[k].severity >= RESULT_INFO
  BY <1>1, <1>6, <1>7
<1> HIDE DEF added
<1>9. \E n \in Len(results) + 1 .. Len(results') :
         results'[n].at = idx /\ results'[n].severity = added[k].severity
  BY <1>1, <1>8, NewPosition
<1> QED
  BY <1>8, <1>9

\* An inspection that cannot start says so, or is not configured.
LEMMA UnreadyExplains ==
    ASSUME IInv, Unready
    PROVE  Explained
<1>1. /\ ~ready /\ add_result(0, needs[insp].added) /\ returned' = TRUE
      /\ result' = needs[insp].ok /\ UNCHANGED <<insp, settings>>
  BY DEF Unready
<1>2. insp \in DOMAIN needs /\ results \in Seq(Result) /\ (ready' <=> ready)
  BY <1>1 DEF ready, needs, IInv, TypeOK
<1>3. CASE insp \in {"javabytecode", "annocheck"}
  <2>1. insp = "annocheck" => needs[insp] = Quiet
    BY DEF needs
  <2>2. Quiet.ok = TRUE
    BY DEF Quiet, Verdict
  <2> QED
    BY <1>1, <1>2, <1>3, <2>1, <2>2 DEF Explained, NoReason, NothingSaid
<1>4. CASE insp \notin {"javabytecode", "annocheck"}
  <2>1. \E e \in EntryType : needs[insp].added = <<e>>
    <3>1. CASE insp = "udevrules"
      <4>1. needs[insp] = Verdict(TRUE, <<Entry(RESULT_SKIP, "none")>>)
        BY <3>1 DEF needs
      <4> QED
        BY <4>1, ClosingEntries DEF Verdict
    <3>2. CASE insp \in {"changelog", "modularity", "upstream", "patches"}
      <4>1. needs[insp] = Verdict(TRUE, <<Entry(RESULT_INFO, "not")>>)
        BY <3>2 DEF needs, Inform
      <4> QED
        BY <4>1, ClosingEntries DEF Verdict
    <3>3. CASE insp = "license"
      <4>1. needs[insp] = Verdict(FALSE, <<Entry(RESULT_BAD, "not")>>)
        BY <3>3 DEF needs, Final
      <4> QED
        BY <4>1, ClosingEntries DEF Verdict
    <3>4. CASE insp \in {"politics", "lto", "badfuncs"}
      <4>1. needs[insp] = Verdict(TRUE, <<Entry(RESULT_OK, "none")>>)
        BY <3>4 DEF needs
      <4> QED
        BY <4>1, ClosingEntries DEF Verdict
    <3> QED
      BY <1>2, <1>4, <3>1, <3>2, <3>3, <3>4 DEF needs
  <2>2. PICK e \in EntryType : needs[insp].added = <<e>>
    BY <2>1
  <2>3. ~result' => insp = "license"
    <3>1. insp = "udevrules" => needs[insp] = Verdict(TRUE, <<Entry(RESULT_SKIP, "none")>>)
      BY DEF needs
    <3>2. insp \in {"changelog", "modularity", "upstream", "patches"}
            => needs[insp] = Verdict(TRUE, Inform)
      BY DEF needs
    <3>3. insp \in {"politics", "lto", "badfuncs"}
            => needs[insp] = Verdict(TRUE, <<Entry(RESULT_OK, "none")>>)
      BY DEF needs
    <3> QED
      BY <1>1, <1>2, <1>4, <3>1, <3>2, <3>3 DEF needs, Verdict
  <2>4. insp = "license" => e.severity = RESULT_BAD
    <3>1. insp = "license" => needs[insp] = Verdict(FALSE, <<Entry(RESULT_BAD, "not")>>)
      BY DEF needs, Final
    <3> QED
      BY <2>2, <3>1 DEF Verdict, Entry
  <2> DEFINE added == needs[insp].added
  <2>5. added \in Seq(EntryType) /\ 1 \in DOMAIN added /\ added[1] = e
    BY <2>2
  <2>6. add_result(0, added)
    BY <1>1
  <2> HIDE DEF added
  <2>7. ResultOf(0, e) \in added_results'
    BY <1>2, <2>5, <2>6, AddedResults
  <2>8. \E n \in Len(results) + 1 .. Len(results') :
           results'[n].at = 0 /\ results'[n].severity = e.severity
    BY <1>2, <2>5, <2>6, NewPosition
  <2>9. RESULT_BAD >= RESULT_INFO
    BY DEF RESULT_BAD, RESULT_INFO
  <2> QED
    BY <1>1, <2>3, <2>4, <2>7, <2>8, <2>9 DEF Explained
<1> QED
  BY <1>3, <1>4

\* At its end an inspection fails only for want of a spec file, and says so.
LEMMA ReturnExplains ==
    ASSUME IInv, Return
    PROVE  Explained
<1> DEFINE info_entry == Entry(RESULT_INFO, "not")
<1>1. /\ ready /\ idx \notin DOMAIN files /\ ~returned /\ returned' = TRUE
      /\ add_result(0, IF everything_is_ok THEN <<Entry(RESULT_OK, "none")>>
                       ELSE When(skips, <<info_entry>>))
      /\ UNCHANGED <<insp, settings, files, rebase_build, idx, reported>>
  BY DEF Return, skips, Inform
<1>2. TypeOK /\ Running /\ results \in Seq(Result)
  BY <1>1 DEF IInv, Account, TypeOK
<1>3. NothingSaid' <=> NothingSaid
  BY <1>1 DEF NothingSaid, FailsSilently, ready, needs, earlier, skipped
<1>4. ASSUME ~NothingSaid
      PROVE  added_results' # {}
  <2>1. CASE everything_is_ok
    <3>1. add_result(0, <<Entry(RESULT_OK, "none")>>)
      BY <1>1, <2>1
    <3> QED
      BY <1>2, <3>1, ClosingResult, ClosingEntries
  <2>2. CASE ~everything_is_ok /\ skips
    <3>1. add_result(0, <<info_entry>>)
      BY <1>1, <2>2 DEF When
    <3> QED
      BY <1>2, <3>1, ClosingResult, ClosingEntries
  <2>3. CASE ~everything_is_ok /\ ~skips
    <3>1. add_result(0, <<>>)
      BY <1>1, <2>3 DEF When
    <3>2. added_results' = added_results
      BY <1>2, <3>1, ClosingNothing
    <3> QED
      BY <1>1, <1>2, <1>4, <2>3, <3>2, NotOkIsSaid
  <2> QED
    BY <2>1, <2>2, <2>3
<1>5. ASSUME result, ~result'
      PROVE  insp = "files" /\ ~seen
  <2>1. insp = "unicode" => result' = (result \/ skips)
    BY DEF Return, skips
  <2>2. insp = "specname" => result' = (specgood \/ skips)
    BY DEF Return, skips
  <2>3. insp = "files" => result' = (result /\ seen)
    BY DEF Return
  <2>4. insp \notin {"unicode", "specname", "files"} => result' = result
    BY DEF Return
  <2>5. insp = "specname" /\ ~specgood /\ ~skips => ~result
    BY <1>2 DEF Running, Remembered, skips, seen
  <2> QED
    BY <1>5, <2>1, <2>2, <2>3, <2>4, <2>5
<1>6. ASSUME result, ~result'
      PROVE  \E n \in Len(results) + 1 .. Len(results') :
                results'[n].at = 0 /\ results'[n].severity >= RESULT_INFO
  <2>1. ~everything_is_ok /\ skips
    BY <1>5, <1>6, WhoSaysOk DEF skips
  <2> DEFINE added == <<info_entry>>
  <2>2. add_result(0, added)
    BY <1>1, <2>1 DEF When
  <2>3. added \in Seq(EntryType) /\ 1 \in DOMAIN added /\ added[1].severity = RESULT_INFO
    BY ClosingEntries DEF Entry
  <2> HIDE DEF added
  <2>4. \E n \in Len(results) + 1 .. Len(results') :
           results'[n].at = 0 /\ results'[n].severity = RESULT_INFO
    BY <1>2, <2>2, <2>3, NewPosition
  <2> QED
    BY <2>4 DEF RESULT_INFO
<1> QED
  BY <1>1, <1>3, <1>4, <1>6 DEF Explained

\* In any list of files, the file whose failure makes the inspection fail has
\* a finding of its own, but for what fails without a reason, and no
\* inspection that says nothing returns.
THEOREM FailuresAreExplained == Spec => FailureIsExplained
<1>1. IInv /\ [Next]_vars => [Explained]_vars
  <2> SUFFICES ASSUME IInv, Next, ~UNCHANGED vars
               PROVE  Explained
    OBVIOUS
  <2>1. CASE Skip
    <3>1. ~returned' /\ result' = result
      BY <2>1 DEF Skip, IInv, Account
    <3> QED
      BY <3>1 DEF Explained
  <2> QED
    BY <2>1, UnreadyExplains, InspectExplains, ReturnExplains DEF Next, Terminated
<1> QED
  BY InitHolds, NextKeeps, <1>1, PTL DEF Spec, FailureIsExplained
=============================================================================
