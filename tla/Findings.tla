------------------------------ MODULE Findings ------------------------------
(***************************************************************************)
(* What an inspection adds to the results, and what the driver of one file *)
(* returns: severities, who may waive, and the security rules of a file.   *)
(***************************************************************************)
EXTENDS Integers, Sequences

RESULT_NULL == 0
RESULT_SKIP == 2
RESULT_OK == 3
RESULT_INFO == 4
RESULT_VERIFY == 5
RESULT_BAD == 6

\* What one call of a driver returns and adds.
Entry(severity, waiverauth) == [severity |-> severity, waiverauth |-> waiverauth]
Verdict(ok, added) == [ok |-> ok, added |-> added]
Quiet == Verdict(TRUE, <<>>)
When(condition, added) == IF condition THEN added ELSE <<>>
Times(n, added) == [i \in 1 .. n |-> added[1]]

Inform == <<Entry(RESULT_INFO, "not")>>
Verify == <<Entry(RESULT_VERIFY, "anyone")>>
Bad == <<Entry(RESULT_BAD, "anyone")>>
Final == <<Entry(RESULT_BAD, "not")>>
Failing(added) == \E i \in DOMAIN added : added[i].severity >= RESULT_VERIFY

get_secrule_result_severity(f, type) ==
    IF type \in DOMAIN f.rules THEN f.rules[type] ELSE RESULT_BAD

\* Faulty variant: a rule that says skip is reported.
SecurityNotSkipped(f, type) ==
    <<Entry(get_secrule_result_severity(f, type), "security")>>

\* What a violated security rule adds: nothing if the rule says skip.
Security(f, type) ==
    LET severity == get_secrule_result_severity(f, type) IN
    When(severity \notin {RESULT_NULL, RESULT_SKIP}, <<Entry(severity, "security")>>)
=============================================================================
