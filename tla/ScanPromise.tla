---------------------------- MODULE ScanPromise ----------------------------
(***************************************************************************)
(* What the virus inspection promises, without its children and pipes: it  *)
(* looks at the files of the build, adds one result for each infected file *)
(* the security rules do not tell it to skip, and passes or fails by the   *)
(* worst of them.  It may abort the program, or find that it cannot scan   *)
(* at all.  Infections may go unreported only when as many others as the   *)
(* cap on them were found.                                                 *)
(*                                                                         *)
(* That much holds while what the children send arrives as it was meant.   *)
(* If a text about an infected file comes to four bytes, or the terminal   *)
(* was resized, results may be missing, and the program may even crash;    *)
(* but no file is ever reported that is not infected, or twice.            *)
(***************************************************************************)
EXTENDS Naturals, FiniteSets

CONSTANTS NFiles, Cap

VARIABLES
    kind,       \* what a scan of each file finds, and its rule's severity
    four,       \* which of the two texts about each file come to four bytes
    resized,    \* the terminal was resized
    added,      \* how many results were added for each file
    outcome     \* "running", then how the inspection ended

promiseVars == <<kind, four, resized, added, outcome>>

Files == 1 .. NFiles
Infected == {f \in Files : kind[f] \in {"BAD", "INFO", "SKIP"}}
Due == {f \in Infected : kind[f] # "SKIP"}
Missing == {f \in Due : added[f] = 0}

\* What is sent need not be what is meant.
Unsafe == resized \/ \E f \in Infected : four[f] # {}

Init ==
    /\ kind \in [Files -> {"BAD", "INFO", "SKIP", "clean", "irregular", "error"}]
    /\ four \in [Files -> SUBSET {1, 3}]
    /\ resized = FALSE
    /\ added = [f \in Files |-> 0]
    /\ outcome = "running"

Resize ==
    /\ resized' = TRUE
    /\ UNCHANGED <<kind, four, added, outcome>>

AddResults(S) ==
    /\ outcome = "running"
    /\ \A f \in S : added[f] = 0
    /\ added' = [f \in Files |-> IF f \in S THEN 1 ELSE added[f]]
    /\ UNCHANGED <<kind, four, resized, outcome>>

\* Passed or failed: nothing that was due is missing, unless as many other
\* infections as the cap allows were found.
Finish ==
    /\ outcome = "running"
    /\ Missing # {} => Unsafe \/ Cardinality(Infected \ Missing) >= Cap
    /\ \A f \in Files : kind[f] # "error"
    /\ outcome' = IF \E f \in Files : added[f] > 0 /\ kind[f] = "BAD" THEN "failed" ELSE "passed"
    /\ UNCHANGED <<kind, four, resized, added>>

CannotScan ==
    /\ outcome = "running" /\ \A f \in Files : added[f] = 0
    /\ outcome' = "skipped"
    /\ UNCHANGED <<kind, four, resized, added>>

\* For a failure, or because a signal interrupted a system call.
Abort ==
    /\ outcome = "running"
    /\ outcome' = "aborted"
    /\ resized' \in {resized, TRUE}
    /\ UNCHANGED <<kind, four, added>>

Crash ==
    /\ outcome = "running" /\ Unsafe
    /\ outcome' = "crashed"
    /\ UNCHANGED <<kind, four, resized, added>>

Next ==
    \/ \E S \in SUBSET Due : AddResults(S)
    \/ Finish
    \/ CannotScan
    \/ Abort
    \/ Crash
    \/ Resize

Spec == Init /\ [][Next]_promiseVars
=============================================================================
