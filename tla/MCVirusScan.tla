---------------------------- MODULE MCVirusScan ----------------------------
(* Two children share three files: the first child has two to scan.  No     *)
(* text, the name of the first file's virus, or the path in the second file *)
(* comes to four bytes.                                                     *)
EXTENDS VirusScan
MCProcs == 0 .. 1
MCNoProc == -1
MCBuilds == {<<fh[1], g, fh[2]>> :
                 fh \in {<<"BAD", "BAD">>, <<"irregular", "BAD">>, <<"irregular", "INFO">>},
                 g \in {"INFO", "SKIP", "clean", "error"}}
NoneFour == [f \in 1 .. 3 |-> {}]
MCTexts == {NoneFour, [NoneFour EXCEPT ![1] = {Name}], [NoneFour EXCEPT ![2] = {Path}]}
=============================================================================
