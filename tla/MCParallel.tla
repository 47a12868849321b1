----------------------------- MODULE MCParallel -----------------------------
(* Three children for two slots: a slot is reused, and two are ready at once. *)
EXTENDS ParallelClient
CONSTANTS p1, p2, p3
MCProcs == {p1, p2, p3}
=============================================================================
