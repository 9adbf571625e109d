-------------------------- MODULE MCFindingsStore --------------------------
(* Two rows to insert, one asset with two keys in extra, one or two          *)
(* processes.                                                                *)
EXTENDS FindingsStore

CONSTANTS p1, p2, r1, r2, k1, k2, v

OneProcess == {p1}
TwoProcesses == {p1, p2}
=============================================================================
