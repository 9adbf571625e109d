--------------------------- MODULE MCRateGovernor ---------------------------
(* Three callers, two permits.                                               *)
EXTENDS RateGovernor

CONSTANTS t1, t2, t3

MCThreads == {t1, t2, t3}
=============================================================================
