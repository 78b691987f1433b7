--------------------------- MODULE MCRunRegistry ---------------------------
(* TLC instances of RunRegistry: two torn-down runs and an ask.            *)
EXTENDS RunRegistry

CONSTANTS r1, r2, r3

MCRuns == {r1, r2, r3}
MCTorn == {r1, r2}
=============================================================================
