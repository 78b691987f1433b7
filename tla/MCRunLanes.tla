----------------------------- MODULE MCRunLanes -----------------------------
(* TLC instances of RunLanes: two runs, so that one may be torn down or    *)
(* cancelled while the other is admitted.                                  *)
EXTENDS RunLanes

CONSTANTS r1, r2

MCRuns == {r1, r2}
MCOnlyRuns == {r1, r2}
=============================================================================
