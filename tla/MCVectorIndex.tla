---------------------------- MODULE MCVectorIndex ----------------------------
(* TLC instance of VectorIndex: two files, so that a pass can fail between   *)
(* them, and two sessions, whose passes meet, overtake one another, and meet *)
(* evictions and the run's.                                                  *)
EXTENDS VectorIndex, TLC

CONSTANTS s1, s2

MCPreparers == {s1, s2}

Sessions == Permutations(MCPreparers)
=============================================================================
