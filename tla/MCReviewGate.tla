---------------------------- MODULE MCReviewGate ----------------------------
(* TLC instances of ReviewGate.                                            *)
EXTENDS ReviewGate

CONSTANTS f1, f2

MCFiles == {f1, f2}
=============================================================================
