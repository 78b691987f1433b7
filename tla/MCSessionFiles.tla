--------------------------- MODULE MCSessionFiles ---------------------------
(* TLC instance of SessionFiles.                                           *)
EXTENDS SessionFiles

CONSTANTS s1, s2

MCSessions == {s1, s2}

MCElders == {s2}
=============================================================================
