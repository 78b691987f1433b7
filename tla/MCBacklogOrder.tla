--------------------------- MODULE MCBacklogOrder ---------------------------
(* TLC instance of BacklogOrder: every dependency graph of three stories,   *)
(* self-loops and cycles included, in every order of their keys.            *)
EXTENDS BacklogOrder
=============================================================================
