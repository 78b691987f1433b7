---------------------------- MODULE MCRunRecords ----------------------------
(* TLC instance of RunRecords: two stories, and a ticket run beside them.  *)
EXTENDS RunRecords

=============================================================================
