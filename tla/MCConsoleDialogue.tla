------------------------- MODULE MCConsoleDialogue -------------------------
(* TLC instance of ConsoleDialogue.                                        *)
EXTENDS ConsoleDialogue

CONSTANT q1

MCQuestions == {q1}
=============================================================================
