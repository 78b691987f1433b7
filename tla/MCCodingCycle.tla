---------------------------- MODULE MCCodingCycle ----------------------------
(* A known source file, a new one, one .gitignore leaves out, one in a cache *)
(* directory, a style sheet; in tests/unit a known test and a new one; and   *)
(* two names of core that do not start with src/.  The plans: an edit and a  *)
(* new file; a new file no step announces; a new file, a known test it only  *)
(* has to pass, an out-of-scope file; a plan at odds with itself; a new      *)
(* test, announced or not; an out-of-scope test; files git does not show; a  *)
(* style sheet no step edits; one whose acceptance command may not run.      *)
EXTENDS CodingCycle

MCNames == Paths \cup {"tests/../core", "docs/../core"}
MCFile == [n \in Names |-> IF n \in Paths THEN n ELSE "core"]
MCDir == [p \in Paths |-> CASE p \in {"core", "gen", "style"} -> "src/"
                            [] p = "new" -> "src/lib/"
                            [] p \in {"test", "check"} -> "tests/unit/"
                            [] p = "pyc" -> "src/__pycache__/"]

MCStep(f, c) == [files |-> f, creates |-> c]
MCPlan(s, t, o, r) == [steps |-> s, touch |-> t, oos |-> o, runnable |-> r]

MCPlans == {
    MCPlan(<<MCStep({"core"}, FALSE), MCStep({"new"}, TRUE)>>,
           {"core", "new"}, {}, TRUE),
    MCPlan(<<MCStep({"new"}, FALSE)>>, {"new"}, {"core"}, TRUE),
    MCPlan(<<MCStep({"new"}, TRUE)>>, {"new", "test"}, {"core"}, TRUE),
    MCPlan(<<MCStep({"new"}, TRUE)>>, {"new"}, {"core", "new"}, TRUE),
    MCPlan(<<MCStep({"core"}, FALSE), MCStep({"check"}, TRUE)>>,
           {"core", "check"}, {"new"}, TRUE),
    MCPlan(<<MCStep({"check"}, FALSE)>>, {"check"}, {}, TRUE),
    MCPlan(<<MCStep({"core"}, FALSE)>>, {"core"}, {"test"}, TRUE),
    MCPlan(<<MCStep({"gen", "pyc"}, TRUE)>>, {"gen", "pyc"}, {}, TRUE),
    MCPlan(<<MCStep({"new"}, TRUE)>>, {"new", "style"}, {}, TRUE),
    MCPlan(<<MCStep({"core"}, FALSE), MCStep({"test"}, FALSE)>>,
           {"core", "test"}, {}, FALSE) }

\* A ticket without a template, one whose template names a missing file, and a
\* COMPLEX one whose template edits an existing test and is refused each time.
MCTickets == {
    [template |-> NoPlan, complex |-> FALSE],
    [template |-> MCPlan(<<MCStep({"new"}, FALSE)>>, {"new"}, {}, TRUE),
     complex |-> FALSE],
    [template |-> MCPlan(<<MCStep({"test"}, FALSE)>>, {"test"}, {}, TRUE),
     complex |-> TRUE] }
=============================================================================
