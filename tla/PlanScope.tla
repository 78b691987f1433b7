------------------------------ MODULE PlanScope ------------------------------
(* The rules that say which files a TaskPlan lets the Coder and the Tester   *)
(* write, and which files it demands: orchestrator/plan_validation.py (is    *)
(* the plan acceptable), plan_coverage.py (may this file be written; has     *)
(* every planned file been changed) and the scope a failed attempt is        *)
(* retried with (retry.py).                                                  *)
(*                                                                           *)
(* A working copy is a function "tree": each file is as HEAD has it ("same"; *)
(* absent when HEAD does not have it), changed or created ("edited"), or     *)
(* deleted ("gone"), and each directory is "there" or "gone".  A plan is a   *)
(* sequence of steps, each with its files and whether its description speaks *)
(* of a new file, with files_to_touch, out_of_scope and whether its          *)
(* acceptance commands pass the allow-list.                                  *)
(*                                                                           *)
(* Plans and tools speak of files by names.  normalize_path leaves ".." in a *)
(* name and the rules compare names, but the tools write the file a name     *)
(* resolves to: "tests/../src/core.py" is a test to the rules.  Names whose  *)
(* first dot normalize_path takes off (".github/..."), names of directories  *)
(* and names through a directory that may go are not modelled, nor are       *)
(* directories in one another.                                               *)
EXTENDS Integers, FiniteSets, Sequences

CONSTANTS
    Paths,      \* the files a plan, an agent or a command may write
    Names,      \* what they may be called: their own names and others
    File,       \* the file a name resolves to
    Src,        \* the names that start with "src/"
    Tests,      \* those that start with "tests/"
    Known,      \* the files HEAD has
    Unlisted,   \* those without an indexable suffix
    Dir,        \* the directory a file is in
    Held,       \* the directories in which HEAD has other files
    Ignored,    \* the files .gitignore leaves out
    Noise,      \* the entries of git status is_noise_path drops
    Refused     \* the names resolve_safe_path refuses

Dirs == { Dir[p] : p \in Paths }
\* Those HEAD does not have, and the files in them.
NewDirs == { d \in Dirs \ Held : \A p \in Known : Dir[p] # d }
NewDir == { p \in Paths : Dir[p] \in NewDirs }
\* baseline_paths, taken at session start.
Baseline == Known \ Unlisted

ASSUME PathsAssumption ==
    /\ IsFiniteSet(Names) /\ Paths \subseteq Names
    /\ File \in [Names -> Paths] /\ \A p \in Paths : File[p] = p
    /\ Src \subseteq Names /\ Tests \subseteq Names /\ Src \cap Tests = {}
    /\ Known \subseteq Paths /\ Unlisted \subseteq Known
    /\ DOMAIN Dir = Paths /\ Dirs \cap Names = {} /\ Held \subseteq Dirs
    /\ \A p, q \in Paths : Dir[p] = Dir[q] => (p \in Tests <=> q \in Tests)
    /\ Ignored \subseteq Paths \ Known /\ Noise \subseteq Paths \cup Dirs
    /\ Refused \subseteq Names
    \* code.py:50 takes an empty baseline for none.
    /\ Baseline # {}

Trees == { t \in [Paths \cup Dirs -> {"same", "edited", "gone", "there"}] :
              /\ \A p \in Paths : /\ t[p] # "there"
                                  /\ p \notin Known => t[p] # "gone"
              /\ \A d \in Dirs : t[d] \in {"there", "gone"} }
Step == [files : SUBSET Names, creates : BOOLEAN]
Plan == [steps : Seq(Step), touch : SUBSET Names, oos : SUBSET Names,
         runnable : BOOLEAN]

\* A fresh clone.
Clean == [x \in Paths \cup Dirs |-> IF x \in Paths THEN "same"
                                    ELSE IF x \in NewDirs THEN "gone"
                                    ELSE "there"]

IsFile(t, n) == LET p == File[n]
                IN  t[p] = "edited" \/ (p \in Known /\ t[p] = "same")
HasParent(t, n) == t[Dir[File[n]]] = "there"

\* Making a file makes its directory; patch(1) takes away a directory with the
\* last file in it.
Put(t, p, v) ==
    LET u == [t EXCEPT ![p] = v]
        d == Dir[p]
    IN  [u EXCEPT ![d] =
            IF d \in Held \/ \E q \in Paths : Dir[q] = d /\ IsFile(u, q)
            THEN "there" ELSE "gone"]

-----------------------------------------------------------------------------
(* The plan.                                                                 *)

StepFiles(plan) == UNION { plan.steps[i].files : i \in DOMAIN plan.steps }
Expected(plan) == plan.touch \cup StepFiles(plan)
NeedsNewTests(plan) == Expected(plan) \cap Tests # {}
Creates(plan, n) ==
    \E i \in DOMAIN plan.steps : n \in plan.steps[i].files
                                 /\ plan.steps[i].creates
TestEdit(plan, n) == n \in Tests /\ Creates(plan, n)

AllowedPath(plan, t, n) ==
    \/ n \in Baseline
    \/ IsFile(t, n)
    \/ n \in Tests /\ HasParent(t, n)
    \/ Creates(plan, n)

\* A ticket that is not COMPLEX lets any plan of one step through.
StructureOk(plan, complex) ==
    \/ ~complex /\ Len(plan.steps) <= 1
    \/ plan.touch = {} /\ Len(plan.steps) <= 1
    \/ /\ plan.touch # {}
       /\ StepFiles(plan) \subseteq plan.touch
       /\ \A n \in StepFiles(plan) \cap Tests \cap Baseline : TestEdit(plan, n)
       /\ plan.touch \ StepFiles(plan) \subseteq Tests

ScopeOk(plan) == Expected(plan) \cap plan.oos = {}
PathsOk(plan, t) == \A n \in Expected(plan) : AllowedPath(plan, t, n)

-----------------------------------------------------------------------------
(* check_mutation_allowed: what the Coder's and the Tester's tools accept.   *)

\* Bug: tests are left to the Tester whatever the plan says.
MayEditSourceOnly(plan, n) ==
    n \notin plan.oos /\ n \notin Tests /\ (n \in Src => n \in Expected(plan))
MayEdit(plan, n) ==
    /\ n \notin plan.oos
    /\ n \in Src => n \in Expected(plan)
    /\ n \in Tests => n \in Expected(plan) \/ NeedsNewTests(plan)
\* Bug: the Tester's tools are built without tests_only.
MayTestAnywhere(n) == n \in Names
MayTest(n) == n \in Tests

Removes(p, v) == v = "gone" \/ (p \notin Known /\ v = "same")
\* What the tools do with an admitted name: only a patch removes a file, by its
\* own name (patch(1) refuses ".."), and resolve_safe_path is asked of the
\* names that are written, not of those that are removed.
Takes(n, v) == IF Removes(File[n], v) THEN n \in Paths ELSE n \notin Refused

CanWrite(plan, n) == MayEdit(plan, n) /\ n \notin Refused

-----------------------------------------------------------------------------
(* validate_plan_coverage and what reads it.                                 *)

\* git status --porcelain names a new directory, not the files in it.
Shown(t) ==
    LET dirty == { p \in Paths \ Ignored : t[p] # "same" }
    IN  ((dirty \ NewDir) \cup { Dir[p] : p \in dirty \cap NewDir }) \ Noise
\* The entries that start with "tests/".
TestEntries == Tests \cup { Dir[p] : p \in NewDir \cap Tests }

Ignorable(plan, t, n) ==
    IF n \in Tests THEN IsFile(t, n) /\ ~TestEdit(plan, n)
    ELSE n \notin StepFiles(plan) /\ IsFile(t, n) /\ n \in Baseline

Coverage(plan, t) ==
    LET shown == Shown(t)
        hits == shown \cap plan.oos
        phantom == { n \in Expected(plan) \ (shown \cup Baseline) :
                        ~AllowedPath(plan, t, n) }
        missing == { n \in Expected(plan) \ (shown \cup phantom) :
                        ~Ignorable(plan, t, n) }
    IN  [missing |-> missing, hits |-> hits, phantom |-> phantom,
         unexpected |->
            { p \in shown \ Expected(plan) :
                ~(NeedsNewTests(plan) /\ p \in TestEntries) },
         ok |-> /\ hits = {}
                /\ IF Expected(plan) = {} THEN shown # {} ELSE missing = {}]

\* continuation_makes_sense calls _is_ignorable_missing without a baseline.
ContinueMakesSense(plan, t, c) ==
    /\ c.phantom = {} /\ ~c.ok
    /\ \E n \in c.missing :
          /\ ~(n \in Tests /\ IsFile(t, n) /\ ~TestEdit(plan, n))
          /\ ~IsFile(t, n) \/ n \in StepFiles(plan)

Pressure(c) == Cardinality(c.missing) + Cardinality(c.hits)
Improved(before, after) == after.ok \/ Pressure(after) < Pressure(before)

\* resolve_retry_scope_from_coverage; "none": the reviewer's own verdict says.
ScopeFromCoverage(c, t, passed) ==
    IF c.phantom # {} THEN "plan"
    ELSE IF c.ok THEN "none"
    ELSE IF c.hits # {} THEN "plan"
    ELSE IF passed /\ c.unexpected # {} THEN "code"
    ELSE IF c.missing = {} THEN "none"
    ELSE IF \A n \in c.missing : IsFile(t, n) THEN "plan" ELSE "code"

\* should_invoke_tester, for an acceptance run that is red.
TesterInvited(plan, t) ==
    /\ ~NeedsNewTests(plan)
    /\ Shown(t) \ TestEntries # {}
    /\ Shown(t) \cap TestEntries = {}
=============================================================================
