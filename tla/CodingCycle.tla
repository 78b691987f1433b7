----------------------------- MODULE CodingCycle -----------------------------
(* One ticket from the accepted plan to the verdict, seen from its working   *)
(* copy: the planning attempts (agents/tech_lead.py, tech_lead_planning.py), *)
(* the Coder's loops with the coverage rounds and the build fix around them  *)
(* (coder.py, coder_coverage.py), the Tester (tester.py, graph/nodes/test.py)*)
(* and the scope a rejected attempt is retried with (graph/nodes/retry.py).  *)
(* SprintGraph takes the coverage result as given; here it is computed from  *)
(* what the agents wrote.                                                    *)
(*                                                                           *)
(* An agent's loop may end after any tool call: turn limit, repeated call,   *)
(* deadline, Stop, a model error, its own hand-off or the early exit on a    *)
(* green acceptance command all lead to the same next step, so the cache     *)
(* behind the early exit changes nothing that is modelled here.              *)
EXTENDS PlanScope

CONSTANTS
    Plans,          \* what the Tech Lead's model may answer
    NoPlan,
    Tickets,        \* [template, complex]: the deterministic plan the text
                    \* yields (or NoPlan), and whether it reads COMPLEX
    MaxTries,       \* max(3, max_plan_retries + 2)
    MaxRounds,      \* max_coverage_rounds
    MaxAttempts,    \* bound: attempts per ticket
    MaxStrays       \* bound: files strayed into

ASSUME CycleAssumption ==
    /\ Plans \subseteq Plan /\ NoPlan \notin Plan
    /\ Tickets \subseteq [template : Plan \cup {NoPlan}, complex : BOOLEAN]
    \* build_template_task_plan: out_of_scope=[].
    /\ \A t \in Tickets : t.template # NoPlan => t.template.oos = {}
    /\ MaxTries \in Nat \ {0} /\ MaxRounds \in Nat
    /\ MaxAttempts \in Nat \ {0} /\ MaxStrays \in Nat

NoCover == [missing |-> {}, hits |-> {}, phantom |-> {}, unexpected |-> {},
            ok |-> FALSE]

VARIABLES
    ticket,     \* the ticket, never changed
    tree,       \* the working copy
    pc,         \* planning, coding, judging, round, accepting, fixing,
                \* testing, tester, review, done, failed
    plan,       \* task_plan
    mode,       \* planning_mode: "template" or "model"
    tries,      \* planning attempts used
    cover,      \* plan_coverage
    prior,      \* prior_coverage of the coverage rounds
    rounds,     \* coverage rounds used
    attempt,    \* attempts used
    scope,      \* retry_scope of the last rejection
    replans,    \* plan_retries
    strayed,    \* files written by a command, or by another name (history)
    tested,     \* tests the Tester wrote by their names (history)
    fixed       \* a build fix ran after cover was taken (history)

vars == <<ticket, tree, pc, plan, mode, tries, cover, prior, rounds, attempt,
          scope, replans, strayed, tested, fixed>>

TypeOK ==
    /\ tree \in Trees
    /\ pc \in {"planning", "coding", "judging", "round", "accepting",
               "fixing", "testing", "tester", "review", "done", "failed"}
    /\ ticket \in Tickets
    /\ plan \in Plans \cup {ticket.template, NoPlan}
    /\ mode \in {"none", "template", "model"}
    /\ tries \in 0..MaxTries /\ rounds \in 0..MaxRounds
    /\ attempt \in 0..MaxAttempts /\ replans \in 0..MaxAttempts
    /\ scope \in {"none", "plan", "code"}
    /\ strayed \subseteq Paths /\ tested \subseteq Paths \cap Tests
    /\ fixed \in BOOLEAN

Init ==
    /\ ticket \in Tickets
    /\ tree = Clean
    /\ pc = "planning" /\ plan = NoPlan /\ mode = "none" /\ tries = 0
    /\ cover = NoCover /\ prior = NoCover /\ rounds = 0
    /\ attempt = 0 /\ scope = "none" /\ replans = 0
    /\ strayed = {} /\ tested = {} /\ fixed = FALSE

-----------------------------------------------------------------------------
(* Planning.                                                                 *)

\* Bugs: the paths are not looked up; out_of_scope is not compared.
ValidAnyPath(p, m) ==
    p.runnable /\ StructureOk(p, ticket.complex) /\ ScopeOk(p)
ValidAnyScope(p, m) ==
    /\ p.runnable /\ StructureOk(p, ticket.complex)
    /\ m = "model" => PathsOk(p, tree)
\* What run_tech_lead_validated asks of a plan before the Coder sees it; the
\* paths of a template plan are not looked up.
Valid(p, m) ==
    /\ p.runnable
    /\ StructureOk(p, ticket.complex)
    /\ ScopeOk(p)
    /\ m = "model" => PathsOk(p, tree)

TemplateRuns == ticket.template # NoPlan /\ ticket.template.runnable

\* run_tech_lead: the template whenever the ticket yields a runnable one.
Offered(p, m) ==
    IF TemplateRuns
    THEN p = ticket.template /\ m = "template"
    ELSE p \in Plans /\ m = "model"

PlanAccepted(p, m) ==
    /\ pc = "planning" /\ tries < MaxTries
    /\ Offered(p, m) /\ Valid(p, m)
    /\ plan' = p /\ mode' = m /\ pc' = "coding"
    /\ tries' = 0 /\ rounds' = 0
    /\ UNCHANGED <<ticket, tree, cover, prior, attempt, scope, replans,
                   strayed, tested, fixed>>

PlanRefused(p, m) ==
    /\ pc = "planning" /\ tries < MaxTries
    /\ Offered(p, m) /\ ~Valid(p, m)
    /\ tries' = tries + 1
    /\ UNCHANGED <<ticket, tree, pc, plan, mode, cover, prior, rounds, attempt,
                   scope, replans, strayed, tested, fixed>>

\* The template again, its paths and scope unchecked; else plan_aborted.
FallBack ==
    /\ pc = "planning" /\ tries = MaxTries
    /\ IF TemplateRuns /\ StructureOk(ticket.template, ticket.complex)
       THEN plan' = ticket.template /\ mode' = "template" /\ pc' = "coding"
       ELSE pc' = "failed" /\ UNCHANGED <<ticket, plan, mode>>
    /\ tries' = 0 /\ rounds' = 0
    /\ UNCHANGED <<ticket, tree, cover, prior, attempt, scope, replans,
                   strayed, tested, fixed>>

-----------------------------------------------------------------------------
(* Tool calls.                                                               *)

CoderRuns == pc \in {"coding", "round", "fixing"}

\* What writing, patching or deleting a file can make of it.
Values(p) == IF p \in Known THEN {"same", "edited", "gone"}
             ELSE {"same", "edited"}
Strays(p) == /\ Cardinality(strayed \cup {p}) <= MaxStrays
             /\ strayed' = strayed \cup {p}

\* write_file / apply_patch behind the plan's gate.
CoderWrites(n, v) ==
    /\ CoderRuns /\ MayEdit(plan, n) /\ Takes(n, v)
    /\ v # tree[File[n]] /\ tree' = Put(tree, File[n], v)
    /\ IF n = File[n] THEN UNCHANGED strayed ELSE Strays(File[n])
    /\ UNCHANGED <<ticket, pc, plan, mode, tries, cover, prior, rounds,
                   attempt, scope, replans, tested, fixed>>

\* The Tester's gate knows tests/ and not the plan.
TesterWrites(n, v) ==
    /\ pc = "tester" /\ MayTest(n) /\ Takes(n, v)
    /\ v # tree[File[n]] /\ tree' = Put(tree, File[n], v)
    /\ IF n = File[n] THEN tested' = tested \cup {n} /\ UNCHANGED strayed
       ELSE Strays(File[n]) /\ UNCHANGED tested
    /\ UNCHANGED <<ticket, pc, plan, mode, tries, cover, prior, rounds,
                   attempt, scope, replans, fixed>>

\* run_command: an allow-listed program writes what it likes, and makes, removes
\* or leaves an empty directory.
CommandWrites(p, v) ==
    /\ CoderRuns \/ pc = "tester"
    /\ Strays(p)
    /\ \/ tree' = Put(tree, p, v)
       \/ tree' = [tree EXCEPT ![p] = v, ![Dir[p]] = "there"]
    /\ UNCHANGED <<ticket, pc, plan, mode, tries, cover, prior, rounds,
                   attempt, scope, replans, tested, fixed>>

-----------------------------------------------------------------------------
(* run_coder_with_coverage.                                                  *)

\* The Coder's plan run is over.
CodingEnds ==
    /\ pc = "coding"
    /\ cover' = Coverage(plan, tree) /\ prior' = cover'
    /\ rounds' = 0 /\ fixed' = FALSE /\ pc' = "judging"
    /\ UNCHANGED <<ticket, tree, plan, mode, tries, attempt, scope, replans,
                   strayed, tested>>

RoundBegins ==
    /\ pc = "judging" /\ rounds < MaxRounds
    /\ ContinueMakesSense(plan, tree, cover)
    /\ pc' = "round" /\ rounds' = rounds + 1
    /\ UNCHANGED <<ticket, tree, plan, mode, tries, cover, prior, attempt,
                   scope, replans, strayed, tested, fixed>>

\* A round that gains nothing on the round before the last is the last one.
RoundEnds ==
    /\ pc = "round"
    /\ cover' = Coverage(plan, tree)
    /\ IF Improved(prior, cover')
       THEN prior' = cover /\ pc' = "judging"
       ELSE prior' = prior /\ pc' = "accepting"
    /\ UNCHANGED <<ticket, tree, plan, mode, tries, rounds, attempt, scope,
                   replans, strayed, tested, fixed>>

\* Covered, hopeless, out of rounds, past the deadline or stopped.
RoundsEnd ==
    /\ pc = "judging" /\ pc' = "accepting"
    /\ UNCHANGED <<ticket, tree, plan, mode, tries, cover, prior, rounds,
                   attempt, scope, replans, strayed, tested, fixed>>

\* A red run the Tester cannot help with gives the Coder one more loop; what
\* that loop writes is not covered again.
BuildFix ==
    /\ pc = "accepting" /\ cover.ok
    /\ pc' = "fixing" /\ fixed' = TRUE
    /\ UNCHANGED <<ticket, tree, plan, mode, tries, cover, prior, rounds,
                   attempt, scope, replans, strayed, tested>>

CodingOver ==
    /\ pc \in {"accepting", "fixing"}
    /\ pc' = "testing" /\ prior' = NoCover
    /\ UNCHANGED <<ticket, tree, plan, mode, tries, cover, rounds, attempt,
                   scope, replans, strayed, tested, fixed>>

-----------------------------------------------------------------------------
(* The Tester and the verdict.                                               *)

\* The acceptance run is red and there is a test gap.
TesterInvitedIn ==
    /\ pc = "testing" /\ TesterInvited(plan, tree)
    /\ pc' = "tester"
    /\ UNCHANGED <<ticket, tree, plan, mode, tries, cover, prior, rounds,
                   attempt, scope, replans, strayed, tested, fixed>>

TestingOver ==
    /\ pc \in {"testing", "tester"}
    /\ pc' = "review"
    /\ UNCHANGED <<ticket, tree, plan, mode, tries, cover, prior, rounds,
                   attempt, scope, replans, strayed, tested, fixed>>

Accepted ==
    /\ pc = "review" /\ cover.ok
    /\ pc' = "done"
    /\ UNCHANGED <<ticket, tree, plan, mode, tries, cover, prior, rounds,
                   attempt, scope, replans, strayed, tested, fixed>>

\* prepare_retry: the coverage decides where it can, the reviewer elsewhere.
Rejected(passed, verdict) ==
    /\ pc = "review" /\ (cover.ok => ~passed)
    /\ LET s == ScopeFromCoverage(cover, tree, passed)
       IN  scope' = IF s # "none" THEN s
                    ELSE IF passed THEN "code" ELSE verdict
    /\ IF attempt + 1 = MaxAttempts
       THEN pc' = "failed" /\ UNCHANGED <<ticket, attempt, replans>>
       ELSE /\ attempt' = attempt + 1
            /\ replans' = replans + (IF scope' = "plan" THEN 1 ELSE 0)
            /\ pc' = IF scope' = "plan" THEN "planning" ELSE "coding"
    /\ UNCHANGED <<ticket, tree, plan, mode, tries, cover, prior, rounds,
                   strayed, tested, fixed>>

Next ==
    \/ \E p \in Plans \cup {ticket.template}, m \in {"template", "model"} :
          PlanAccepted(p, m) \/ PlanRefused(p, m)
    \/ FallBack
    \/ \E n \in Names : \E v \in Values(File[n]) :
          CoderWrites(n, v) \/ TesterWrites(n, v)
    \/ \E p \in Paths : \E v \in Values(p) : CommandWrites(p, v)
    \/ CodingEnds \/ RoundBegins \/ RoundEnds \/ RoundsEnd
    \/ BuildFix \/ CodingOver \/ TesterInvitedIn \/ TestingOver
    \/ Accepted
    \/ \E passed \in BOOLEAN, verdict \in {"plan", "code"} :
          Rejected(passed, verdict)

Spec == Init /\ [][Next]_vars

-----------------------------------------------------------------------------
(* Properties.                                                               *)

\* The coverage has just been taken: nothing was written since.
Judged == pc \in {"judging", "accepting"}

\* A plan whose paths were looked up is never reported covered while one of its
\* files was neither there nor made: the planner's rule for a new path
\* (is_allowed_plan_path) and the coverage's rule for a phantom one agree.  But
\* for a test that was let into the plan for its directory alone: it is phantom
\* once the last file of that directory has been patched away.
SatisfiedMeansThere ==
    (Judged /\ cover.ok /\ mode = "model" /\ replans = 0) =>
        \A n \in Expected(plan) :
            \/ IsFile(tree, n) \/ File[n] \in Known
            \/ n \in Tests /\ ~HasParent(tree, n)

\* The same without the exception is false.
SatisfiedMeansMade ==
    (Judged /\ cover.ok /\ mode = "model" /\ replans = 0) =>
        \A n \in Expected(plan) : IsFile(tree, n) \/ File[n] \in Known

\* When the coverage sends an attempt back to the Coder for missing files, one
\* of them is not there and the Coder's tools write it, unless the plan names a
\* file no tool writes.
CodeRetryCanHelp ==
    [][(pc = "review" /\ pc' = "coding" /\ cover.missing # {}) =>
          \/ cover.unexpected # {} \/ Expected(plan) \cap Refused # {}
          \/ \E n \in cover.missing :
                ~IsFile(tree, n) /\ CanWrite(plan, n)]_vars

\* The files git status shows by their own names, and the tools write.
Plain == Paths \ (NewDir \cup Ignored \cup Noise \cup Refused)

\* The tree in which every planned file the tools write has been written.
Best ==
    [x \in Paths \cup Dirs |->
        IF \E p \in Expected(plan) \cap Paths :
              CanWrite(plan, p) /\ x \in {p, Dir[p]}
        THEN IF x \in Paths THEN "edited" ELSE "there" ELSE tree[x]]

\* The first plan of a ticket can always be covered by writes its own gate
\* admits, as long as its files are plain and nothing that gate does not ask
\* (commands, other names, the Tester) wrote a file it has out of scope.
PlanCanBeDone ==
    (/\ pc \in {"coding", "round"} /\ replans = 0
     /\ (strayed \cup tested) \cap plan.oos = {}
     /\ Expected(plan) # {} /\ Expected(plan) \subseteq Plain) =>
        Coverage(plan, Best).ok

\* The same of a plan of any files is false.
AnyPlanCanBeDone ==
    (/\ pc \in {"coding", "round"} /\ replans = 0
     /\ (strayed \cup tested) \cap plan.oos = {}
     /\ Expected(plan) # {}) =>
        Coverage(plan, Best).ok

\* The Tester writes after the coverage was taken and the gate reads it as it
\* was.  It is still true then, if the plan calls its files by their own names,
\* the Tester kept out of out_of_scope, which its own gate does not ask, and no
\* build fix, no command and no write by another name came between.
TesterKeepsCoverage ==
    (/\ pc = "review" /\ cover.ok /\ ~fixed /\ strayed = {}
     /\ plan.oos \cap Tests = {} /\ Expected(plan) \subseteq Paths) =>
        Coverage(plan, tree).ok

\* The same is false once a file was strayed into that has another name under
\* tests/.
StrayTesterKeepsCoverage ==
    (/\ pc = "review" /\ cover.ok /\ ~fixed
     /\ strayed \subseteq { File[n] : n \in Tests \ Paths }
     /\ plan.oos \cap Tests = {} /\ Expected(plan) \subseteq Paths) =>
        Coverage(plan, tree).ok

\* Doc: a file the plan asked for and the Coder made is not reported missing
\* ("Return paths changed in the workspace (modified, staged, and
\* untracked)", plan_coverage.py:118).
NewFilesAreSeen ==
    Judged => \A p \in cover.missing \cap Paths : tree[p] # "edited"
=============================================================================
