---------------------------- MODULE SprintGraph ----------------------------
(***************************************************************************)
(* graph/pipeline.py and graph/nodes: one sprint cycle, from initSession   *)
(* to awaitingHuman or failed.                                             *)
(*                                                                         *)
(* pc names the node that runs next, as in build_sprint_graph, with these  *)
(* extra points: "verify" splits codeImplement between the Coder's loop    *)
(* and its acceptance run, "parked" is await_diff_review inside            *)
(* _wait_for_decision, "after..." is a conditional edge about to be read   *)
(* (the clock may move between a node and its edge).  Agents are           *)
(* nondeterministic; what they return is constrained only by what the code *)
(* does with it.                                                           *)
(***************************************************************************)
EXTENDS Naturals

CONSTANTS
    MaxReviewRetries,        \* MAX_REVIEW_RETRIES
    MaxPlanRetries,          \* MAX_PLAN_RETRIES
    MaxUserRejectionRounds,  \* MAX_USER_REJECTION_ROUNDS
    Coverages,               \* the PlanCoverageResults the Coder can leave
    NoCoverage,              \* plan_coverage(_prev) absent from the state
    NoOutcome,               \* review_outcome absent from the state
    HasDeadline,             \* deadline_epoch > 0
    HonestClaims             \* agents report green only when tests are green

\* missing and hits count paths; ok is "satisfied", which a plan that names
\* no path at all may lack with no gap to show for it.
CoverageResult == [missing : Nat, hits : Nat, phantom : BOOLEAN,
                   unexpected : BOOLEAN, ok : BOOLEAN]

ASSUME BudgetAssumption ==
    /\ MaxReviewRetries \in Nat
    /\ MaxPlanRetries \in Nat
    /\ MaxUserRejectionRounds \in Nat
ASSUME CoverageAssumption ==
    /\ Coverages \subseteq CoverageResult
    /\ \A c \in Coverages : c.ok => c.missing = 0 /\ c.hits = 0
    /\ NoCoverage \notin CoverageResult
ASSUME SwitchAssumption == HasDeadline \in BOOLEAN /\ HonestClaims \in BOOLEAN

\* tests_passed and the blocker findings fix "passed"; asks is what
\* retry_scope and the keyword scan of the prose come to.
ReviewOutcome == [tests_passed : BOOLEAN, blockers : BOOLEAN,
                  asks : {"plan", "code"}]
ASSUME OutcomeAssumption == NoOutcome \notin ReviewOutcome

VARIABLES
    pc,
    attempt, plan_retries, user_rejection_rounds,
    coverage_stall_count, plan_coverage, plan_coverage_prev,
    tests_passed,            \* code_change.tests_passed, the Coder's claim
    tests_run_this_cycle,
    acceptance_test_output,  \* none, green or red
    skip_tester, retry_scope, review_outcome,
    review_decisions,        \* none, accept (all files) or reject (some)
    error,                   \* none, or the slug whose message error holds
    late,                    \* the per-cycle wall-clock budget has elapsed
    stop,                    \* the run's cancel token
    tree,     \* history: what the acceptance commands would return now
    tested,   \* history: they were run on this attempt's work
    replans   \* history: TechLead passes after the first

budget   == <<attempt, plan_retries, user_rejection_rounds,
              coverage_stall_count, plan_coverage_prev>>
evidence == <<tests_passed, tests_run_this_cycle, acceptance_test_output>>
env      == <<late, stop>>
history  == <<tree, tested, replans>>
vars == <<pc, budget, plan_coverage, evidence, skip_tester, retry_scope,
          review_outcome, review_decisions, error, env, history>>

Phased == {"initSession", "techLeadPlan", "codeImplement", "testImplement",
           "review", "mergeGate", "awaitDiffReview", "prepareRetry",
           "prepareRejectionRetry", "orchestratorShip"}
Inside == {"verify", "parked"}
Edges  == {"afterPlan", "afterGate", "afterDiffReview", "afterRetry"}
Terminal == {"awaitingHuman", "failed"}
\* done, failedDone: END.  raised: an exception leaves the graph.
\* unreported: the failed node itself raises.  cancelled: RunCancelled or
\* CancelledError leaves the graph.
Ended  == {"done", "failedDone", "raised", "unreported", "cancelled"}

TypeOK ==
    /\ pc \in Phased \cup Inside \cup Edges \cup Terminal \cup Ended
    /\ attempt \in Nat /\ plan_retries \in Nat
    /\ user_rejection_rounds \in Nat /\ coverage_stall_count \in Nat
    /\ plan_coverage \in Coverages \cup {NoCoverage}
    /\ plan_coverage_prev \in Coverages \cup {NoCoverage}
    /\ tests_passed \in BOOLEAN /\ tests_run_this_cycle \in BOOLEAN
    /\ acceptance_test_output \in {"none", "green", "red"}
    /\ skip_tester \in BOOLEAN
    /\ retry_scope \in {"none", "plan", "code"}
    /\ review_outcome \in ReviewOutcome \cup {NoOutcome}
    /\ review_decisions \in {"none", "accept", "reject"}
    /\ error \in {"none", "plan_aborted", "review_timeout",
                  "review_budget_exhausted"}
    /\ late \in BOOLEAN /\ stop \in BOOLEAN
    /\ tree \in {"green", "red"}
    /\ tested \in BOOLEAN /\ replans \in Nat

Init ==
    /\ pc = "initSession"
    /\ attempt = 0 /\ plan_retries = 0 /\ user_rejection_rounds = 0
    /\ coverage_stall_count = 0
    /\ plan_coverage = NoCoverage /\ plan_coverage_prev = NoCoverage
    /\ tests_passed = FALSE /\ tests_run_this_cycle = FALSE
    /\ acceptance_test_output = "none"
    /\ skip_tester = FALSE /\ retry_scope = "none"
    /\ review_outcome = NoOutcome /\ review_decisions = "none"
    /\ error = "none" /\ late = FALSE /\ stop = FALSE
    /\ tree \in {"green", "red"} /\ tested = FALSE
    /\ replans = 0

-----------------------------------------------------------------------------
(* Pure decisions *)

\* An agent's report of a green run, given what the run would show.
Claims(colour) == {c \in BOOLEAN : HonestClaims /\ c => colour = "green"}

Passed(o) == o.tests_passed /\ ~o.blockers

CoverageSatisfied == plan_coverage = NoCoverage \/ plan_coverage.ok

\* merge_gate.review_accepted
ReviewAccepted == CoverageSatisfied /\ Passed(review_outcome)

\* plan_coverage.coverage_improved
Pressure(c) == c.missing + c.hits
CoverageImproved(before, after) ==
    after.ok \/ Pressure(after) < Pressure(before)

\* retry.resolve_retry_scope; present: every missing path exists on disk.
RetryScope(c, o, present) ==
    CASE c.phantom -> "plan"
      [] ~c.phantom /\ ~c.ok /\ c.hits > 0 -> "plan"
      [] ~c.phantom /\ ~c.ok /\ c.hits = 0 /\ Passed(o) /\ c.unexpected -> "code"
      [] ~c.phantom /\ ~c.ok /\ c.hits = 0 /\ ~(Passed(o) /\ c.unexpected)
             /\ c.missing > 0 -> IF present THEN "plan" ELSE "code"
      [] OTHER -> IF Passed(o) THEN "code" ELSE o.asks

\* retry._skip_tester
SkipTester(scope) == scope = "code" /\ tests_run_this_cycle /\ tests_passed

-----------------------------------------------------------------------------
(* Nodes: _phased checks the token first *)

Enter(node) == pc = node /\ ~stop

InitSession ==
    /\ Enter("initSession")
    /\ pc' = "techLeadPlan"
    /\ skip_tester' = FALSE
    /\ tests_run_this_cycle' = FALSE
    /\ acceptance_test_output' = "none"
    /\ UNCHANGED <<budget, plan_coverage, tests_passed, retry_scope,
                   review_outcome, review_decisions, error, env, history>>

\* retry_scope is still "none" on the first pass only.
TechLeadPlan ==
    /\ Enter("techLeadPlan")
    /\ pc' = "afterPlan"
    /\ error' \in {"none", "plan_aborted"}
    /\ replans' = IF retry_scope = "none" THEN replans ELSE replans + 1
    /\ UNCHANGED <<budget, plan_coverage, evidence, skip_tester, retry_scope,
                   review_outcome, review_decisions, env, tree, tested>>

\* The Coder's loop and its continuation rounds edit the tree.
CoderLoop ==
    /\ Enter("codeImplement")
    /\ pc' = "verify"
    /\ plan_coverage' \in Coverages
    /\ tree' \in {"green", "red"}
    /\ tested' = FALSE
    /\ UNCHANGED <<budget, evidence, skip_tester, retry_scope, review_outcome,
                   review_decisions, error, env, replans>>

\* Mutant of AcceptanceRun: an output kept from an earlier attempt will do.
AcceptanceRunCached ==
    IF plan_coverage.ok /\ ~late /\ ~stop /\ acceptance_test_output = "none"
    THEN /\ acceptance_test_output' = tree
         /\ tested' = TRUE
         /\ tree' \in IF tree = "red" THEN {"green", "red"} ELSE {tree}
    ELSE UNCHANGED <<acceptance_test_output, tested, tree>>

\* run_coder_with_coverage's acceptance run and the one build-fix pass after a
\* red one, which edits the tree again: neither the acceptance tests nor the
\* coverage are looked at after it.
AcceptanceRun ==
    IF plan_coverage.ok /\ ~late /\ ~stop
    THEN /\ acceptance_test_output' = tree
         /\ tested' = TRUE
         /\ tree' \in IF tree = "red" THEN {"green", "red"} ELSE {tree}
    ELSE UNCHANGED <<acceptance_test_output, tested, tree>>

\* The rest of code_implement: the Formatter reports the Coder's claim.
CoderVerify ==
    /\ pc = "verify"
    /\ pc' = "testImplement"
    /\ AcceptanceRun
    /\ tests_passed' \in Claims(tree')
    /\ tests_run_this_cycle' =
          (tests_passed' \/ (tested' /\ acceptance_test_output' = "green"))
    /\ UNCHANGED <<budget, plan_coverage, skip_tester, retry_scope,
                   review_outcome, review_decisions, error, env, replans>>

\* A red run is handed to the Tester, who edits the tree; plan_coverage is not
\* computed again.
TestImplement ==
    /\ Enter("testImplement")
    /\ pc' = "review"
    /\ skip_tester' = FALSE
    /\ UNCHANGED <<budget, plan_coverage, tests_passed, retry_scope,
                   review_outcome, review_decisions, error, env, replans>>
    /\ LET reuse == tests_run_this_cycle /\ acceptance_test_output # "none"
           green == reuse \/ tree = "green"
       IN  \/ /\ skip_tester
              /\ UNCHANGED <<tests_run_this_cycle, acceptance_test_output,
                             tree, tested>>
           \/ /\ ~skip_tester
              /\ tests_run_this_cycle' = green
              /\ acceptance_test_output' =
                    IF reuse THEN acceptance_test_output ELSE tree
              /\ tested' = (tested \/ ~reuse)
              /\ UNCHANGED tree
           \/ /\ ~skip_tester /\ ~green
              /\ tree' \in {"green", "red"}
              /\ tests_run_this_cycle' \in Claims(tree')
              /\ tested' = TRUE
              /\ UNCHANGED acceptance_test_output

\* What run_reviewer can answer: it re-runs the acceptance commands unless it
\* is told they already ran, and overwrites the model's word on them.
Reviews(already) ==
    {o \in ReviewOutcome : o.tests_passed = (already \/ tree = "green")}

Review ==
    /\ Enter("review")
    /\ pc' = "mergeGate"
    /\ LET already == tests_run_this_cycle /\ tests_passed
       IN  /\ review_outcome' \in Reviews(already)
           /\ tested' = (tested \/ ~already)
    /\ UNCHANGED <<budget, plan_coverage, evidence, skip_tester, retry_scope,
                   review_decisions, error, env, tree, replans>>

\* The node only reports; the edge decides.
MergeGate ==
    /\ Enter("mergeGate")
    /\ pc' = "afterGate"
    /\ UNCHANGED <<budget, plan_coverage, evidence, skip_tester, retry_scope,
                   review_outcome, review_decisions, error, env, history>>

\* No console behind the run, the gate switched off, or no snapshot captured.
PassThrough ==
    /\ Enter("awaitDiffReview")
    /\ pc' = "afterDiffReview"
    /\ UNCHANGED <<budget, plan_coverage, evidence, skip_tester, retry_scope,
                   review_outcome, review_decisions, error, env, history>>

OpenReview ==
    /\ Enter("awaitDiffReview")
    /\ pc' = "parked"
    /\ UNCHANGED <<budget, plan_coverage, evidence, skip_tester, retry_scope,
                   review_outcome, review_decisions, error, env, history>>

\* A decision arrived; a rejection beyond the user's budget is terminal.
Decided ==
    /\ pc = "parked"
    /\ pc' = "afterDiffReview"
    /\ \E verdict \in {"accept", "reject"} :
          IF verdict = "reject" /\ user_rejection_rounds >= MaxUserRejectionRounds
          THEN /\ error' = "review_budget_exhausted"
               /\ UNCHANGED review_decisions
          ELSE /\ review_decisions' = verdict
               /\ UNCHANGED error
    /\ UNCHANGED <<budget, plan_coverage, evidence, skip_tester, retry_scope,
                   review_outcome, env, history>>

ReviewExpires ==
    /\ pc = "parked"
    /\ pc' = "afterDiffReview"
    /\ error' = "review_timeout"
    /\ UNCHANGED <<budget, plan_coverage, evidence, skip_tester, retry_scope,
                   review_outcome, review_decisions, env, history>>

\* Mutant of PrepareRetry: the counters do not advance.
PrepareRetryUncounted ==
    /\ Enter("prepareRetry")
    /\ pc' = "afterRetry"
    /\ \E present \in BOOLEAN :
          retry_scope' = RetryScope(plan_coverage, review_outcome, present)
    /\ skip_tester' = SkipTester(retry_scope')
    /\ UNCHANGED <<budget, plan_coverage, evidence, review_outcome,
                   review_decisions, error, env, history>>

\* The acceptance run here only feeds the feedback text.
PrepareRetry ==
    /\ Enter("prepareRetry")
    /\ pc' = "afterRetry"
    /\ \E present \in BOOLEAN :
          LET scope == RetryScope(plan_coverage, review_outcome, present)
          IN  /\ retry_scope' = scope
              /\ plan_retries' = plan_retries + (IF scope = "plan" THEN 1 ELSE 0)
              /\ skip_tester' = SkipTester(scope)
    /\ attempt' = attempt + 1
    /\ coverage_stall_count' =
          IF /\ plan_coverage_prev # NoCoverage
             /\ ~CoverageImproved(plan_coverage_prev, plan_coverage)
          THEN coverage_stall_count + 1
          ELSE 0
    /\ plan_coverage_prev' = plan_coverage
    /\ UNCHANGED <<user_rejection_rounds, plan_coverage, evidence,
                   review_outcome, review_decisions, error, env, history>>

\* Mutant of PrepareRejectionRetry: the verdicts are kept.
RejectionRetryKeeps ==
    /\ Enter("prepareRejectionRetry")
    /\ pc' = "afterRetry"
    /\ \E scope \in {"plan", "code"} :
          /\ retry_scope' = scope
          /\ plan_retries' = plan_retries + (IF scope = "plan" THEN 1 ELSE 0)
          /\ skip_tester' = SkipTester(scope)
    /\ attempt' = attempt + 1
    /\ user_rejection_rounds' = user_rejection_rounds + 1
    /\ UNCHANGED <<coverage_stall_count, plan_coverage_prev, plan_coverage,
                   evidence, review_outcome, review_decisions, error, env,
                   history>>

\* The scope is a keyword scan of the reasons the user typed.
PrepareRejectionRetry ==
    /\ Enter("prepareRejectionRetry")
    /\ pc' = "afterRetry"
    /\ \E scope \in {"plan", "code"} :
          /\ retry_scope' = scope
          /\ plan_retries' = plan_retries + (IF scope = "plan" THEN 1 ELSE 0)
          /\ skip_tester' = SkipTester(scope)
    /\ attempt' = attempt + 1
    /\ user_rejection_rounds' = user_rejection_rounds + 1
    /\ review_decisions' = "none"
    /\ UNCHANGED <<coverage_stall_count, plan_coverage_prev, plan_coverage,
                   evidence, review_outcome, error, env, history>>

OrchestratorShip ==
    /\ Enter("orchestratorShip")
    /\ pc' = "awaitingHuman"
    /\ UNCHANGED <<budget, plan_coverage, evidence, skip_tester, retry_scope,
                   review_outcome, review_decisions, error, env, history>>

\* Not phased: no token check.
AwaitingHuman ==
    /\ pc = "awaitingHuman"
    /\ pc' = "done"
    /\ UNCHANGED <<budget, plan_coverage, evidence, skip_tester, retry_scope,
                   review_outcome, review_decisions, error, env, history>>

\* Without an upstream error the message is rebuilt from review_outcome, and
\* an absent outcome does not validate.
Failed ==
    /\ pc = "failed"
    /\ pc' = IF error = "none" /\ review_outcome = NoOutcome
             THEN "unreported" ELSE "failedDone"
    /\ UNCHANGED <<budget, plan_coverage, evidence, skip_tester, retry_scope,
                   review_outcome, review_decisions, error, env, history>>

-----------------------------------------------------------------------------
(* Conditional edges *)

Route(edge, target) ==
    /\ pc = edge
    /\ pc' = target
    /\ UNCHANGED <<budget, plan_coverage, evidence, skip_tester, retry_scope,
                   review_outcome, review_decisions, error, env, history>>

RouteAfterPlan ==
    Route("afterPlan", IF error # "none" \/ late THEN "failed"
                       ELSE "codeImplement")

GateVerdict ==
    IF ReviewAccepted THEN "awaitDiffReview"
    ELSE IF \/ attempt - user_rejection_rounds >= MaxReviewRetries
            \/ coverage_stall_count >= 2
            \/ late
         THEN "failed"
         ELSE "prepareRetry"

RouteAfterGate == Route("afterGate", GateVerdict)

\* Mutant of RouteAfterDiffReview: an expired or exhausted review ships.
RouteOnVerdictOnly ==
    Route("afterDiffReview",
          IF late THEN "failed"
          ELSE IF review_decisions = "reject" THEN "prepareRejectionRetry"
          ELSE "orchestratorShip")

RouteAfterDiffReview ==
    Route("afterDiffReview",
          IF error # "none" \/ late THEN "failed"
          ELSE IF review_decisions = "reject" THEN "prepareRejectionRetry"
          ELSE "orchestratorShip")

RetryTarget ==
    IF late THEN "failed"
    ELSE IF retry_scope = "plan" /\ plan_retries <= MaxPlanRetries
    THEN "techLeadPlan"
    ELSE "codeImplement"

RouteAfterRetry == Route("afterRetry", RetryTarget)

-----------------------------------------------------------------------------
(* Around the graph *)

Running == pc \notin Ended

\* The token stops the run at the next checkpoint, or the hard cancel does
\* wherever it is suspended.
Cancelled ==
    /\ Running /\ stop
    /\ pc' = "cancelled"
    /\ UNCHANGED <<budget, plan_coverage, evidence, skip_tester, retry_scope,
                   review_outcome, review_decisions, error, env, history>>

\* A lane, a model call, git or a store raises out of a node.
NodeRaises ==
    /\ pc \in (Phased \cup Inside) \ {"mergeGate"}
    /\ pc' = "raised"
    /\ UNCHANGED <<budget, plan_coverage, evidence, skip_tester, retry_scope,
                   review_outcome, review_decisions, error, env, history>>

StopRequested ==
    /\ Running /\ ~stop
    /\ stop' = TRUE
    /\ UNCHANGED <<pc, budget, plan_coverage, evidence, skip_tester,
                   retry_scope, review_outcome, review_decisions, error, late,
                   history>>

ClockPassesDeadline ==
    /\ HasDeadline /\ Running /\ ~late
    /\ late' = TRUE
    /\ UNCHANGED <<pc, budget, plan_coverage, evidence, skip_tester,
                   retry_scope, review_outcome, review_decisions, error, stop,
                   history>>

Node ==
    \/ InitSession \/ TechLeadPlan \/ CoderLoop \/ CoderVerify
    \/ TestImplement \/ Review \/ MergeGate \/ PassThrough \/ OpenReview
    \/ Decided \/ ReviewExpires \/ PrepareRetry \/ PrepareRejectionRetry
    \/ OrchestratorShip \/ AwaitingHuman \/ Failed

Edge == RouteAfterPlan \/ RouteAfterGate \/ RouteAfterDiffReview
            \/ RouteAfterRetry

Environment == StopRequested \/ ClockPassesDeadline

Next == Node \/ Edge \/ Cancelled \/ NodeRaises \/ Environment

Spec == Init /\ [][Next]_vars

\* Every node returns or raises (agents have turn limits, subprocesses and
\* the review gate have timeouts), LangGraph runs the next one, and a stop
\* reaches a checkpoint.  Nothing makes an agent succeed or a user answer.
FairSpec == Spec /\ WF_vars(Node \/ Edge \/ Cancelled \/ NodeRaises)

-----------------------------------------------------------------------------
(* What the cycle promises *)

Shipping == {"orchestratorShip", "awaitingHuman", "done"}

\* MAX_REVIEW_RETRIES bounds the machine's retries whatever the user does,
\* MAX_USER_REJECTION_ROUNDS the user's whatever the machine does.
AttemptBudget ==
    /\ user_rejection_rounds <= attempt
    /\ attempt <= user_rejection_rounds + MaxReviewRetries
    /\ user_rejection_rounds <= MaxUserRejectionRounds

\* route_after_retry's cap: TechLead is asked again at most MAX_PLAN_RETRIES
\* times, machine and user rejections together.
ReplanBudget == replans <= MaxPlanRetries

\* "a later attempt never routes on a stale rejection": the diff gate starts
\* every pass with no verdict left over, even when it passes through.
NoStaleRejection == pc \in {"awaitDiffReview", "parked"} => review_decisions = "none"

\* What ships was run: the acceptance commands were executed on the shipped
\* attempt, on every path of claims, cached outputs, skips and deadlines.
ShippedWasTested == pc \in Shipping => tested

\* Given honest agents, what reaches the user passes its acceptance tests.
AcceptedIsGreen == pc \in {"parked"} \cup Shipping => tree = "green"

\* "Every way a cycle can end badly" is reported: the failed node does not
\* itself raise.
FailureReported == pc # "unreported"

\* A rejected file is never shipped by the pass that rejected it, and the
\* deterministic gate has accepted whatever is shipped.
ShippedWasAccepted ==
    pc \in Shipping => ReviewAccepted /\ review_decisions # "reject" /\ error = "none"

\* Every cycle ends, however the agents, the user and the clock behave.
CycleEnds == <>(pc \in Ended)
=============================================================================
