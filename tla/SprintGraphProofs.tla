------------------------- MODULE SprintGraphProofs -------------------------
(***************************************************************************)
(* What holds of every sprint cycle, for every budget and every set of     *)
(* coverage results: types, retry budgets, and what a shipped change has   *)
(* behind it.                                                              *)
(***************************************************************************)
EXTENDS SprintGraph, TLAPS

\* The points a change has to pass on its way from the gate to the user.
AtGate == {"awaitDiffReview", "parked", "afterDiffReview"}
AfterReview == {"mergeGate", "afterGate", "prepareRetry",
                "prepareRejectionRetry", "afterRetry"} \cup AtGate \cup Shipping

\* From the review on there is an outcome and a coverage result to read, and
\* the first TechLead pass is the only one without a retry scope.
Known ==
    /\ pc \in AfterReview => review_outcome \in ReviewOutcome
    /\ pc \in {"verify", "testImplement", "review"} \cup AfterReview
          => plan_coverage \in Coverages
    /\ pc = "initSession" => retry_scope = "none"

\* What the budgets look like at the points that spend them.
Budgets ==
    /\ AttemptBudget
    /\ pc = "prepareRetry" => attempt < user_rejection_rounds + MaxReviewRetries
    /\ pc = "prepareRejectionRetry" =>
          user_rejection_rounds < MaxUserRejectionRounds
    /\ pc = "afterDiffReview" /\ review_decisions = "reject"
          => user_rejection_rounds < MaxUserRejectionRounds

\* Every TechLead pass after the first was counted before it was made.
Replans ==
    /\ ReplanBudget
    /\ replans <= plan_retries
    /\ pc = "afterRetry" /\ retry_scope = "plan" => replans < plan_retries
    /\ pc = "techLeadPlan" /\ retry_scope # "none"
          => replans < plan_retries /\ plan_retries <= MaxPlanRetries

\* A verdict or an error exists only between the step that sets it and the
\* step that consumes it, or at the end.
Verdicts ==
    /\ review_decisions # "none"
          => pc \in {"afterDiffReview", "prepareRejectionRetry", "failed"}
                    \cup Shipping \cup Ended
    /\ review_decisions = "reject" => pc \notin Shipping
    /\ error # "none" => pc \in {"afterPlan", "afterDiffReview", "failed"}
                                   \cup (Ended \ {"done"})

\* Behind the merge gate the gate's verdict stands.
Accepted == pc \in AtGate \cup Shipping => ReviewAccepted

\* A complete change was run unless the clock or a stop cut the Coder short;
\* the clock keeps such a change from shipping, the stop from being tested.
Evidence ==
    /\ pc = "testImplement" /\ plan_coverage.ok => tested \/ late \/ stop
    /\ pc \in {"review", "mergeGate", "afterGate"} \cup AtGate /\ plan_coverage.ok
          => tested \/ late
    /\ ShippedWasTested

Inv == TypeOK /\ Known /\ Budgets /\ Replans /\ Verdicts /\ Accepted /\ Evidence

-----------------------------------------------------------------------------

\* resolve_retry_scope answers with one of the two scopes for every outcome
\* the Reviewer can give.
LEMMA RetryScopeType ==
    ASSUME NEW c \in Coverages, NEW o \in ReviewOutcome, NEW present \in BOOLEAN
    PROVE  RetryScope(c, o, present) \in {"plan", "code"}
BY CoverageAssumption DEF RetryScope, Passed, ReviewOutcome, CoverageResult

\* The initial states satisfy the invariant.
LEMMA InitInv == Init => Inv
<1> SUFFICES ASSUME Init PROVE Inv
  OBVIOUS
<1>1. TypeOK
  BY DEF Init, TypeOK, Phased
<1>2. Known /\ Verdicts /\ Accepted /\ Evidence
  BY DEF Init, Known, Verdicts, Accepted, Evidence, ShippedWasTested,
         AfterReview, AtGate, Shipping
<1>3. Budgets /\ Replans
  BY BudgetAssumption
  DEF Init, Budgets, AttemptBudget, Replans, ReplanBudget
<1> QED
  BY <1>1, <1>2, <1>3 DEF Inv

-----------------------------------------------------------------------------
(* One lemma per part, one step per action that can disturb it. *)

\* The Boolean half of TypeOK and the rest, for the steps that compute flags.
Flags ==
    /\ tests_passed \in BOOLEAN /\ tests_run_this_cycle \in BOOLEAN
    /\ skip_tester \in BOOLEAN
    /\ late \in BOOLEAN /\ stop \in BOOLEAN
    /\ tested \in BOOLEAN

Others ==
    /\ pc \in Phased \cup Inside \cup Edges \cup Terminal \cup Ended
    /\ attempt \in Nat /\ plan_retries \in Nat
    /\ user_rejection_rounds \in Nat /\ coverage_stall_count \in Nat
    /\ plan_coverage \in Coverages \cup {NoCoverage}
    /\ plan_coverage_prev \in Coverages \cup {NoCoverage}
    /\ acceptance_test_output \in {"none", "green", "red"}
    /\ retry_scope \in {"none", "plan", "code"}
    /\ review_outcome \in ReviewOutcome \cup {NoOutcome}
    /\ review_decisions \in {"none", "accept", "reject"}
    /\ error \in {"none", "plan_aborted", "review_timeout",
                  "review_budget_exhausted"}
    /\ tree \in {"green", "red"} /\ replans \in Nat

\* The two halves are TypeOK, now and after a step.
LEMMA TypeParts ==
    /\ TypeOK <=> Flags /\ Others
    /\ TypeOK' <=> Flags' /\ Others'
BY DEF TypeOK, Flags, Others

\* Types are kept.
LEMMA TypeStep == Inv /\ [Next]_vars => TypeOK'
<1> SUFFICES ASSUME Inv, [Next]_vars PROVE TypeOK'
  OBVIOUS
<1> USE DEF Inv, TypeOK, Flags, Others, Phased, Inside, Edges, Terminal,
            Ended, budget, evidence, env, history, Enter
<1>1. CASE InitSession
  <2>1. skip_tester' \in BOOLEAN /\ tests_run_this_cycle' \in BOOLEAN
    BY <1>1 DEF InitSession
  <2> QED
    BY <1>1, <2>1 DEF InitSession
<1>1a. CASE MergeGate \/ PassThrough
  BY <1>1a DEF MergeGate, PassThrough
<1>1b. CASE OpenReview
  BY <1>1b DEF OpenReview
<1>1c. CASE OrchestratorShip \/ AwaitingHuman
  BY <1>1c DEF OrchestratorShip, AwaitingHuman
<1>2. CASE TechLeadPlan
  BY <1>2 DEF TechLeadPlan
<1>3. CASE CoderLoop
  <2>1. /\ tested' = FALSE
        /\ UNCHANGED <<tests_passed, tests_run_this_cycle, skip_tester, late, stop>>
    BY <1>3 DEF CoderLoop
  <2>2. Flags'
    BY <2>1
  <2>3. Others'
    BY <1>3 DEF CoderLoop
  <2> QED
    BY <2>2, <2>3, TypeParts
<1>4. CASE CoderVerify
  <2>1. tests_passed' \in BOOLEAN /\ tests_run_this_cycle' \in BOOLEAN
        /\ tested' \in BOOLEAN
    BY <1>4 DEF CoderVerify, AcceptanceRun, Claims
  <2>2. UNCHANGED <<skip_tester, late, stop>>
    BY <1>4 DEF CoderVerify, AcceptanceRun
  <2>3. Flags'
    BY <2>1, <2>2
  <2>4. Others'
    BY <1>4 DEF CoderVerify, AcceptanceRun
  <2> QED
    BY <2>3, <2>4, TypeParts
<1>5. CASE TestImplement
  <2>1. tests_run_this_cycle' \in BOOLEAN /\ tested' \in BOOLEAN
    BY <1>5 DEF TestImplement, Claims
  <2>2. skip_tester' \in BOOLEAN
    BY <1>5 DEF TestImplement
  <2>3. UNCHANGED <<tests_passed, late, stop>>
    BY <1>5 DEF TestImplement
  <2>4. Flags'
    BY <2>1, <2>2, <2>3
  <2>5. acceptance_test_output' \in {"none", "green", "red"}
        /\ tree' \in {"green", "red"}
    BY <1>5 DEF TestImplement
  <2>6. /\ pc' = "review"
        /\ UNCHANGED <<budget, plan_coverage, retry_scope, review_outcome,
                       review_decisions, error, replans>>
    BY <1>5 DEF TestImplement
  <2>7. Others'
    BY <2>5, <2>6
  <2> QED
    BY <2>4, <2>7, TypeParts
<1>6. CASE Review
  BY <1>6 DEF Review, Reviews
<1>7. CASE Decided \/ ReviewExpires \/ Failed
  BY <1>7 DEF Decided, ReviewExpires, Failed
<1>8. CASE PrepareRetry
  BY <1>8, RetryScopeType DEF PrepareRetry, SkipTester, Known, AfterReview
<1>9. CASE PrepareRejectionRetry
  BY <1>9 DEF PrepareRejectionRetry, SkipTester
<1>10. CASE Edge
  BY <1>10 DEF Edge, RouteAfterPlan, RouteAfterGate, RouteAfterDiffReview,
               RouteAfterRetry, Route, GateVerdict, RetryTarget
<1>11a. CASE Cancelled
  BY <1>11a DEF Cancelled
<1>11b. CASE NodeRaises
  BY <1>11b DEF NodeRaises
<1>11c. CASE StopRequested
  BY <1>11c DEF StopRequested
<1>11d. CASE ClockPassesDeadline
  BY <1>11d DEF ClockPassesDeadline
<1>12. CASE UNCHANGED vars
  BY <1>12 DEF vars
<1> QED
  BY <1>1, <1>1a, <1>1b, <1>1c, <1>2, <1>3, <1>4, <1>5, <1>6, <1>7, <1>8,
     <1>9, <1>10, <1>11a, <1>11b, <1>11c, <1>11d, <1>12
  DEF Next, Node, Environment

\* Outcome and coverage stay readable.
LEMMA KnownStep == Inv /\ [Next]_vars => Known'
<1> SUFFICES ASSUME Inv, [Next]_vars PROVE Known'
  OBVIOUS
<1> USE DEF Inv, budget, evidence, env, history, Enter, TypeOK, Known,
            AfterReview, AtGate, Shipping
<1>1. CASE InitSession
  BY <1>1 DEF InitSession
<1>2. CASE TechLeadPlan
  BY <1>2 DEF TechLeadPlan
<1>3. CASE CoderLoop
  BY <1>3 DEF CoderLoop
<1>4. CASE CoderVerify
  BY <1>4 DEF CoderVerify, AcceptanceRun, Claims
<1>5. CASE TestImplement
  BY <1>5 DEF TestImplement, Claims
<1>6. CASE Review
  BY <1>6 DEF Review, Reviews
<1>7. CASE MergeGate
  BY <1>7 DEF MergeGate
<1>8. CASE PassThrough
  BY <1>8 DEF PassThrough
<1>9. CASE OpenReview
  BY <1>9 DEF OpenReview
<1>10. CASE Decided
  BY <1>10 DEF Decided
<1>11. CASE ReviewExpires
  BY <1>11 DEF ReviewExpires
<1>12. CASE PrepareRetry
  BY <1>12 DEF PrepareRetry
<1>13. CASE PrepareRejectionRetry
  BY <1>13 DEF PrepareRejectionRetry
<1>14. CASE OrchestratorShip
  BY <1>14 DEF OrchestratorShip
<1>15. CASE AwaitingHuman
  BY <1>15 DEF AwaitingHuman
<1>16. CASE Failed
  BY <1>16 DEF Failed
<1>17. CASE RouteAfterPlan
  BY <1>17 DEF RouteAfterPlan, Route
<1>18. CASE RouteAfterGate
  BY <1>18 DEF RouteAfterGate, Route, GateVerdict
<1>19. CASE RouteAfterDiffReview
  BY <1>19 DEF RouteAfterDiffReview, Route
<1>20. CASE RouteAfterRetry
  BY <1>20 DEF RouteAfterRetry, Route, RetryTarget
<1>21. CASE Cancelled
  BY <1>21 DEF Cancelled
<1>22. CASE NodeRaises
  BY <1>22 DEF NodeRaises
<1>23. CASE StopRequested
  BY <1>23 DEF StopRequested
<1>24. CASE ClockPassesDeadline
  BY <1>24 DEF ClockPassesDeadline
<1>25. CASE UNCHANGED vars
  BY <1>25 DEF vars
<1> QED
  BY <1>1, <1>2, <1>3, <1>4, <1>5, <1>6, <1>7, <1>8, <1>9, <1>10, <1>11,
     <1>12, <1>13, <1>14, <1>15, <1>16, <1>17, <1>18, <1>19, <1>20, <1>21,
     <1>22, <1>23, <1>24, <1>25
  DEF Next, Node, Edge, Environment

\* Only the gate sends a machine retry, only a verdict a user's.
LEMMA BudgetsStep == Inv /\ [Next]_vars => Budgets'
<1> SUFFICES ASSUME Inv, [Next]_vars PROVE Budgets'
  OBVIOUS
<1> USE BudgetAssumption
    DEF Inv, budget, evidence, env, history, Enter, TypeOK, Budgets,
        AttemptBudget
<1>1. CASE InitSession
  BY <1>1 DEF InitSession
<1>2. CASE TechLeadPlan
  BY <1>2 DEF TechLeadPlan
<1>3. CASE CoderLoop
  BY <1>3 DEF CoderLoop
<1>4. CASE CoderVerify
  BY <1>4 DEF CoderVerify, AcceptanceRun, Claims
<1>5. CASE TestImplement
  BY <1>5 DEF TestImplement, Claims
<1>6. CASE Review
  BY <1>6 DEF Review, Reviews
<1>7. CASE MergeGate
  BY <1>7 DEF MergeGate
<1>8. CASE PassThrough
  BY <1>8 DEF PassThrough, Verdicts, Shipping, Ended
<1>9. CASE OpenReview
  BY <1>9 DEF OpenReview
<1>10. CASE Decided
  BY <1>10 DEF Decided, Verdicts, Shipping, Ended
<1>11. CASE ReviewExpires
  BY <1>11 DEF ReviewExpires, Verdicts, Shipping, Ended
<1>12. CASE PrepareRetry
  BY <1>12 DEF PrepareRetry
<1>13. CASE PrepareRejectionRetry
  BY <1>13 DEF PrepareRejectionRetry
<1>14. CASE OrchestratorShip
  BY <1>14 DEF OrchestratorShip
<1>15. CASE AwaitingHuman
  BY <1>15 DEF AwaitingHuman
<1>16. CASE Failed
  BY <1>16 DEF Failed
<1>17. CASE RouteAfterPlan
  BY <1>17 DEF RouteAfterPlan, Route
<1>18. CASE RouteAfterGate
  BY <1>18 DEF RouteAfterGate, Route, GateVerdict
<1>19. CASE RouteAfterDiffReview
  BY <1>19 DEF RouteAfterDiffReview, Route
<1>20. CASE RouteAfterRetry
  BY <1>20 DEF RouteAfterRetry, Route, RetryTarget
<1>21. CASE Cancelled
  BY <1>21 DEF Cancelled
<1>22. CASE NodeRaises
  BY <1>22 DEF NodeRaises
<1>23. CASE StopRequested
  BY <1>23 DEF StopRequested
<1>24. CASE ClockPassesDeadline
  BY <1>24 DEF ClockPassesDeadline
<1>25. CASE UNCHANGED vars
  BY <1>25 DEF vars
<1> QED
  BY <1>1, <1>2, <1>3, <1>4, <1>5, <1>6, <1>7, <1>8, <1>9, <1>10, <1>11,
     <1>12, <1>13, <1>14, <1>15, <1>16, <1>17, <1>18, <1>19, <1>20, <1>21,
     <1>22, <1>23, <1>24, <1>25
  DEF Next, Node, Edge, Environment

\* A TechLead pass is paid for before route_after_retry grants it.
LEMMA ReplansStep == Inv /\ [Next]_vars => Replans'
<1> SUFFICES ASSUME Inv, [Next]_vars PROVE Replans'
  OBVIOUS
<1> USE BudgetAssumption
    DEF Inv, budget, evidence, env, history, Enter, TypeOK, Known, Replans,
        ReplanBudget
<1>1. CASE InitSession
  BY <1>1 DEF InitSession
<1>2. CASE TechLeadPlan
  BY <1>2 DEF TechLeadPlan
<1>3. CASE CoderLoop
  BY <1>3 DEF CoderLoop
<1>4. CASE CoderVerify
  BY <1>4 DEF CoderVerify, AcceptanceRun, Claims
<1>5. CASE TestImplement
  BY <1>5 DEF TestImplement, Claims
<1>6. CASE Review
  BY <1>6 DEF Review, Reviews
<1>7. CASE MergeGate
  BY <1>7 DEF MergeGate
<1>8. CASE PassThrough
  BY <1>8 DEF PassThrough
<1>9. CASE OpenReview
  BY <1>9 DEF OpenReview
<1>10. CASE Decided
  BY <1>10 DEF Decided
<1>11. CASE ReviewExpires
  BY <1>11 DEF ReviewExpires
<1>12. CASE PrepareRetry
  BY <1>12 DEF PrepareRetry
<1>13. CASE PrepareRejectionRetry
  BY <1>13 DEF PrepareRejectionRetry
<1>14. CASE OrchestratorShip
  BY <1>14 DEF OrchestratorShip
<1>15. CASE AwaitingHuman
  BY <1>15 DEF AwaitingHuman
<1>16. CASE Failed
  BY <1>16 DEF Failed
<1>17. CASE RouteAfterPlan
  BY <1>17 DEF RouteAfterPlan, Route
<1>18. CASE RouteAfterGate
  BY <1>18 DEF RouteAfterGate, Route, GateVerdict
<1>19. CASE RouteAfterDiffReview
  BY <1>19 DEF RouteAfterDiffReview, Route
<1>20. CASE RouteAfterRetry
  BY <1>20 DEF RouteAfterRetry, Route, RetryTarget
<1>21. CASE Cancelled
  BY <1>21 DEF Cancelled
<1>22. CASE NodeRaises
  BY <1>22 DEF NodeRaises
<1>23. CASE StopRequested
  BY <1>23 DEF StopRequested
<1>24. CASE ClockPassesDeadline
  BY <1>24 DEF ClockPassesDeadline
<1>25. CASE UNCHANGED vars
  BY <1>25 DEF vars
<1> QED
  BY <1>1, <1>2, <1>3, <1>4, <1>5, <1>6, <1>7, <1>8, <1>9, <1>10, <1>11,
     <1>12, <1>13, <1>14, <1>15, <1>16, <1>17, <1>18, <1>19, <1>20, <1>21,
     <1>22, <1>23, <1>24, <1>25
  DEF Next, Node, Edge, Environment

\* Verdicts and errors are consumed by the next edge.
LEMMA VerdictsStep == Inv /\ [Next]_vars => Verdicts'
<1> SUFFICES ASSUME Inv, [Next]_vars PROVE Verdicts'
  OBVIOUS
<1> USE DEF Inv, budget, evidence, env, history, Enter, TypeOK, Verdicts,
            Shipping, Ended
<1>1. CASE InitSession
  BY <1>1 DEF InitSession
<1>2. CASE TechLeadPlan
  BY <1>2 DEF TechLeadPlan
<1>3. CASE CoderLoop
  BY <1>3 DEF CoderLoop
<1>4. CASE CoderVerify
  BY <1>4 DEF CoderVerify, AcceptanceRun, Claims
<1>5. CASE TestImplement
  BY <1>5 DEF TestImplement, Claims
<1>6. CASE Review
  BY <1>6 DEF Review, Reviews
<1>7. CASE MergeGate
  BY <1>7 DEF MergeGate
<1>8. CASE PassThrough
  BY <1>8 DEF PassThrough
<1>9. CASE OpenReview
  BY <1>9 DEF OpenReview
<1>10. CASE Decided
  BY <1>10 DEF Decided
<1>11. CASE ReviewExpires
  BY <1>11 DEF ReviewExpires
<1>12. CASE PrepareRetry
  BY <1>12 DEF PrepareRetry
<1>13. CASE PrepareRejectionRetry
  BY <1>13 DEF PrepareRejectionRetry
<1>14. CASE OrchestratorShip
  BY <1>14 DEF OrchestratorShip
<1>15. CASE AwaitingHuman
  BY <1>15 DEF AwaitingHuman
<1>16. CASE Failed
  BY <1>16 DEF Failed
<1>17. CASE RouteAfterPlan
  BY <1>17 DEF RouteAfterPlan, Route
<1>18. CASE RouteAfterGate
  BY <1>18 DEF RouteAfterGate, Route, GateVerdict
<1>19. CASE RouteAfterDiffReview
  BY <1>19 DEF RouteAfterDiffReview, Route
<1>20. CASE RouteAfterRetry
  BY <1>20 DEF RouteAfterRetry, Route, RetryTarget
<1>21. CASE Cancelled
  BY <1>21 DEF Cancelled
<1>22. CASE NodeRaises
  BY <1>22 DEF NodeRaises
<1>23. CASE StopRequested
  BY <1>23 DEF StopRequested
<1>24. CASE ClockPassesDeadline
  BY <1>24 DEF ClockPassesDeadline
<1>25. CASE UNCHANGED vars
  BY <1>25 DEF vars
<1> QED
  BY <1>1, <1>2, <1>3, <1>4, <1>5, <1>6, <1>7, <1>8, <1>9, <1>10, <1>11,
     <1>12, <1>13, <1>14, <1>15, <1>16, <1>17, <1>18, <1>19, <1>20, <1>21,
     <1>22, <1>23, <1>24, <1>25
  DEF Next, Node, Edge, Environment

\* Nothing between the merge gate and END touches what it decided on.
LEMMA AcceptedStep == Inv /\ [Next]_vars => Accepted'
<1> SUFFICES ASSUME Inv, [Next]_vars PROVE Accepted'
  OBVIOUS
<1> USE DEF Inv, budget, evidence, env, history, Enter, TypeOK, Accepted,
            AtGate, Shipping
<1>1. CASE InitSession
  BY <1>1 DEF InitSession, ReviewAccepted, CoverageSatisfied, Passed
<1>2. CASE TechLeadPlan
  BY <1>2 DEF TechLeadPlan, ReviewAccepted, CoverageSatisfied, Passed
<1>3. CASE CoderLoop
  BY <1>3 DEF CoderLoop, ReviewAccepted, CoverageSatisfied, Passed
<1>4. CASE CoderVerify
  BY <1>4
  DEF CoderVerify, AcceptanceRun, Claims, ReviewAccepted, CoverageSatisfied,
        Passed
<1>5. CASE TestImplement
  BY <1>5 DEF TestImplement, Claims, ReviewAccepted, CoverageSatisfied, Passed
<1>6. CASE Review
  BY <1>6 DEF Review, Reviews, ReviewAccepted, CoverageSatisfied, Passed
<1>7. CASE MergeGate
  BY <1>7 DEF MergeGate, ReviewAccepted, CoverageSatisfied, Passed
<1>8. CASE PassThrough
  BY <1>8 DEF PassThrough, ReviewAccepted, CoverageSatisfied, Passed
<1>9. CASE OpenReview
  BY <1>9 DEF OpenReview, ReviewAccepted, CoverageSatisfied, Passed
<1>10. CASE Decided
  BY <1>10 DEF Decided, ReviewAccepted, CoverageSatisfied, Passed
<1>11. CASE ReviewExpires
  BY <1>11 DEF ReviewExpires, ReviewAccepted, CoverageSatisfied, Passed
<1>12. CASE PrepareRetry
  BY <1>12 DEF PrepareRetry, ReviewAccepted, CoverageSatisfied, Passed
<1>13. CASE PrepareRejectionRetry
  BY <1>13 DEF PrepareRejectionRetry, ReviewAccepted, CoverageSatisfied, Passed
<1>14. CASE OrchestratorShip
  BY <1>14 DEF OrchestratorShip, ReviewAccepted, CoverageSatisfied, Passed
<1>15. CASE AwaitingHuman
  BY <1>15 DEF AwaitingHuman, ReviewAccepted, CoverageSatisfied, Passed
<1>16. CASE Failed
  BY <1>16 DEF Failed, ReviewAccepted, CoverageSatisfied, Passed
<1>17. CASE RouteAfterPlan
  BY <1>17 DEF RouteAfterPlan, Route, ReviewAccepted, CoverageSatisfied, Passed
<1>18. CASE RouteAfterGate
  BY <1>18
  DEF RouteAfterGate, Route, GateVerdict, ReviewAccepted, CoverageSatisfied,
        Passed
<1>19. CASE RouteAfterDiffReview
  BY <1>19
  DEF RouteAfterDiffReview, Route, ReviewAccepted, CoverageSatisfied, Passed
<1>20. CASE RouteAfterRetry
  BY <1>20
  DEF RouteAfterRetry, Route, RetryTarget, ReviewAccepted, CoverageSatisfied,
        Passed
<1>21. CASE Cancelled
  BY <1>21 DEF Cancelled, ReviewAccepted, CoverageSatisfied, Passed
<1>22. CASE NodeRaises
  BY <1>22 DEF NodeRaises, ReviewAccepted, CoverageSatisfied, Passed
<1>23. CASE StopRequested
  BY <1>23 DEF StopRequested, ReviewAccepted, CoverageSatisfied, Passed
<1>24. CASE ClockPassesDeadline
  BY <1>24 DEF ClockPassesDeadline, ReviewAccepted, CoverageSatisfied, Passed
<1>25. CASE UNCHANGED vars
  BY <1>25 DEF vars, ReviewAccepted, CoverageSatisfied, Passed
<1> QED
  BY <1>1, <1>2, <1>3, <1>4, <1>5, <1>6, <1>7, <1>8, <1>9, <1>10, <1>11,
     <1>12, <1>13, <1>14, <1>15, <1>16, <1>17, <1>18, <1>19, <1>20, <1>21,
     <1>22, <1>23, <1>24, <1>25
  DEF Next, Node, Edge, Environment

\* A tested change stays the change that ships.
LEMMA EvidenceStep == Inv /\ [Next]_vars => Evidence'
<1> SUFFICES ASSUME Inv, [Next]_vars PROVE Evidence'
  OBVIOUS
<1> USE DEF Inv, budget, evidence, env, history, Enter, TypeOK, Known,
            AfterReview, Evidence, ShippedWasTested, AtGate, Shipping
<1>1. CASE InitSession
  BY <1>1 DEF InitSession
<1>2. CASE TechLeadPlan
  BY <1>2 DEF TechLeadPlan
<1>3. CASE CoderLoop
  BY <1>3 DEF CoderLoop
<1>4. CASE CoderVerify
  BY <1>4 DEF CoderVerify, AcceptanceRun, Claims
<1>5. CASE TestImplement
  <2>1. tested => tested'
    BY <1>5 DEF TestImplement
  <2>2. /\ pc = "testImplement" /\ pc' = "review" /\ ~stop
        /\ UNCHANGED <<plan_coverage, late, stop>>
    BY <1>5 DEF TestImplement
  <2> QED
    BY <2>1, <2>2
<1>6. CASE Review
  BY <1>6 DEF Review, Reviews
<1>7. CASE MergeGate
  BY <1>7 DEF MergeGate
<1>8. CASE PassThrough
  BY <1>8 DEF PassThrough
<1>9. CASE OpenReview
  BY <1>9 DEF OpenReview
<1>10. CASE Decided
  BY <1>10 DEF Decided
<1>11. CASE ReviewExpires
  BY <1>11 DEF ReviewExpires
<1>12. CASE PrepareRetry
  BY <1>12 DEF PrepareRetry
<1>13. CASE PrepareRejectionRetry
  BY <1>13 DEF PrepareRejectionRetry
<1>14. CASE OrchestratorShip
  BY <1>14 DEF OrchestratorShip
<1>15. CASE AwaitingHuman
  BY <1>15 DEF AwaitingHuman
<1>16. CASE Failed
  BY <1>16 DEF Failed
<1>17. CASE RouteAfterPlan
  BY <1>17 DEF RouteAfterPlan, Route
<1>18. CASE RouteAfterGate
  BY <1>18 DEF RouteAfterGate, Route, GateVerdict
<1>19. CASE RouteAfterDiffReview
  <2>1. pc = "afterDiffReview" => plan_coverage.ok
    BY CoverageAssumption DEF Accepted, ReviewAccepted, CoverageSatisfied
  <2> QED
    BY <1>19, <2>1 DEF RouteAfterDiffReview, Route
<1>20. CASE RouteAfterRetry
  BY <1>20 DEF RouteAfterRetry, Route, RetryTarget
<1>21. CASE Cancelled
  BY <1>21 DEF Cancelled
<1>22. CASE NodeRaises
  BY <1>22 DEF NodeRaises
<1>23. CASE StopRequested
  BY <1>23 DEF StopRequested
<1>24. CASE ClockPassesDeadline
  BY <1>24 DEF ClockPassesDeadline
<1>25. CASE UNCHANGED vars
  BY <1>25 DEF vars
<1> QED
  BY <1>1, <1>2, <1>3, <1>4, <1>5, <1>6, <1>7, <1>8, <1>9, <1>10, <1>11,
     <1>12, <1>13, <1>14, <1>15, <1>16, <1>17, <1>18, <1>19, <1>20, <1>21,
     <1>22, <1>23, <1>24, <1>25
  DEF Next, Node, Edge, Environment

-----------------------------------------------------------------------------

\* Every reachable state of a cycle satisfies the inductive invariant.
THEOREM Invariance == Spec => []Inv
<1>1. Inv /\ [Next]_vars => Inv'
  BY TypeStep, KnownStep, BudgetsStep, ReplansStep, VerdictsStep,
     AcceptedStep, EvidenceStep DEF Inv
<1> QED
  BY InitInv, <1>1, PTL DEF Spec

\* The state of SprintState stays well typed through every node and edge.
THEOREM Typing == Spec => []TypeOK
BY Invariance, PTL DEF Inv

\* Whatever the agents and the user do, the machine spends at most
\* MAX_REVIEW_RETRIES retries and the user at most MAX_USER_REJECTION_ROUNDS.
THEOREM AttemptsBounded == Spec => []AttemptBudget
<1>1. Inv => AttemptBudget
  BY DEF Inv, Budgets
<1> QED
  BY Invariance, <1>1, PTL

\* TechLead replans at most MAX_PLAN_RETRIES times, both kinds of retry taken
\* together.
THEOREM ReplansBounded == Spec => []ReplanBudget
<1>1. Inv => ReplanBudget
  BY DEF Inv, Replans
<1> QED
  BY Invariance, <1>1, PTL

\* No pass through the diff gate starts with an earlier pass's verdict.
THEOREM RejectionNeverStale == Spec => []NoStaleRejection
<1>1. Inv => NoStaleRejection
  BY DEF Inv, Verdicts, NoStaleRejection, Shipping, Ended
<1> QED
  BY Invariance, <1>1, PTL

\* What ships was accepted by the deterministic gate and not rejected by the
\* user, for every coverage result and every answer.
THEOREM ShipsOnlyAccepted == Spec => []ShippedWasAccepted
<1>1. Inv => ShippedWasAccepted
  BY DEF Inv, TypeOK, Verdicts, Accepted, ShippedWasAccepted, Shipping, Ended
<1> QED
  BY Invariance, <1>1, PTL

\* What ships had its acceptance commands run on that attempt, for every mix
\* of claims, cached outputs, skipped Testers, deadlines and stops.
THEOREM ShipsOnlyTested == Spec => []ShippedWasTested
<1>1. Inv => ShippedWasTested
  BY DEF Inv, Evidence
<1> QED
  BY Invariance, <1>1, PTL
=============================================================================
