----------------------------- MODULE RunRecords -----------------------------
(***************************************************************************)
(* What the database says of a run while it lives, and after.              *)
(*                                                                         *)
(* A code-mode run is written down in three places: its backlog row        *)
(* (written by admission, by the batch loop and by the Stop route), one    *)
(* sprint-session row per story (written by the cycle, by shipping and by  *)
(* approval), and the console session that started it (written by the      *)
(* handlers under the session lock, from what they read).  They are joined *)
(* by nothing but the order of these writes.  Session 0 is the run of a    *)
(* POST /sprint/from-ticket, which has a sprint-session row only.          *)
(***************************************************************************)
EXTENDS Naturals

CONSTANTS
    N,          \* the stories of the plan, in sort_stories order
    MaxCrashes  \* bound: how often the process dies

ASSUME StoriesAssumption == N \in Nat \ {0}
ASSUME CrashAssumption == MaxCrashes \in Nat

VARIABLES
    boot,       \* serving, or the loop of the start-up sweep that comes next
    crashes,    \* how often the process died
    run,        \* where the prompt run's wrapper and body are
    ticket,     \* the same for the ticket run
    story,      \* stories begun by the batch loop
    cycle,      \* create_and_run_cycle of the session that holds the slot
    done,       \* completed_session_ids, the list in memory
    token,      \* the prompt run's CancelToken
    backlog,    \* BacklogRun.status as stored
    completed,  \* BacklogRun.completed_session_ids as stored
    sprint,     \* SprintSession.status of each session as stored
    pushed,     \* the sessions whose pull request is open
    console,    \* ConsoleSession.status as stored
    ref,        \* whether its sprint_ref names the run
    handler     \* the request inside the session lock, and the copy it holds

vars == <<boot, crashes, run, ticket, story, cycle, done, token, backlog,
          completed, sprint, pushed, console, ref, handler>>

slotVars == <<run, ticket, story, cycle, done, token>>
rowVars  == <<backlog, completed, sprint, pushed>>
webVars  == <<console, ref, handler>>
bootVars == <<boot, crashes>>

Stories  == 1..N
Sessions == 0..N

RunEnds     == {"completed", "failed", "cancelled"}
Admitted    == {"admitting", "planning", "batch", "cycle", "leaving"}
Registered  == {"queued"} \cup Admitted
Working     == {"admitting", "planning", "batch", "cycle"}
Shipped     == {"awaiting_human", "approved"}
Idle        == [at |-> "none", status |-> "ready"]

\* RUNNING stands for AWAITING_REVIEW too: both mean that a run is executing.
ConsoleStatus == {"ready", "queued", "running"} \cup RunEnds

TypeOK ==
    /\ boot \in {"serving", "runs", "sprints", "consoles"}
    /\ crashes \in 0..MaxCrashes
    /\ run \in {"none", "gone"} \cup Registered
    /\ ticket \in {"none", "queued", "cycle", "gone"}
    /\ story \in 0..N
    /\ cycle \in {"idle", "working", "pushing", "marked"} \cup RunEnds
    /\ done \subseteq Stories
    /\ token \in BOOLEAN
    /\ backlog \in {"absent", "pending", "running"} \cup RunEnds
    /\ completed \subseteq Stories
    /\ sprint \in [Sessions -> {"absent", "pending", "running", "failed",
                                "cancelled"} \cup Shipped]
    /\ pushed \subseteq Sessions
    /\ console \in ConsoleStatus
    /\ ref \in BOOLEAN
    /\ handler \in [at : {"none", "starting", "polled", "mirrored",
                          "accepted", "withdrawn", "dead"},
                    status : ConsoleStatus]

Init ==
    /\ boot = "serving" /\ crashes = 0
    /\ run = "none" /\ ticket = "none"
    /\ story = 0 /\ cycle = "idle" /\ done = {} /\ token = FALSE
    /\ backlog = "absent" /\ completed = {}
    /\ sprint = [s \in Sessions |-> "absent"]
    /\ pushed = {}
    /\ console = "ready" /\ ref = FALSE /\ handler = Idle

\* The single admission slot; RunRegistry has the queue before it.
SlotBusy == run \in Admitted \/ ticket = "cycle"
Serving  == boot = "serving"

\* The session the running cycle works for.
Current == IF ticket = "cycle" THEN 0 ELSE story

\* The registry lists the session's run; a session without a reference asks
\* for none.
Live == ref /\ run \in Registered

\* position(): a queued run with nothing ahead reports 0, which is falsy.
Behind == run = "queued" /\ SlotBusy

(***************************************************************************)
(* Starting and admission (api/app.py).                                    *)
(***************************************************************************)

\* start_from_prompt_run has no await: the PENDING row, the registry entry and
\* the run_queued event are one step, and the session is saved in a later one.
\* The event is written last: if that raises, the caller fails the session it
\* has not yet given a reference, and the run it no longer knows stays queued.
StartRun ==
    /\ Serving /\ handler = Idle /\ console = "ready" /\ run = "none"
    /\ backlog' = "pending"
    /\ run' = "queued"
    /\ \E told \in BOOLEAN :
          handler' = [at |-> "starting",
                      status |-> IF ~told THEN "failed"
                                 ELSE IF SlotBusy THEN "queued"
                                 ELSE "running"]
    /\ UNCHANGED <<bootVars, ticket, story, cycle, done, token, completed,
                   sprint, pushed, console, ref>>

\* The row cannot be saved: the session is failed and nothing is submitted.
StartFails ==
    /\ Serving /\ handler = Idle /\ console = "ready" /\ run = "none"
    /\ handler' = [at |-> "starting", status |-> "failed"]
    /\ UNCHANGED <<bootVars, slotVars, rowVars, console, ref>>

\* The copy is saved: with the reference, or failed and without one.
StartSaved ==
    /\ handler.at = "starting"
    /\ console' = handler.status
    /\ ref' = (handler.status # "failed")
    /\ handler' = Idle
    /\ UNCHANGED <<bootVars, slotVars, rowVars>>

\* sprint_from_ticket stores PENDING and submits without an on_admit hook.
StartTicket ==
    /\ Serving /\ ticket = "none"
    /\ sprint' = [sprint EXCEPT ![0] = "pending"]
    /\ ticket' = "queued"
    /\ UNCHANGED <<bootVars, run, story, cycle, done, token, backlog,
                   completed, pushed, webVars>>

Admit ==
    /\ run = "queued" /\ ~SlotBusy
    /\ run' = "admitting"
    /\ UNCHANGED <<bootVars, ticket, story, cycle, done, token, rowVars,
                   webVars>>

\* _on_admit loads and saves the row in threads; nothing else writes it then.
OnAdmit ==
    /\ run = "admitting"
    /\ backlog' = "running"
    /\ run' = "planning"
    /\ UNCHANGED <<bootVars, ticket, story, cycle, done, token, completed,
                   sprint, pushed, webVars>>

(***************************************************************************)
(* The body: run_from_prompt and run_backlog_batched.                      *)
(***************************************************************************)

\* Clone, index, lane, ScrumMaster.  A failure, a Stop seen at a checkpoint
\* and the watchdog all leave run_from_prompt by the same unguarded raise.
PlanFails ==
    /\ run = "planning"
    /\ run' = "leaving"
    /\ UNCHANGED <<bootVars, ticket, story, cycle, done, token, rowVars,
                   webVars>>

BatchStarts ==
    /\ run = "planning"
    /\ backlog' = "running" /\ completed' = {}
    /\ done' = {}
    /\ run' = "batch"
    /\ UNCHANGED <<bootVars, ticket, story, cycle, token, sprint, pushed,
                   webVars>>

\* The last save of the batch: its status, and the stories completed so far.
SaveOutcome(status) ==
    /\ backlog' = status
    /\ completed' = done
    /\ run' = "leaving"
    /\ UNCHANGED <<bootVars, ticket, story, done, token, sprint, pushed,
                   webVars>>

\* The checkpoint between stories: from check_cancelled to the session's first
\* save there is no await, so a Stop lands before all of it or after.
BeginStory ==
    /\ run = "batch" /\ story < N /\ ~token
    /\ story' = story + 1
    /\ sprint' = [sprint EXCEPT ![story + 1] = "running"]
    /\ run' = "cycle" /\ cycle' = "working"
    /\ UNCHANGED <<bootVars, ticket, done, token, backlog, completed, pushed,
                   webVars>>

StopBetweenStories ==
    /\ run = "batch" /\ story < N /\ token
    /\ SaveOutcome("cancelled")
    /\ UNCHANGED cycle

\* create_jira_tickets or a workspace raises: the generic arm.
BatchFails ==
    /\ run = "batch" /\ story < N
    /\ SaveOutcome("failed")
    /\ UNCHANGED cycle

BatchCompletes ==
    /\ run = "batch" /\ story = N
    /\ SaveOutcome("completed")
    /\ UNCHANGED cycle

\* Bug: a Stop that arrived during the cycle retracts the story it shipped.
RecordUnlessStopped ==
    /\ run = "cycle" /\ cycle = "completed" /\ cycle' = "idle"
    /\ IF token
       THEN SaveOutcome("cancelled")
       ELSE /\ done' = done \cup {story} /\ completed' = done'
            /\ run' = "batch"
            /\ UNCHANGED <<bootVars, ticket, story, token, backlog, sprint,
                           pushed, webVars>>

\* What the loop makes of a returned cycle.
RecordCompleted ==
    /\ run = "cycle" /\ cycle = "completed"
    /\ done' = done \cup {story} /\ completed' = done'
    /\ run' = "batch" /\ cycle' = "idle"
    /\ UNCHANGED <<bootVars, ticket, story, token, backlog, sprint, pushed,
                   webVars>>

RecordFailed ==
    /\ run = "cycle" /\ cycle \in {"failed", "cancelled"}
    /\ SaveOutcome(cycle)
    /\ cycle' = "idle"

\* stop_all_lanes, the registry's teardown, and the entry goes.
Leave ==
    /\ run = "leaving"
    /\ run' = "gone"
    /\ UNCHANGED <<bootVars, ticket, story, cycle, done, token, rowVars,
                   webVars>>

AdmitTicket ==
    /\ ticket = "queued" /\ ~SlotBusy
    /\ ticket' = "cycle" /\ cycle' = "working"
    /\ sprint' = [sprint EXCEPT ![0] = "running"]
    /\ UNCHANGED <<bootVars, run, story, done, token, backlog, completed,
                   pushed, webVars>>

TicketEnds ==
    /\ ticket = "cycle" /\ cycle \in RunEnds
    /\ ticket' = "gone" /\ cycle' = "idle"
    /\ UNCHANGED <<bootVars, run, story, done, token, rowVars, webVars>>

(***************************************************************************)
(* One cycle (orchestrator/session.py, orchestrator/sprint.py).            *)
(***************************************************************************)

\* The cycle returns with its final save; what it saves overwrites the row.
Return(result, status) ==
    /\ cycle' = result
    /\ sprint' = [sprint EXCEPT ![Current] = status]
    /\ UNCHANGED <<bootVars, run, ticket, story, done, token, backlog,
                   completed, pushed, webVars>>

\* The failed node, or any node raising before the pull request exists.
CycleFails ==
    /\ cycle = "working"
    /\ Return("failed", "failed")

\* A checkpoint of the graph sees the token.
CycleStopped ==
    /\ cycle = "working" /\ ticket # "cycle" /\ token
    /\ Return("cancelled", "cancelled")

\* ship(): commit, push, create_pull_request ...
OpenPullRequest ==
    /\ cycle = "working"
    /\ pushed' = pushed \cup {Current}
    /\ cycle' = "pushing"
    /\ UNCHANGED <<bootVars, run, ticket, story, done, token, backlog,
                   completed, sprint, webVars>>

\* ... the Jira comment or transition raises with the pull request open ...
ShipFails ==
    /\ cycle = "pushing"
    /\ Return("failed", "failed")

\* ... or the row is marked, before the graph's next two node-end saves.
MarkShipped ==
    /\ cycle = "pushing"
    /\ cycle' = "marked"
    /\ sprint' = [sprint EXCEPT ![Current] = "awaiting_human"]
    /\ UNCHANGED <<bootVars, run, ticket, story, done, token, backlog,
                   completed, pushed, webVars>>

\* A node-end save between ship and the end writes the graph's own copy.
PersistProgress ==
    /\ cycle = "marked"
    /\ sprint' = [sprint EXCEPT ![Current] = "awaiting_human"]
    /\ UNCHANGED <<bootVars, slotVars, backlog, completed, pushed, webVars>>

CycleCompletes ==
    /\ cycle = "marked"
    /\ Return("completed", "awaiting_human")

\* approve_session reads, checks and saves without an await.
Approve ==
    /\ Serving
    /\ \E s \in Sessions :
        /\ sprint[s] = "awaiting_human"
        /\ sprint' = [sprint EXCEPT ![s] = "approved"]
    /\ UNCHANGED <<bootVars, slotVars, backlog, completed, pushed, webVars>>

\* The watchdog's CancelledError inside the cycle: its cancel arm saves, and
\* so does the batch's as the exception passes through both.  ship() has no
\* await, so the exception cannot arrive there.
HardCancelCycle ==
    /\ run = "cycle" /\ cycle \in {"working", "marked"} /\ token
    /\ sprint' = [sprint EXCEPT ![story] = "cancelled"]
    /\ cycle' = "idle"
    /\ backlog' = "cancelled" /\ completed' = done
    /\ run' = "leaving"
    /\ UNCHANGED <<bootVars, ticket, story, done, token, pushed, webVars>>

(***************************************************************************)
(* The console session (api/console/routes.py, run_bridge.py).             *)
(***************************************************************************)

\* GET: sync_sprint_progress takes the queue position first ...
Poll ==
    /\ Serving /\ handler = Idle /\ ref /\ console \in {"queued", "running"}
    /\ handler' = [at |-> "polled",
                   status |-> IF Behind THEN console ELSE "running"]
    /\ UNCHANGED <<bootVars, slotVars, rowVars, console, ref>>

\* Bug: a cancelled row is not an end worth mirroring.
MirrorSome ==
    /\ handler.at = "polled"
    /\ handler' = [at |-> "mirrored",
                   status |-> IF backlog \in {"completed", "failed"}
                              THEN backlog ELSE handler.status]
    /\ UNCHANGED <<bootVars, slotVars, rowVars, console, ref>>

\* ... then reads the backlog row in a thread ...
Mirror ==
    /\ handler.at = "polled"
    /\ handler' = [at |-> "mirrored",
                   status |-> IF backlog \in RunEnds THEN backlog
                              ELSE handler.status]
    /\ UNCHANGED <<bootVars, slotVars, rowVars, console, ref>>

\* ... and saves its copy after one more await.
PollSaved ==
    /\ handler.at = "mirrored"
    /\ console' = handler.status
    /\ handler' = Idle
    /\ UNCHANGED <<bootVars, slotVars, rowVars, ref>>

\* POST /cancel decides on the stored status, and on the registry.
StopDead ==
    /\ Serving /\ handler = Idle /\ console \notin RunEnds
    /\ ~Live
    /\ handler' = [at |-> "dead", status |-> "cancelled"]
    /\ UNCHANGED <<bootVars, slotVars, rowVars, console, ref>>

StopQueued ==
    /\ Serving /\ handler = Idle /\ console \notin RunEnds
    /\ Live /\ run = "queued"
    /\ run' = "gone"
    /\ handler' = [at |-> "withdrawn", status |-> "cancelled"]
    /\ UNCHANGED <<bootVars, ticket, story, cycle, done, token, rowVars,
                   console, ref>>

\* Bug: the session is over as soon as the Stop is accepted.
StopAdmittedEnds ==
    /\ Serving /\ handler = Idle /\ console \notin RunEnds
    /\ Live /\ run \in Admitted
    /\ token' = TRUE
    /\ handler' = [at |-> "accepted", status |-> "cancelled"]
    /\ UNCHANGED <<bootVars, run, ticket, story, cycle, done, rowVars,
                   console, ref>>

\* Bug: an executing run's row is settled like a withdrawn one's.
StopAdmittedSettles ==
    /\ Serving /\ handler = Idle /\ console \notin RunEnds
    /\ Live /\ run \in Admitted
    /\ token' = TRUE
    /\ handler' = [at |-> "withdrawn", status |-> console]
    /\ UNCHANGED <<bootVars, run, ticket, story, cycle, done, rowVars,
                   console, ref>>

StopAdmitted ==
    /\ Serving /\ handler = Idle /\ console \notin RunEnds
    /\ Live /\ run \in Admitted
    /\ token' = TRUE
    /\ handler' = [at |-> "accepted", status |-> console]
    /\ UNCHANGED <<bootVars, run, ticket, story, cycle, done, rowVars,
                   console, ref>>

\* cancel_backlog_run: the body of a withdrawn run will never write its row.
CancelBacklogRun ==
    /\ handler.at = "withdrawn"
    /\ backlog' = IF backlog \in {"completed", "failed"} THEN backlog
                  ELSE "cancelled"
    /\ handler' = [handler EXCEPT !.at = "dead"]
    /\ UNCHANGED <<bootVars, slotVars, completed, sprint, pushed, console, ref>>

StopSaved ==
    /\ handler.at \in {"accepted", "dead"}
    /\ console' = handler.status
    /\ handler' = Idle
    /\ UNCHANGED <<bootVars, slotVars, rowVars, ref>>

(***************************************************************************)
(* A restart (api/app.py lifespan, orchestrator/run_recovery.py).          *)
(***************************************************************************)

Crash ==
    /\ crashes < MaxCrashes
    /\ crashes' = crashes + 1
    /\ boot' = "runs"
    /\ run' = IF run = "none" THEN "none" ELSE "gone"
    /\ ticket' = IF ticket = "none" THEN "none" ELSE "gone"
    /\ cycle' = "idle" /\ token' = FALSE /\ handler' = Idle
    /\ UNCHANGED <<story, done, rowVars, console, ref>>

SweepRuns ==
    /\ boot = "runs"
    /\ backlog' = IF backlog \in {"pending", "running"} THEN "failed"
                  ELSE backlog
    /\ boot' = "sprints"
    /\ UNCHANGED <<crashes, slotVars, completed, sprint, pushed, webVars>>

\* Only RUNNING rows: a PENDING one is not among the interrupted.
SweepSprints ==
    /\ boot = "sprints"
    /\ sprint' = [s \in Sessions |-> IF sprint[s] = "running" THEN "failed"
                                     ELSE sprint[s]]
    /\ boot' = "consoles"
    /\ UNCHANGED <<crashes, slotVars, backlog, completed, pushed, webVars>>

SweepConsoles ==
    /\ boot = "consoles"
    /\ console' = IF console \in {"queued", "running"} THEN "failed"
                  ELSE console
    /\ boot' = "serving"
    /\ UNCHANGED <<crashes, slotVars, rowVars, ref, handler>>

(***************************************************************************)
(* The specification.                                                      *)
(***************************************************************************)

Batch ==
    \/ Admit \/ OnAdmit \/ PlanFails \/ BatchStarts \/ BeginStory
    \/ StopBetweenStories \/ BatchFails \/ BatchCompletes
    \/ RecordCompleted \/ RecordFailed \/ Leave
    \/ AdmitTicket \/ TicketEnds

Cycle ==
    \/ CycleFails \/ CycleStopped \/ OpenPullRequest \/ ShipFails
    \/ MarkShipped \/ CycleCompletes

Finish == StartSaved \/ Mirror \/ PollSaved \/ CancelBacklogRun \/ StopSaved
Sweep  == SweepRuns \/ SweepSprints \/ SweepConsoles

Next ==
    \/ StartRun \/ StartFails \/ StartTicket
    \/ Batch \/ Cycle \/ PersistProgress \/ HardCancelCycle \/ Approve
    \/ Poll \/ StopDead \/ StopQueued \/ StopAdmitted \/ Finish
    \/ Crash \/ Sweep

Spec == Init /\ [][Next]_vars

\* Tasks and threads make progress, a cycle is bounded by its retry budgets
\* and its deadline, and the client keeps asking: GET /sessions/{id} takes the
\* session lock, whose waiters are served in order, so it is not starved by
\* other requests (strong fairness).
FairSpec ==
    /\ Spec
    /\ WF_vars(Batch) /\ WF_vars(Cycle) /\ WF_vars(Finish) /\ WF_vars(Sweep)
    /\ SF_vars(Poll)

(***************************************************************************)
(* Properties.                                                             *)
(***************************************************************************)

\* The two tables agree on what shipped.  A story listed as completed has its
\* pull request open, a run stored COMPLETED lists every story, and once the
\* process that ran it has ended the run itself (no restart cut it short) the
\* list is exactly the stories whose own row says shipped (batch_cycle.py's
\* saves, session.py's last save, sprint.py's mark).
RowsAgree ==
    /\ completed \subseteq pushed
    /\ backlog = "completed" => completed = Stories
    /\ (backlog \in RunEnds /\ run \in {"leaving", "gone"} /\ crashes = 0)
          => completed = {s \in Stories : sprint[s] \in Shipped}

\* The exception: the session was failed by its own start.
StartFailed == console = "failed" /\ ~ref

\* A console session that reports an end is right about it: no body of its run
\* is executing or waiting to execute, COMPLETED repeats the backlog row, and
\* FAILED does too unless a restart swept the session.  CANCELLED is only the
\* first of these: see StopDead on a stale status.  Of a session whose start
\* failed nothing can be said: its run may have been submitted before the
\* start failed, see EndMeansOver.
ConsoleIsHonest ==
    /\ (console \in RunEnds /\ ~StartFailed) => run \notin {"queued"} \cup Working
    /\ (ref /\ console = "failed" /\ crashes = 0) => backlog = "failed"
    /\ console = "completed" => ref /\ backlog = "completed"

\* run_bridge.py:3, "Console status is derived from run status, never owned":
\* an end of the session is an end of its run, whether or not the session has
\* the reference to tell.  A start that fails after its submit breaks it.
EndMeansOver == console \in RunEnds => run \notin {"queued"} \cup Working

\* Nothing rewrites an outcome: not the admission hook, the batch's first
\* save, the Stop route's cancel_backlog_run, a poll holding an older copy or
\* the sweep after a restart.
OutcomesStand ==
    [][/\ backlog \in RunEnds => backlog' = backlog
       /\ console \in RunEnds => console' = console]_vars

\* A run that wrote its outcome is eventually reported by its session.
OutcomeIsTold ==
    (backlog \in RunEnds /\ console # "ready") ~> console \in RunEnds

\* api/app.py:54, "a `running` row that no task backs is a lie the UI polls",
\* and run_recovery.py:8, "`pending` counts as interrupted too": once the
\* process serves, a row in flight belongs to a run in the registry.
RowsAreBacked ==
    Serving =>
        /\ backlog \in {"pending", "running"} => run \in Registered
        /\ sprint[0] \in {"pending", "running"} => ticket \in {"queued", "cycle"}
=============================================================================
