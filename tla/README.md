# TLA+ models of sprint-crew

sprint-crew runs a crew of language-model agents against a Git working tree: a
story is planned, coded, tested, reviewed, shown to a human as a diff and
shipped. The server is one asyncio process. Runs queue for a single slot,
because the machine holds one model at a time; a run is a LangGraph state
machine; a human may stop it, answer a diff review or walk away.

These modules model the parts in which order, concurrency and failure decide
correctness. Everything is translated from the Python source under
`src/src/sprint_crew/`; `PROJECT.json` maps each definition to the lines it
stands for.

## The system

| component | state | operations | interacts with |
|---|---|---|---|
| Run registry (`orchestrator/run_registry.py`) | `_entries`, `_waiting`, semaphore, per run: token, wrapper task, body task, watchdog | `submit`, `cancel`, `position`, `active_run_id`, the wrapper `_run` | every API route that starts or stops work; lanes through teardown |
| Model lanes (`graph/lanes.py`, `scripts/lane-ctl.sh`) | two containers (`coder`, `work`) | `ensure_lane`, `stop_lane`, `stop_all_lanes` | graph nodes, ask, clarify, teardown |
| Sprint graph (`graph/pipeline.py`, `graph/nodes/*`, `retry.py`, `merge_gate.py`) | `SprintState`: counters, coverage, evidence, verdicts | ten nodes, four conditional edges | agents, lanes, review gate, session store |
| Coding cycle (`agents/tech_lead*.py`, `coder*.py`, `tester.py`, `template_plan.py`) | the working copy, the plan, the coverage, retry counters | planning attempts, Coder loops, coverage rounds, build fix, Tester, retry scope | graph, plan scope, tools |
| Plan scope (`plan_validation.py`, `plan_coverage.py`, `paths.py`) | none | accept a plan, admit a write, measure coverage | coding cycle, tools |
| Diff review (`review_gate.py`, `diff_store.py`, `nodes/review.py`, `api/console/diffs.py`) | rows of `diff_reviews` and `diff_decisions`, waiters in memory | park, decide, close, expire | graph, Stop route, sweep |
| Sprint session (`orchestrator/session.py`, `store.py`, `sprint.py`) | session rows, Git branch | create and run a cycle, ship, approve | graph, Git, Jira |
| Batched backlog run (`orchestrator/batch_cycle.py`, `prompt_run.py`) | backlog rows, the list of completed stories | plan, run one cycle per story, record, end | graph, registry |
| Backlog order (`orchestrator/backlog.py`) | none | merge, drop, sort and cut the stories | batch |
| Plan runs (`plan_run.py`, `plan_store.py`, `api/console/plan.py`) | plan rows | plan a prompt into stories without coding them | registry, console |
| Console session (`api/console/routes.py`, `state.py`, `run_bridge.py`, `clarify.py`, `ask.py`) | console rows, an LRU of locks | message, answer, confirm, start, ask, stop, delete | registry, graph, event log |
| Console checkouts (`api/console/workspace.py`, `console_store.py`) | rows, directories | clone, index, reap, evict, sweep | console, vector index |
| Event log and stream (`event_log.py`, `event_bus.py`, `emitter.py`, `api/console/events.py`) | event rows, subscriber queues | append, publish, replay, stream | everything |
| Sweep (`run_recovery.py`) | none | mark interrupted runs after a restart | stores |
| Vector index (`vector/*`, `repo_context.py`) | manifest, collections | incremental passes, overlays, eviction | coding cycle, checkouts |
| Attachments (`attachment_*.py`) | files, rows | store, adopt, render | console, prompts |
| Agents, prompts, tools, Jira, subprocess helpers | none that outlives a call | model turns, file and Git work | graph |

Behaviours that are hard:

- *Interleaving.* A wrapper task can be cancelled before its first step, while
  parked on the semaphore, or just after the permit was handed to it. Teardown
  runs after the slot was released. A hard cancel unwinds the task but neither
  the subprocess nor the thread it awaited, so a save may land long after the
  lock that guarded it was released.
- *Two records of one fact.* `_waiting` beside the semaphore's own queue; a
  waiter in memory beside a row in SQLite; three tables that each say how a run
  ended; a row that says a checkout is ready beside the directory; a manifest
  beside the points it speaks of; test evidence beside the working tree.
- *Copies.* Handlers load a row, change the copy and save it one await later;
  the sweeper writes back rows it listed earlier and holds no lock.
- *Rules written apart.* What a plan may name, what the write gate admits, what
  the tools then write, what git shows of it and what the coverage demands have
  to fit together, and speak now of names and now of files.
- *Races with time.* The grace period of a Stop, the deadline of a cycle, the
  timeout of a review against the answer that arrives with it.
- *Crashes.* Rows, directories and points survive; tasks and waiters do not.
- *Budgets that bound each other.* Machine retries, user rejections, replans
  and the stall counter.

What makes each component correct: the registry admits one run at a time in
order, loses no permit, lets every run leave and every Stop through; the lanes
never hold two models nor keep one after the last run; the graph terminates
within its budgets, never routes on a stale verdict and ships only what was
tested and accepted; a plan that was accepted can be fulfilled, and what counts
as fulfilled is there; a review that is reported open has a run waiting on it,
its outcome stands and nothing ships but what the user submitted; the three
tables of a run agree and no outcome is rewritten; a confirmation is for what is
open and nothing the user said is lost; a row and its checkout agree and a live
session keeps its files; a stream shows every event once and ends; the index
agrees with its manifest; stories are worked after what they depend on.

## Modules

| module | models | checked by |
|---|---|---|
| `RunRegistry` | the registry | `MCRunRegistry` |
| `SingleSlotQueue` | what the registry promises its callers, without tasks or semaphores | `MCRunRegistry` and `RunLanesProofs` (refinement) |
| `RunLanes` (extends `RunRegistry`) | the lanes under the registry | `MCRunLanes` |
| `SprintGraph` | one cycle of the graph | `MCSprintGraph` |
| `PlanScope` | the rules about plans and paths: operators without state | `MCCodingCycle` |
| `CodingCycle` (extends `PlanScope`) | one ticket seen from its working copy | `MCCodingCycle` |
| `ReviewGate` | the human review: node, request, Stop route, store, crash | `MCReviewGate` |
| `RunRecords` | backlog, sprint-session and console rows of a run | `MCRunRecords` |
| `ConsoleDialogue` | one console session: rounds, questions, plan run | `MCConsoleDialogue` |
| `SessionFiles` | rows and checkouts of several sessions | `MCSessionFiles` |
| `EventStream` | the timeline: appends, bus, SSE stream, poll | `MCEventStream` |
| `VectorIndex` | collections and manifest under passes, eviction and crashes | `MCVectorIndex` |
| `BacklogOrder` | from the ScrumMaster's plan to the order of work | `MCBacklogOrder` |
| `RunLanesProofs` | theorems about `RunRegistry`, and on top of them about `RunLanes` | TLAPS |
| `SprintGraphProofs`, `CodingCycleProofs`, `ReviewGateProofs`, `ConsoleDialogueProofs`, `EventStreamProofs` | theorems about the module each is named for | TLAPS |
| `PromptRunProofs` | theorems about the two halves of a prompt run, `RunRecords` and `BacklogOrder` | TLAPS |
| `WorkspaceProofs` | theorems about what a session leaves on the disk, `SessionFiles` and `VectorIndex` | TLAPS |

How they divide the system. `RunRegistry` is the only one in which runs queue;
the modules above it (`RunRecords`, `ConsoleDialogue`) take its promise, one
admitted run at a time, as their admission guard. `SprintGraph` has the control
flow of a cycle and takes the coverage result as given; `CodingCycle` computes
it from what the agents wrote and leaves the flow out. `RunRecords` sees a cycle
as its saves. `ConsoleDialogue` and `SessionFiles` are the two halves of a
console session: what is said in it, and its files.

Operators commented "Bug:" are wrong variants of the definition that
follows; no specification uses them. Substituted for it, each breaks the
property `PROJECT.json` pairs it with, which shows that the property can fail.

### RunRegistry

One action is what a task does between two suspension points of the event
loop. `pc[r]` is the point at which the wrapper of run `r` is suspended;
`parked` is the semaphore's queue of pending futures and `ready` the loop's
queue of wrappers that have not started. Python's `asyncio.Semaphore` hands the
permit over by resolving the oldest future (`Release`), so between the
hand-over and the next step of the woken task a cancel can arrive
(`ResumeStopped`). `CancelQueued` contains all that `cancel()` does in one
turn, including `Task.cancel()` on a wrapper in any of its queued points:
a task that never took a step is closed unentered (`stillborn`).
The watchdog is a timer that fires once (`WatchdogFires`).

The asks have no teardown; `Torn` is the set of runs that do. A run id is
submitted once: ids are fresh uuids.

*Refinement.* `Queue` maps the waiting list to the abstract queue, the
run inside the admitted section to the active run, and the runs whose entry is
`done` to those that are over. Every registry step is one abstract step or none
(proved) and the abstract fairness (while nobody runs, someone waiting is
started) follows from the loop's. This holds although a permit handed to a run
that is stopped before it resumes goes back and on to the next waiter.

### RunLanes

`ensure_lane` and `stop_lane` are split where they suspend: probe, script,
wait, poll. `scripts` holds the lane-ctl processes in flight: one lands when it
lands, whether or not its caller still waits. `cursor[r]` walks
`stop_all_lanes`. `cut` records that a hard cancel left a script behind.
A body may use the lanes in any order, which covers the nodes' own sequences.
Docker is assumed to work; a container becomes healthy or stays loading.

### SprintGraph

`pc` names the node that runs next, with points of its own for the conditional
edges (the clock can move between a node and its edge), for the acceptance run
inside `codeImplement` and for the park inside `awaitDiffReview`. Agents are
nondeterministic within what the code lets through: a claim of passing tests, a
coverage result, findings. `tree`, `tested` and `replans` are history: what the
acceptance commands would return now, whether they were run on this attempt,
how often TechLead was asked again. The keyword scan over the reviewer's prose
is the field `asks`.

### PlanScope and CodingCycle

A working copy is a function `tree`: a file is "as HEAD has it", "changed or
created" or "deleted", a directory is there or gone. Plans and tools speak of
files by names. `normalize_path` leaves `..` alone and the rules compare names,
while the tools write the file a name resolves to (`File`), so the model has
names beside the files' own: `tests/../core` is a test to the write gate and
`src/core` to the disk. A plan is its steps' names, `files_to_touch`,
`out_of_scope`, and whether its commands pass the allow-list. `PlanScope` has
the rules as set algebra: `StructureOk`, `ScopeOk`, `PathsOk` (validation),
`MayEdit` and `MayTest` (the write gate), `Coverage` (missing, phantom,
unexpected, out-of-scope hits), `ScopeFromCoverage` (where a rejection goes
back to). Around them stands what they take for granted:

- `Takes`: an admitted name may still be refused by `resolve_safe_path`, and
  only a patch removes a file, by its own name;
- `Put`: writing a file makes its directory, and patch(1) removes a directory
  with the last file in it, unless HEAD has more there (`Held`);
- `Shown`: `git status --porcelain` leaves out what `.gitignore` says, names an
  untracked directory and not the files in it, and `collect_changed_paths` drops
  noise (`.orig`, caches);
- `Baseline`: what was in the clone at session start, files with an indexable
  suffix only.

Four limits: names that start with a dot (`normalize_path` takes a leading `./`
off as characters, so `.github/x` loses its dot), names of directories, names
that pass through a directory that may go, and directories that may go inside
one another are left out; a test lies under the top-level `tests/`.

`CodingCycle` walks one ticket through it. `Tickets` pairs the deterministic
template plan its text yields, if any, with whether it reads COMPLEX; the model
answers with any member of `Plans`. An agent's loop is any sequence of gated
writes and may end after any of them: turn limit, deadline, Stop, hand-off and
the early exit on green all lead to the same next step. A command writes past
the gate and may leave an empty directory or take one away. `strayed`, `tested`
and `fixed` are history: files written by a command or by another name than
their own, tests the Tester wrote, a build fix after the coverage was taken.

### ReviewGate

Three parties: the node parked in `_wait_for_decision`, the request inside the
session lock (one at a time), and the operating system. A key stands for one
(sprint session, attempt). `orphans` are store calls whose task was cancelled
while their thread still runs. `hit` records whether the watchdog's
CancelledError was delivered, and whether it cut a store call short.

### RunRecords

One code-mode run of `N` stories and, beside it, the run of a
`POST /sprint/from-ticket` (session 0), which shares the admission slot. The
variables are the three tables as stored (`backlog`, `completed`, `sprint`,
`console`) and the control points between their writes: `run` for the body of
the prompt run, `cycle` for `create_and_run_cycle`, `handler` for the one
request inside the session lock with the copy it will save. Code without an
await between two writes is one action (`StartRun`, `BeginStory`, `Approve`).
A start can fail in two places: before anything was saved (`StartFails`), and
when the run is submitted already and announcing it raises (`told` in
`StartRun`). Both save the session as failed and without a reference to its run
(`ref`), and without one neither poll nor Stop finds it (`Live`).
`Crash` may fall between any two actions; the start-up sweep is then three
steps (`SweepRuns`, `SweepSprints`, `SweepConsoles`), each of which may be the
last one before the next crash. Shipping is two steps: a Jira call may raise
when the pull request is already open. `RUNNING` of the console stands for
`AWAITING_REVIEW` too.

### ConsoleDialogue

`row` is the stored session, `holder` who is inside its lock, `copy` what that
one has loaded, changed and is saving. A handler is two actions: it takes the
lock with its new copy, and the thread saves it; the registry, other sessions'
runs (`busy`) and the bodies move on between. The ask body and the plan body
have one control point per await; `_finish` re-reads the row under the lock. A
watchdog strike (`StrikeAsk`, `StrikePlan`) ends a body wherever it is: it
releases the lock while the thread still owns the copy, which becomes an
`orphan` and lands later (`OrphanLands`). Question ids carry their round, as in
the code, so that an answer to an older round is recognised. What the
Interpreter asks is a free choice. `undone` records that an orphan overwrote a
newer row, `cut` that a strike hit the last `_finish`.

### SessionFiles

For each session: the row (`life`, workspace and index status, length of the
transcript), whether its directory is there, the stage of its preparation task,
who holds its lock. The preparation starts before the row it belongs to is
saved, and records its news under the lock from a fresh read (`RecordBegins`).
The bodies of asks and plan runs do the same with an answer, the end of an ask
and the end of a plan (`RecordAnswer`, `ClearAsk`, `FinishPlan`), but the
watchdog can strike them while a thread saves (`Abandons`): the lock is free and
the copy, now one of the `orphans`, lands later (`OrphanLands`).
The sweeper lists the rows once per phase, deletes a session's files
(`SweepFiles`) and then drops the row or writes back the one it listed
(`SweepRow`), with no lock but that of the session whose request started it.
`warmer[s]` is the set of sessions whose row was saved since that of `s` was,
which is all that the order by `updated_at` says; `BeyondCap` takes from the
listed rows those with a cap's worth of warmer ones among them. A session
expires when nothing of it is in flight, since that takes two weeks (`Expire`).
`raced`, `undone` and `torn` are history: sessions whose row changed under the
sweeper's hands, those a late save met another write of, and those whose deletion
met their clone or a crash. After that the row is at odds with what was done, so
no further request is made for such a session (`Request`, `Bodies`).

### EventStream

A frame is its seq, and a seq is its place in the table, so reading a page is a
subset of `1..Len(log)` above the cursor. `unpublished[p]` is what appender `p`
has committed and not yet put on the bus. The run's appends hold the event loop
from commit to last publish (`LoopFree` guards every other coroutine); what a
node hands over at its end waits in `node`, in the order it was emitted. The
appends of a request and of the backfill are in worker threads and hold
nothing. `at[s]` walks the generator of a stream; its client reconnects with the
cursor it has. The heartbeat may elapse with an event in the queue, because a
put from another thread does not wake the loop. The stored status and the run's
are one flag, `finished`. An old session has its events only in its sprint
sessions and no request that appends; the stream and the poll backfill it under
the session lock. Two variables are history: `overtaken` holds the seqs that
were still unpublished when a higher one was published, `grew` the streams that
were told to end while the table was growing.

### VectorIndex

A file's content is a version number. `manifest` is what sqlite says each
collection holds, `points` the versions that have points in Qdrant. A pass plans
from the manifest (`Begin`), drops, upserts file by file and then writes the
manifest; it may fail at any of these points, and nothing locks a collection, so
the passes of several sessions interleave. A session clones first (`Cloned`) and
indexes several awaits later (`IndexShared`), when the remote may have moved and
another session indexed what is newer. The run's overlay holds what its
workspace has and the shared collection's manifest lacks. `enforce_collection_lru`
drops whole collections, the collection first and its manifest after it. After a
crash the start-up sweep drops the collections no row names. `met` records
that two writers met on a collection or a crash split a deletion, `newest` the
newest clone a shared pass has begun with, `late` that one began with an older.

### BacklogOrder

`normalize_backlog_plan`, one step per loop iteration: merge, drop, sort, cut,
sort again. A story is its number in the ScrumMaster's plan; its key's place in
the alphabet is a free choice, since the sort starts from the keys. Each list
the code builds (stories kept, the first queue, the children set free, the
leftovers) is the set of its members put in the order of the plan or of the
keys: `InOrder`. Every dependency relation is an initial state, cycles and
self-dependencies included. The keys of a plan are taken to be distinct, which
`schemas/backlog.py` does not check.

## Runs

| run | asks | bounds |
|---|---|---|
| `registry` | one at a time, a stopped run never starts, every run leaves, a Stop gets through, teardown, refinement of the queue | 3 runs, 2 with teardown, no other bound: 13,050 states |
| `graph` | stale verdicts, what may ship, every cycle ends | retries 2, replans 1, user rounds 1, 3 coverage results: 461,261 states |
| `lanes` | never two models, no model left over | 2 runs: 55,590 states |
| `review` | open means awaited, outcomes stand, ships as answered, a park ends | 3 parks, 2 files, 1 user round, one hard cancel, one crash: 375,865 states |
| `records` | the tables agree, the console is honest, outcomes stand and are told | 2 stories and a ticket run, 1 crash: 28,750 states |
| `dialogue` | a confirmation is current, a completed session has its plan, nothing said is forgotten, ends stay ended, bodies settle | a first round and one after it, 1 question per round, 1 ask, hard stops, 1 restart: 166,602 states |
| `files` | a live session keeps its checkout, rows match the disk, writes keep writes, a preparation settles | 2 sessions (one new, one finished), a cap of 1, transcripts of 1, 1 restart or late save: 748,586 states |
| `events` | stored once, delivered in order without a gap, a stream ends | 1 stream with 2 connections, 1 poll, 1 request, 2 events of the run or 2 legacy ones, queue and page of 2: 137,672 states |
| `coding` | covered means there, a plan can be done, the Tester keeps the coverage, a code retry can help | 10 plans, 3 tickets, 7 files and 2 other names, 2 attempts, 2 coverage rounds, 1 file strayed into: 1,695,824 states |
| `unseen` | that a file the Coder made is not reported missing: violated | as `coding`, with the planned new file in a new directory |
| `index` | the points are what the manifest says, a good pass heals | 2 files, 2 sessions and a run, 2 versions, 2 commits or edits, 2 failures or crashes, 2 collections kept, symmetric sessions: 1,050,847 states |
| `backlog` | dependencies first, the cut keeps them | every relation over 3 stories with every order of keys, cut to 2: 160,170 states |

Why the bounds are enough.

- `registry`, `lanes`. Three runs are the least with which one can be
  admitted, another handed the permit and a third parked, so every race of a
  cancel with the hand-over occurs; two of them tear down while the third is
  admitted. For the lanes two are enough, since a conflict is between the
  run leaving the slot and the one entering it.
- `graph`. Two machine retries, one replan and one user rejection make each
  budget run out in the presence of the others; a satisfied coverage, a gap and
  an out-of-scope hit are the three ways coverage steers a retry.
- `review`. Three parks give an accepted, a rejected and a timed-out review in
  one run, with the rejection budget used up on the way; two files let an
  autosave cover a part of the snapshot.
- `records`. With two stories one can have shipped while the other fails, is
  stopped or is cut by a crash; the ticket run makes the slot busy, so that the
  backlog run is queued and can be withdrawn, or waits unknown to its session.
- `dialogue`. A second round replaces the questions of the first; one question
  and one plan run are enough for every pair of writers of the row (handler, ask
  body, plan body, a late save of either).
- `files`. With a cap of one and two sessions the older is evicted whenever
  both are ready; the sweeper works for one of them and on the other. One late
  save or one restart is enough for each to meet every other writer of the row,
  and a transcript of one for an entry to be lost.
- `events`. With three events, a queue of two overflows and a page of two
  leaves a second page; a stream and a poll are two clients for the backfill,
  and streams do not affect one another but through the lock.
- `coding`. The plans are listed in `MCCodingCycle` with what each is for: an
  edit, a new file announced and not announced, tests that exist and that do
  not, plans at odds with themselves, files git does not show or the tools
  refuse, one whose command may not run. HEAD has one test in its directory, so
  deleting it takes the directory away. One known file has two more names, one
  under `tests/`. A second attempt replans over a tree the first one left.
- `index`. Two files let a pass fail between them; the second fault is a crash
  or a failure after it. With two sessions a clone can be overtaken by a newer
  one. The shared collection, an overlay and another repository's are three, so
  that two kept make the third evict.
- `backlog`. Three stories have every shape a dependency relation distinguishes
  here (chains, forks, joins, cycles with something behind them), and a cap of
  two cuts one.

`CHECK_DEADLOCK FALSE` everywhere: each system stops when its runs are over or
its bounds used up. Symmetry is declared for the sessions of `index`, whose
properties are invariants and treat them alike; the runs that check liveness may
not use it, and the files and sessions of the others are few or differ from one
another.

## Fairness

- `RunRegistry!FairSpec`: the loop runs ready tasks, timers fire, `on_admit`
  and teardown return (both are bounded I/O), and a delivered CancelledError
  unwinds. Nobody has to press Stop and a body need not end. The promises that need
  bodies to end (`EveryRunLeaves`, `TeardownAlwaysRuns`) say so in their
  hypothesis `BodiesEnd`, which the timeouts on subprocesses, model calls and
  the review justify. `ArmedStopEnds` does without it: the watchdog is enough.
- `SprintGraph!FairSpec`: weak fairness of the graph's own steps taken together.
  Nodes return or raise; no agent has to succeed, no user to answer.
- `ReviewGate!FairSpec`: store calls return, timers fire, a request that was let
  in ends.
- `RunRecords!FairSpec`: the batch, the cycle, a request that holds the lock and
  the sweep go on. `Poll` is strongly fair: the browser polls a session for as
  long as it runs, and a poll waits for the session lock, which serves its
  waiters in order, so other requests cannot starve it for ever.
- `ConsoleDialogue!FairSpec`: tasks and threads go on, other sessions' runs end.
  What waits for the session lock or the admission slot is strongly fair, because
  both serve in order (`asyncio.Lock`, and the registry's semaphore as
  `RunRegistry` shows). A strike, an orphan's landing and a user's request are
  owed by nobody.
- `SessionFiles!FairSpec`: handlers and bodies inside the lock, clones, the
  sweeper and index passes return (subprocesses have timeouts); the
  preparation's wait for the lock is strongly fair. Expiry, requests, the bodies'
  turns, strikes, late saves and restarts are owed by nobody. `PrepSettles`
  takes the preparation's own steps not to raise: an exception of its first event
  (`workspace.py:58`) or of `_record` ends the task and leaves `cloning` in the
  row until the next restart.
- `EventStream!FairSpec`: an append that committed is published, a backfill
  goes on, the loop runs ready streams and heartbeats elapse. No client has to
  connect or read on, no run to finish.

`RunLanes`, `CodingCycle`, `VectorIndex` and `BacklogOrder` state no liveness: the end of a
cycle is `SprintGraph`'s to show, an index pass is never owed to anybody (it is
best effort and its failure is logged), and a sort is a loop over a finite list.

## Proofs

TLAPS checks the following for every value of the constants: any number of runs,
stories, sessions, questions, files, streams and retries. Each system has one
inductive invariant (`Inv`; `LanesInv`, `QueueInv`, `IndexInv`, `OrderInv` where a
module has more than one), proved part by part with one step per action; each
theorem follows from it, those about steps (`OutcomesStand`, `OutcomeStands`,
`NothingForgotten`, `EndsStayEnded`, `CodeRetryCanHelp`, `WritesKeepWrites`)
from it and one step. The type invariant of each of these modules is a theorem too.
Every invariant and every action property of a passing run is among the theorems.

- `RunLanesProofs`, on the registry: `OneAtATime`, `PermitConserved`,
  `ActiveIsAdmitted`, `StoppedNeverStarts`. *Permit*: the holder of the permit
  is a wrapper at a point from which it returns it, and a wrapper at such a point holds it.
  *Queues*: the members of `parked` and of `ready` are wrappers at those points,
  each once; the permit is free only if nobody is parked. *Entry*: how
  `RunEntry.state`, the table and the wrapper's point go together; it is what
  makes `cancel()`'s test of the state a test of the wrapper. None of the
  properties is inductive by itself: `OneAtATime`, say, is kept by a release
  only because the run woken is parked and is parked once.

  A second invariant is about the queue the user sees. `QueueAgrees`: the waiting
  list is the run holding a fresh permit, then the semaphore's futures, then the
  wrappers that have not started, so the position shown is the order of service,
  through every cancel. Its converse (`Suspended`: who is suspended in a queue
  is in it) had to be added, since a cancel removes a run by name from either.
  `QueueIsImplemented`: the registry refines `SingleSlotQueue`, initial states
  to initial states and every step to an abstract step or a stutter.
- `RunLanesProofs`, on the lanes: `OneSwapper`, `OneLaneUp`, `NoLaneLeftLoaded`, over the
  registry's invariant, since a step of the lanes is one of the registry or none
  of it. A lane operation belongs to an unfinished body, a cursor to a teardown. Unless
  a hard cancel abandoned a script (`cut`), a start script in flight has the
  body that waits for it and the other lane is down. If moreover every run has a
  teardown, a lane that is up has somebody who will still stop it
  (`Answerable`): the run in the slot or a teardown that has not passed it.
- `SprintGraphProofs`: `AttemptBudget`, `ReplanBudget`, `NoStaleRejection`,
  `ShippedWasAccepted`, `ShippedWasTested`. The invariant says at which points
  each counter is strictly below its bound, that a verdict exists only between
  the review and the edge that reads it, and from which flags the history
  `tested` follows. `ShippedWasTested` rests on its last part: a change that
  satisfies its coverage was run unless the clock or a stop cut the Coder short;
  a stop keeps the Tester and the Reviewer from being entered, the clock keeps
  the change from shipping.
- `CodingCycleProofs`: `SatisfiedMeansThere`, `PlanCanBeDone`,
  `TesterKeepsCoverage`, `CodeRetryCanHelp`. Its first part is lemmas about the
  rules alone: a name a plan may use stays one whatever is written, but for a
  test whose directory is taken away (`AllowedStaysAllowed`); what a satisfied
  coverage says of the files; a planned write is covered if git shows the file by
  its name; a change of tests takes nothing from a coverage that names no test.
  The invariant carries their hypotheses through the attempts: the first plan
  was looked up in a clean working copy, its out-of-scope files are untouched
  but for strays and the Tester, the coverage is that of the tree until
  somebody writes.
- `ReviewGateProofs`: `OpenMeansAwaited`, `ShippedAsAnswered`, `OutcomeStands`.
  Request and run meet in the row and in the waiter and change them at different
  awaits. The invariant says what each may assume of the other: a waiter that is
  there means that nobody closed its review since the request looked, an event
  that is set means that the row is closed as decided, and a store call a hard
  cancel left behind is about the current row only.
- `PromptRunProofs`, on the records: `RowsAgree`, `ConsoleIsHonest`,
  `OutcomesStand`. The invariant says what the backlog row says at each point
  of the body, how far the loop is by what has shipped, what the copy of the
  request inside the lock may still write, and who owns the admission slot. The
  handler's part is the one that matters: a copy loaded before the run ended
  may be written after it, and is harmless because of what it holds at each
  point of its handler. A session without a reference (`ref`) tells of nothing
  but its own failed start.
- `PromptRunProofs`, on the order: `DependenciesFirst`, `CutKeepsDependencies`.
  While the loop runs, what is ordered or queued is exactly what waits for
  ordered stories only, each story once, and the degree of any other counts the
  dependencies it still waits for (`Released`). When the queue is empty nothing
  ordered is on a cycle or behind one and everything left over is, since each of
  the rest waits for another of the rest. Every prefix of what is ordered is
  closed under dependencies, cycles aside, so the capped plan is.
- `ConsoleDialogueProofs`: `ConfirmedIsCurrent`, `CompletedHasPlan`,
  `NothingForgotten`, `EndsStayEnded`. What the properties say of the stored row
  is required of every copy that may yet be written: the holder's and those
  struck tasks left to their threads (`RowsAreSound`, `RowsAreBacked`). A copy
  grows over the row it was made from, which is still the stored one unless a
  late save has undone something (`CopiesGrow`).
- `EventStreamProofs`: `OnceEach`, `NoGapNoDuplicate`, `PollSeesAll`,
  `DoneMeansAll`. What a stream has still to send is above its cursor while it
  replays, in its queue once it is live, or committed and not yet published;
  `Covered` says that nothing is outside these three except what a later event
  overtook. The order of frames follows from the order of the queue, up to the
  same exception (`Bus`). The legacy timeline is empty, being filled under the
  lock, or complete (`Locks`); once the run is over, whoever is told so has read
  to the end (`Ending`).
- `WorkspaceProofs`, on the checkouts: `LiveKeepsCheckout`, `RowsMatchDisk`,
  `WritesKeepWrites`. Row, disk and the copy that the lock's holder will save are
  three records of one thing. The lock keeps copy and row together (`CopyAgrees`);
  a struck body's save has lost it and agrees with the row it was made from
  (`Orphaned`), which is still the stored one unless the session is `undone`;
  the sweeper takes no lock and may delete all the same, because a session it
  lists is over, stays over (`OverForGood`) and is past its clone (`Clones`).
  The files are gone before it touches the row (`FilesFirst`), and a row that
  was dropped comes back only where somebody `raced` it or a late save has
  `undone` the drop (`GoneForGood`).
- `WorkspaceProofs`, on the index: `StoreMatchesManifest`, `PassHeals`. A
  collection has one writer at a time or has `met` two (`OneWriter`). Without a
  fault a collection no one writes is exactly its manifest, and one that is
  written is so but for what the pass in hand has still to do (`Undisturbed`).
  As long as sessions index in the order they cloned in (`~late`), the shared
  manifest never leads the newest clone a pass has begun with (`Follows`). So a
  version it claims after a fault and that has no points is one that clone has
  passed (`Heals`), and the next pass takes the file for changed and embeds it.
  An older clone indexed after a newer one breaks just that: `PassAlwaysHeals`.

What is proved for all instances and is not also a property of a run: the type
invariants, `PermitConserved`, `ActiveIsAdmitted`, `QueueAgrees`, `Queue!Spec`,
`OneSwapper`, `AttemptBudget`, `ReplanBudget`, `PollSeesAll`, `DoneMeansAll`,
`AlwaysInOrder`.
The properties `PROJECT.json` lists beside a theorem are both.

Assumptions are the `ASSUME`s of the modules. Most only give a bound its type or
keep the model values for "absent" outside the types (`Absent` is neither a
session nor a row). Those that say something: a satisfied coverage result has no
gaps (`SprintGraph`; `CodingCycle` computes it); a template plan puts nothing
out of scope (`CodingCycle`); the baseline is not empty (`code.py:50` takes an
empty one for none), ignored files are not HEAD's, and a directory holds only
tests or none (`PlanScope`); the plans, the names and what they resolve to are
otherwise arbitrary; the requests that append are finitely many and a stream is
not named like an appender (`EventStream`). One theorem has a hypothesis of its
own: `NothingStaysLoaded` assumes that every run has a teardown, which the asks
have not.

Only model-checked is liveness, since fairness and ENABLED are beyond the prover:
`EveryRunLeaves`, `ArmedStopEnds`, `TeardownAlwaysRuns`, `CycleEnds`, `ParkEnds`,
`OutcomeIsTold`, `BodiesSettle`, `PrepSettles`, `StreamEnds`, and of
`ImplementsQueue` the part that is `Queue!FairSpec`'s fairness.

No module uses RECURSIVE operators, and no definition a theorem needs is defined
by recursion, since the library's induction theorems are out of reach. So an order
is a relation and not a sort: `InOrder` is the set that holds the one rising
sequence of a set, `warmer` relates the sessions of the LRU. That `InOrder` is
never empty where the code sorts, so that no step is lost, is a theorem
(`AlwaysInOrder`); its proof takes a smallest set without a sequence instead of
an induction. The loop of `sort_stories` is a loop of steps, which makes what it
computes an invariant.

The formulas named above that no run lists hold on the instance of their
module's run as well; to see it, add the name to its cfg under `INVARIANTS`.

## Where code and documentation part

`unseen` is a run of its own: `git status --porcelain` shows a new directory as
one entry, so a planned file inside it is neither among the changed paths nor
known, and is reported missing however often it is written. The quotes are in
`PROJECT.json`.

The following formulas state a comment or document of the repository that the
code does not keep, or a passing property without its exception. Each is defined
in its module and is violated when it is added to the named cfg as an INVARIANT
(`LaneKept` and `LateSavesKeepWrites`, which are about steps, as a PROPERTY):

| formula | cfg | what the code does |
|---|---|---|
| `LaneKept` (`RunLanes`) | `lanes` | the slot is free before teardown stopped the lanes, so teardown can stop the lane the next run just loaded; the same when a queued run is withdrawn, because its teardown runs too (`run_registry.py:207`) |
| `AcceptedIsGreen` (`SprintGraph`) | `graph` | a claim of passing tests, or an output cached before the last edit, can stand in for the re-run the documents describe (`nodes/test.py:51`); with `HonestClaims = TRUE` it holds |
| `FailureReported` (`SprintGraph`) | `graph` | the failure node raises when no review has run yet (`nodes/flow.py:138`) |
| `AnswerNeverLost` (`ReviewGate`) | `review` | a verdict stored with the last tick is lost to the timeout (`nodes/review.py:142`) |
| `NoReviewLeftOpen` (`ReviewGate`) | `review` | the sweep does not close reviews left open by a crash (`run_recovery.py:38`) |
| `NothingSkipped` (`EventStream`) | `events` | an event of a request is committed in a worker thread and published after the run's next one; the stream drops it as already seen and the client's cursor is past it, so that no reconnect brings it back (`api/console/events.py:164`) |
| `RowsAreBacked` (`RunRecords`) | `records` | a plan that fails inside `prompt_run` leaves the backlog row `running`, and the sweep does not look for `pending` sprint sessions (`api/app.py:54`, `run_recovery.py:8`) |
| `EndMeansOver` (`RunRecords`) | `records` | a start that fails after its submit, announcing the run, fails the session while the run is queued and then works; the session has no reference to it, so no poll mirrors it and no Stop reaches it (`api/app.py:187`; `run_bridge.py:3`: "Console status is derived from run status, never owned") |
| `LateSavesKeepWrites` (`SessionFiles`) | `files` | a hard cancel inside `touch` frees the lock and leaves the save to its thread; landing later it shortens the transcript or brings back a deleted row (`api/console/ask.py:275`; `ask.py:258` promises that no stale copy is saved) |
| `PassAlwaysHeals` (`VectorIndex`) | `index` | a session that cloned before another indexed a newer head re-targets the shared collection backwards; if it fails after its drop, the manifest still names the newer version and the next pass finds nothing to do (`workspace.py:68`, `workspace.py:137`; `repo_context.py:128`) |
| `SatisfiedMeansMade` (`CodingCycle`) | `coding` | deleting the last file of a test directory takes the directory away; a planned, unannounced new test there is then phantom, not missing, and the coverage is satisfied without it (`plan_validation.py:82`, `plan_coverage.py:199`) |
| `AnyPlanCanBeDone` (`CodingCycle`) | `coding` | an ignored file, one in a cache directory and one `resolve_safe_path` refuses are accepted in a plan, and stay missing whatever the Coder does (`plan_coverage.py:124`, `tools/_safety.py:31`) |
| `StrayTesterKeepsCoverage` (`CodingCycle`) | `coding` | the Tester's gate takes `tests/../src/x.py` for a test; the file written is under `src/`, out of scope perhaps, and the coverage the gate reads is not taken again (`plan_coverage.py:63`, `tools/_safety.py:42`) |

Others are the named exceptions of passing properties:

- a wrapper cancelled before its first step never tears down (`stillborn`; no
  caller in the repository does it);
- a lane script abandoned by a hard cancel can bring up a second model (`cut`);
- a store call abandoned by one can leave a review open (`hit = "cut"`), and a
  row save abandoned by one can undo what was written since (`undone`);
- a strike inside the last `_finish` leaves a plan session running until the
  next restart (`cut` of `ConsoleDialogue`);
- the sweeper's blind write can bring back an older row, or a row deleted since
  it was listed (`raced`), and a struck body's late save does the same
  (`undone`); a clone that returns after its session was deleted leaves its
  directory behind (`torn`);
- a start that failed after its submit leaves a run its session does not know
  (`StartFailed`);
- a stream whose queue overflowed is not closed: it stays silent until the end
  of the run, and for good if events came after its last one
  (`~subscribed` in `StreamEnds`);
- done can come before the last event when the run appends and ends between the
  stream's reading of the tail and of the status, or when a legacy session is
  still being backfilled (`grew` in `DoneMeansAll`);
- two passes that meet on a collection, and a crash between
  `delete_collection` and `forget`, leave a manifest that claims content without
  points (`met` of `VectorIndex`); a pass that fails after its drop does so
  until a later pass heals it (`faults`, `PassHeals`), and for good if its clone
  was older than what another session had indexed (`late`);
- a build fix, a command, a write by another name and an out-of-scope test of the
  Tester's come after the coverage was taken and are not covered again
  (`TesterKeepsCoverage`);
- a planned test whose directory was taken away is phantom and not asked for
  (`SatisfiedMeansThere`); files git does not show as themselves, and names the
  tools refuse, are outside `PlanCanBeDone` (`Plain`) and `CodeRetryCanHelp`
  (`Refused`);
- a replan may declare a file out of scope that an earlier attempt changed; the
  coverage then reports a hit and the gate refuses to revert it (`replans = 0`
  in `PlanCanBeDone`).

And some were met while modelling and are visible in the definitions:

- an ask has no teardown, so the Work lane it loads stays resident
  (`NoLaneLeftLoaded` is false for a run outside `Torn`); a Stop pressed while
  `on_admit()` is awaited spends its only watchdog before the body exists;
- the template plan is tried first for every ticket that yields one
  (`Offered`), COMPLEX included, where `docs/agent-orchestration.md` speaks of
  TRIVIAL and SIMPLE; it ignores the retry's feedback; what `FallBack` offers
  after a refused template is the same template; a COMPLEX ticket whose template
  edits an existing test ends without the model having been asked;
- a phantom path makes no path missing, so coverage can be satisfied with one
  (`Coverage`); a coverage round is compared with the round before the last
  (`RoundEnds`);
- a plan that names no file lets the gate refuse every edit under `src/` and
  `tests/` (`MayEdit`);
- the LRU counts overlays as it counts shared collections (`Evictable`);
- stories behind a dependency cycle come in the order of the plan
  (`Leftovers`).

## Not modelled

- *Diff capture and snapshots*: parsing of `git diff` output. Its rows are in
  `ReviewGate` as far as a verdict is about them.
- *Attachments*: upload, deduplication and quota of one session's files. The
  quota is counted in one thread call and the row inserted in another; the
  hazard is listed.
- *ScrumMaster, agents and prompts*: their output is arbitrary by design, and
  the modules let it be whatever the result types admit.
- *Workspace tools*: reading, searching, the tool cache and command output;
  writes are in `CodingCycle`.
- *Subprocess and git execution, model routing, Jira, application shell*:
  sequential input and output without state of their own. That a cancelled task does not
  stop its subprocess is in `RunLanes`.
- *The superstep limit* of LangGraph: a constant of the library, not of this
  code.
- Inside modelled components: the lane a clarify round may start from a request
  handler, deletion of a timeline with its session, the limits of `PlanScope`'s
  names and directories listed there, a store call of the review's run that
  itself raises, a preparation whose own steps raise, plans with two stories of
  one key, more than one sweeper at a time, chunk boundaries, ranking, ticket
  creation, the text assembled for prompts, and a file whose content returns to
  an earlier version in the index.

## Plan

Every safety property a run checks is a theorem, and every component is modelled
to the extent the inventory says. What could be added, each as a module or an
action of its own:

1. The lane a clarify round starts from a request handler, beside a run that is
   swapping lanes: an action of `RunLanes` that takes no permit.
2. Names that start with a dot or pass through a directory that may go, and
   directories within such directories, in `PlanScope`.
3. The superstep limit: a counter of `SprintGraph` against the default of the
   library, once the version in use fixes that default.
4. Attachments: quota and deduplication of one session's uploads, between two
   thread calls of one request.
5. A file whose content returns to an earlier version, in `VectorIndex`.
