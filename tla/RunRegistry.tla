---------------------------- MODULE RunRegistry ----------------------------
(***************************************************************************)
(* orchestrator/run_registry.py: the process-wide table of runs with its   *)
(* one-permit admission queue, the wrapper/body split, the two cancel      *)
(* paths and the teardown.                                                 *)
(*                                                                         *)
(* Everything runs on one asyncio loop, so an action is what a task does   *)
(* between two suspension points.  pc[r] is where the wrapper task of run  *)
(* r is suspended:                                                         *)
(*   unborn    not submitted yet                                           *)
(*   created   task made by submit, first step still in the loop's queue   *)
(*   stillborn cancelled in that window: the coroutine never starts        *)
(*   parked    waiting for the semaphore                                   *)
(*   granted   the semaphore future is resolved, the task not yet resumed  *)
(*   admitting awaiting on_admit()                                         *)
(*   awaiting  awaiting body_task                                          *)
(*   teardown  awaiting teardown(), after the slot was released            *)
(*   gone      the wrapper task has finished                               *)
(***************************************************************************)
EXTENDS Naturals, Sequences, FiniteSets

CONSTANTS
    Runs,        \* run ids; an id is submitted at most once (they are uuids)
    Torn,        \* the runs submitted with a teardown (all but the asks)
    Free         \* the semaphore permit is available

ASSUME TornAssumption == Torn \subseteq Runs
ASSUME FreeAssumption == Free \notin Runs

VARIABLES
    pc,        \* suspension point of each wrapper task
    state,     \* RunEntry.state
    entries,   \* keys of _entries
    waiting,   \* _waiting
    slot,      \* who holds (or was handed) the permit of _slot, or Free
    parked,    \* runs whose semaphore future is pending, oldest first
    ready,     \* the loop's queue of wrapper tasks not started yet
    token,     \* CancelToken.requested
    stopped,   \* wrapper_task.cancel() was called
    body,      \* body task: none, running, hit (CancelledError due), done
    watchdog   \* escalate_task is asleep

vars == <<pc, state, entries, waiting, slot, parked, ready, token, stopped,
          body, watchdog>>

Points == {"unborn", "created", "stillborn", "parked", "granted",
           "admitting", "awaiting", "teardown", "gone"}
States == {"queued", "running", "cancelling", "done"}
Live   == {"admitting", "awaiting"}          \* inside the admitted section
Holding == Live \cup {"granted"}             \* owns the permit

TypeOK ==
    /\ pc \in [Runs -> Points]
    /\ state \in [Runs -> States]
    /\ entries \in SUBSET Runs
    /\ waiting \in Seq(Runs)
    /\ slot \in Runs \cup {Free}
    /\ parked \in Seq(Runs)
    /\ ready \in Seq(Runs)
    /\ token \in [Runs -> BOOLEAN]
    /\ stopped \in [Runs -> BOOLEAN]
    /\ body \in [Runs -> {"none", "running", "hit", "done"}]
    /\ watchdog \in [Runs -> BOOLEAN]

Init ==
    /\ pc = [r \in Runs |-> "unborn"]
    /\ state = [r \in Runs |-> "queued"]
    /\ entries = {}
    /\ waiting = <<>>
    /\ slot = Free
    /\ parked = <<>>
    /\ ready = <<>>
    /\ token = [r \in Runs |-> FALSE]
    /\ stopped = [r \in Runs |-> FALSE]
    /\ body = [r \in Runs |-> "none"]
    /\ watchdog = [r \in Runs |-> FALSE]

-----------------------------------------------------------------------------
(* Helpers *)

\* deque.remove under its ValueError guard: the first occurrence, if any.
Dequeue(s, r) ==
    IF \E i \in DOMAIN s : s[i] = r
    THEN LET first == CHOOSE i \in DOMAIN s :
                          s[i] = r /\ \A j \in 1..(i - 1) : s[j] # r
         IN  [j \in 1..(Len(s) - 1) |-> IF j < first THEN s[j] ELSE s[j + 1]]
    ELSE s

\* RunRegistry.active_run_id as a set: the code returns its only member.
Active == {r \in entries : state[r] \in {"running", "cancelling"}}

\* Mutant of Release: the permit goes to the youngest waiter.
ReleaseToLast(moved) ==
    IF parked = <<>>
    THEN slot' = Free /\ pc' = moved /\ UNCHANGED parked
    ELSE LET last == parked[Len(parked)]
         IN  /\ slot' = last
             /\ pc' = [moved EXCEPT ![last] = "granted"]
             /\ parked' = SubSeq(parked, 1, Len(parked) - 1)

\* Semaphore.release: hand the permit to the oldest pending waiter, if any.
\* moved is pc after the releasing wrapper's own move.
Release(moved) ==
    IF parked = <<>>
    THEN /\ slot' = Free
         /\ pc' = moved
         /\ UNCHANGED parked
    ELSE /\ slot' = Head(parked)
         /\ pc' = [moved EXCEPT ![Head(parked)] = "granted"]
         /\ parked' = Tail(parked)

\* Mutant of AfterExit: teardown only for runs that had a body.
AfterExitOfBody(r) ==
    IF r \in Torn /\ body[r] # "none" THEN "teardown" ELSE "gone"

\* The outer finally of _run: the entry is popped, then teardown is awaited.
AfterExit(r) == IF r \in Torn THEN "teardown" ELSE "gone"

\* Mutant of Exit: the entry stays in the table.
ExitListed(r) == state' = [state EXCEPT ![r] = "done"] /\ UNCHANGED entries

Exit(r) ==
    /\ state' = [state EXCEPT ![r] = "done"]
    /\ entries' = entries \ {r}

\* What follows the acquisition of the permit without suspending.
Admitted(r) ==
    /\ waiting' = Dequeue(waiting, r)
    /\ state' = [state EXCEPT ![r] = "running"]
    /\ pc' = [pc EXCEPT ![r] = "admitting"]

-----------------------------------------------------------------------------
(* The wrapper task *)

\* submit(): never blocks; the wrapper's first step is queued on the loop.
Submit(r) ==
    /\ pc[r] = "unborn"
    /\ entries' = entries \cup {r}
    /\ waiting' = Append(waiting, r)
    /\ ready' = Append(ready, r)
    /\ pc' = [pc EXCEPT ![r] = "created"]
    /\ UNCHANGED <<state, slot, parked, token, stopped, body, watchdog>>

\* Mutant of AcquireAtOnce: the permit is not looked at.
AcquireAnyway(r) ==
    /\ ready # <<>> /\ Head(ready) = r
    /\ ready' = Tail(ready)
    /\ slot' = r
    /\ Admitted(r)
    /\ UNCHANGED <<entries, parked, token, stopped, body, watchdog>>

\* First step, permit available: no suspension between acquire and on_admit.
AcquireAtOnce(r) ==
    /\ ready # <<>> /\ Head(ready) = r
    /\ slot = Free
    /\ ready' = Tail(ready)
    /\ slot' = r
    /\ Admitted(r)
    /\ UNCHANGED <<entries, parked, token, stopped, body, watchdog>>

\* First step, permit taken: the wrapper parks behind the earlier ones.
Park(r) ==
    /\ ready # <<>> /\ Head(ready) = r
    /\ slot # Free
    /\ ready' = Tail(ready)
    /\ parked' = Append(parked, r)
    /\ pc' = [pc EXCEPT ![r] = "parked"]
    /\ UNCHANGED <<state, entries, waiting, slot, token, stopped, body, watchdog>>

\* Mutant of Resume: a cancel that comes after the hand-over is not seen.
ResumeAnyway(r) ==
    /\ pc[r] = "granted"
    /\ Admitted(r)
    /\ UNCHANGED <<entries, slot, parked, ready, token, stopped, body, watchdog>>

\* The wrapper resumes with the permit it was handed.
Resume(r) ==
    /\ pc[r] = "granted" /\ ~stopped[r]
    /\ Admitted(r)
    /\ UNCHANGED <<entries, slot, parked, ready, token, stopped, body, watchdog>>

\* CancelledError reaches a wrapper that was already handed the permit:
\* Semaphore.acquire gives it back, then the except and finally arms run.
ResumeStopped(r) ==
    /\ pc[r] = "granted" /\ stopped[r]
    /\ waiting' = Dequeue(waiting, r)
    /\ Exit(r)
    /\ Release([pc EXCEPT ![r] = AfterExit(r)])
    /\ UNCHANGED <<ready, token, stopped, body, watchdog>>

\* CancelledError reaches a parked wrapper (its future was cancelled).
Unpark(r) ==
    /\ pc[r] = "parked" /\ stopped[r]
    /\ waiting' = Dequeue(waiting, r)
    /\ Exit(r)
    /\ pc' = [pc EXCEPT ![r] = AfterExit(r)]
    /\ UNCHANGED <<slot, parked, ready, token, stopped, body, watchdog>>

\* on_admit() returned: the body task is created and awaited.
StartBody(r) ==
    /\ pc[r] = "admitting"
    /\ pc' = [pc EXCEPT ![r] = "awaiting"]
    /\ body' = [body EXCEPT ![r] = "running"]
    /\ UNCHANGED <<state, entries, waiting, slot, parked, ready, token,
                   stopped, watchdog>>

\* on_admit() raised: nothing catches it, the permit and the entry go.
AdmitFails(r) ==
    /\ pc[r] = "admitting"
    /\ Exit(r)
    /\ Release([pc EXCEPT ![r] = AfterExit(r)])
    /\ UNCHANGED <<waiting, ready, token, stopped, body, watchdog>>

\* The body task is done, however it ended: every arm swallows its outcome.
LeaveSlot(r) ==
    /\ pc[r] = "awaiting" /\ body[r] = "done"
    /\ Exit(r)
    /\ Release([pc EXCEPT ![r] = AfterExit(r)])
    /\ UNCHANGED <<waiting, ready, token, stopped, body, watchdog>>

\* teardown() returned or raised: the wrapper task ends.
TeardownEnds(r) ==
    /\ pc[r] = "teardown"
    /\ pc' = [pc EXCEPT ![r] = "gone"]
    /\ UNCHANGED <<state, entries, waiting, slot, parked, ready, token,
                   stopped, body, watchdog>>

-----------------------------------------------------------------------------
(* The body task *)

\* The body returns or raises on its own.
BodyReturns(r) ==
    /\ body[r] = "running"
    /\ body' = [body EXCEPT ![r] = "done"]
    /\ UNCHANGED <<pc, state, entries, waiting, slot, parked, ready, token,
                   stopped, watchdog>>

\* A checkpoint saw the token: RunCancelled unwinds the body.
BodyHonoursToken(r) ==
    /\ body[r] = "running" /\ token[r]
    /\ body' = [body EXCEPT ![r] = "done"]
    /\ UNCHANGED <<pc, state, entries, waiting, slot, parked, ready, token,
                   stopped, watchdog>>

\* The CancelledError of the hard cancel unwinds the body.
BodyHardCancelled(r) ==
    /\ body[r] = "hit"
    /\ body' = [body EXCEPT ![r] = "done"]
    /\ UNCHANGED <<pc, state, entries, waiting, slot, parked, ready, token,
                   stopped, watchdog>>

-----------------------------------------------------------------------------
(* cancel() and its watchdog *)

\* A queued run stops at once.  Task.cancel() cancels a pending semaphore
\* future, so the run is no candidate for the permit from here on; a task
\* that never started is closed without entering _run.
CancelQueued(r) ==
    /\ r \in entries /\ state[r] = "queued"
    /\ token' = [token EXCEPT ![r] = TRUE]
    /\ waiting' = Dequeue(waiting, r)
    /\ state' = [state EXCEPT ![r] = "done"]
    /\ stopped' = [stopped EXCEPT ![r] = TRUE]
    /\ parked' = Dequeue(parked, r)
    /\ ready' = Dequeue(ready, r)
    /\ pc' = [pc EXCEPT ![r] = IF @ = "created" THEN "stillborn" ELSE @]
    /\ UNCHANGED <<entries, slot, body, watchdog>>

\* An admitted run gets the token and a watchdog.  A repeated Stop changes
\* nothing: the token is idempotent and "cancelling" returns early.
CancelRunning(r) ==
    /\ r \in entries /\ state[r] = "running"
    /\ token' = [token EXCEPT ![r] = TRUE]
    /\ state' = [state EXCEPT ![r] = "cancelling"]
    /\ watchdog' = [watchdog EXCEPT ![r] = TRUE]
    /\ UNCHANGED <<pc, entries, waiting, slot, parked, ready, stopped, body>>

\* Mutant of WatchdogFires: it expires without touching the body.
WatchdogYields(r) ==
    /\ watchdog[r]
    /\ watchdog' = [watchdog EXCEPT ![r] = FALSE]
    /\ UNCHANGED <<pc, state, entries, waiting, slot, parked, ready, token,
                   stopped, body>>

\* _escalate after CANCEL_GRACE_S: fires once, and only hits a live body.
WatchdogFires(r) ==
    /\ watchdog[r]
    /\ watchdog' = [watchdog EXCEPT ![r] = FALSE]
    /\ body' = [body EXCEPT ![r] = IF @ = "running" THEN "hit" ELSE @]
    /\ UNCHANGED <<pc, state, entries, waiting, slot, parked, ready, token,
                   stopped>>

-----------------------------------------------------------------------------

Wrapper(r) ==
    \/ AcquireAtOnce(r) \/ Park(r) \/ Resume(r) \/ ResumeStopped(r)
    \/ Unpark(r) \/ LeaveSlot(r)

Admission(r) == StartBody(r) \/ AdmitFails(r)

Cancel(r) == CancelQueued(r) \/ CancelRunning(r)

Body(r) == BodyReturns(r) \/ BodyHonoursToken(r) \/ BodyHardCancelled(r)

Step(r) == Submit(r) \/ Wrapper(r) \/ Admission(r) \/ TeardownEnds(r)
               \/ Cancel(r) \/ Body(r) \/ WatchdogFires(r)

Next == \E r \in Runs : Step(r)

Spec == Init /\ [][Next]_vars

\* The event loop runs every ready task, every timer fires, on_admit and
\* teardown are bounded I/O, and a delivered CancelledError unwinds.  Neither
\* a Stop nor a body's own return is promised.
LoopFairness ==
    \A r \in Runs :
        /\ WF_vars(Wrapper(r))
        /\ WF_vars(Admission(r))
        /\ WF_vars(TeardownEnds(r))
        /\ WF_vars(WatchdogFires(r))
        /\ WF_vars(BodyHardCancelled(r))

FairSpec == Spec /\ LoopFairness

\* What some promises need besides: every body ends, as its subprocesses,
\* model calls and the review gate all carry timeouts.
BodiesEnd == \A r \in Runs : WF_vars(Body(r))

-----------------------------------------------------------------------------
(* What the registry promises *)

\* "One run at a time": no two runs are past admission, and a body task is
\* unfinished only while its run holds the permit.
OneAtATime ==
    /\ \A r, q \in Runs : pc[r] \in Live /\ pc[q] \in Live => r = q
    /\ \A r \in Runs : body[r] \in {"running", "hit"} => slot = r

\* The permit is neither leaked nor stranded: its holder is a wrapper that
\* will return it, and nobody is parked while it is free, whatever wrappers
\* were cancelled while parked or just after they were handed it.
PermitConserved ==
    /\ slot \in Runs => pc[slot] \in Holding
    /\ slot = Free => parked = <<>>

\* The queue the user sees is the queue the semaphore serves: the waiting
\* list is the run just handed the permit (unless it was stopped), then the
\* parked wrappers, then those still to take their first step.
QueueAgrees ==
    waiting = (IF slot \in Runs /\ pc[slot] = "granted" /\ ~stopped[slot]
               THEN <<slot>> ELSE <<>>) \o parked \o ready

\* active_run_id() reports exactly the run inside the admitted section, so
\* the position shown for a queued run counts it exactly when it is there.
ActiveIsAdmitted == Active = {r \in Runs : pc[r] \in Live}

\* A run stopped while it was queued never gets a body.
StoppedNeverStarts == \A r \in Runs : stopped[r] => body[r] = "none"

\* Every submitted run is eventually out of the table with its wrapper
\* finished, given bodies that end.  The exception is a run cancelled before
\* its wrapper took a step, which no finally ever removes.
EveryRunLeaves ==
    BodiesEnd => \A r \in Runs :
        r \in entries ~> \/ r \notin entries /\ pc[r] = "gone"
                        \/ pc[r] = "stillborn"

\* A Stop pressed while the body runs ends the run even if the body ignores
\* the token for ever: the watchdog's hard cancel gets through.
ArmedStopEnds ==
    \A r \in Runs : watchdog[r] /\ body[r] = "running" ~> r \notin entries

\* submit(): "teardown runs on every exit path including cancel" -- a run
\* submitted with a teardown gets it, given bodies that end, unless it was
\* cancelled before its wrapper took a step.
TeardownAlwaysRuns ==
    BodiesEnd => \A r \in Torn :
        r \in entries ~> pc[r] \in {"teardown", "stillborn"}

-----------------------------------------------------------------------------
(* The abstract queue it implements *)

\* The run inside the admitted section is the abstract active run; a run is
\* over once its entry says done.
Running  == IF slot \in Runs /\ pc[slot] \in Live THEN slot ELSE Free
Finished == {r \in Runs : state[r] = "done"}

Queue == INSTANCE SingleSlotQueue
    WITH queue <- waiting, active <- Running, over <- Finished

\* The registry implements the single-slot queue, order and progress
\* included: each wrapper, cancel and event-loop step is one step of the
\* abstract queue or none.
ImplementsQueue == Queue!FairSpec
=============================================================================
