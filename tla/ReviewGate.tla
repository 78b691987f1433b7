----------------------------- MODULE ReviewGate -----------------------------
(***************************************************************************)
(* The human review of a diff: graph/nodes/review.py parks the run,        *)
(* api/console/diffs.py answers it, orchestrator/diff_store.py keeps the   *)
(* rows, orchestrator/review_gate.py wakes the run, and the Stop route     *)
(* closes what a stopped run leaves open.                                  *)
(*                                                                         *)
(* Three parties interleave at their awaits: the parked node, the one      *)
(* request the session lock lets through at a time, and the operating      *)
(* system (a store call that a cancelled task leaves behind in its worker  *)
(* thread, a crash).  A key stands for one (sprint_session_id, attempt);   *)
(* keys are taken in order, as attempts and stories are.                   *)
(***************************************************************************)
EXTENDS Naturals, FiniteSets

CONSTANTS
    MaxParks,   \* bound: how often the run reaches the gate
    Files,      \* the paths of a snapshot
    MaxRounds,  \* MAX_USER_REJECTION_ROUNDS
    HardStops,  \* may the watchdog's CancelledError reach the run?
    Crashes     \* may the process die?

ASSUME BoundsAssumption == MaxParks \in Nat \ {0} /\ MaxRounds \in Nat
ASSUME FaultsAssumption == HardStops \in BOOLEAN /\ Crashes \in BOOLEAN

VARIABLES
    node,      \* where the run is suspended
    why,       \* how _wait_for_decision ended
    key,       \* the attempt under review, 0 before the first
    rounds,    \* user_rejection_rounds
    outcome,   \* how the run ended
    row,       \* diff_reviews.status of each key
    verdicts,  \* diff_decisions of each key
    waiters,   \* keys of ReviewGate._waiters
    set,       \* the waiters whose event is set
    token,     \* the run's CancelToken
    request,   \* the handler inside the session lock
    orphans,   \* store calls still in a thread whose task was cancelled
    shipped,   \* history: keys whose change was let through to ship
    hit        \* the hard cancel: not yet, clean, or cut (it left a store call)

vars == <<node, why, key, rounds, outcome, row, verdicts, waiters, set, token,
          request, orphans, shipped, hit>>

runVars   == <<why, key, rounds, outcome, shipped, hit>>
storeVars == <<row, verdicts>>
gateVars  == <<waiters, set>>

Keys     == 1..MaxParks
Verdicts == {"accept", "reject"}
Answer   == [Files -> Verdicts \cup {"none"}]
Blank    == [f \in Files |-> "none"]

\* entering: past the phase's token check, reading the snapshot and stopping
\* the lanes; opening: awaiting store.open_review; parked: in
\* _wait_for_decision; closing: awaiting the finally's close_review; reading:
\* awaiting get_review.
Inside == {"entering", "opening", "parked", "closing", "reading"}

NoRequest == [at |-> "none", key |-> 0, answer |-> Blank, submit |-> FALSE]

Requests == [at : {"none", "checked", "recorded", "closed", "stopping",
                   "stopClosing"},
             key : 0..MaxParks, answer : Answer, submit : BOOLEAN]

TypeOK ==
    /\ node \in Inside \cup {"working", "over", "dead"}
    /\ why \in {"none", "decided", "expired", "cancelled"}
    /\ key \in 0..MaxParks
    /\ rounds \in 0..MaxRounds
    /\ outcome \in {"none", "completed", "timeout", "budget", "cancelled"}
    /\ row \in [Keys -> {"absent", "pending", "decided", "expired"}]
    /\ verdicts \in [Keys -> Answer]
    /\ waiters \subseteq Keys /\ set \subseteq waiters
    /\ token \in BOOLEAN
    /\ request \in Requests
    /\ orphans \subseteq ({"open", "close"} \X Keys)
    /\ shipped \subseteq Keys
    /\ hit \in {"no", "clean", "cut"}

Init ==
    /\ node = "working" /\ why = "none" /\ key = 0 /\ rounds = 0
    /\ outcome = "none"
    /\ row = [k \in Keys |-> "absent"]
    /\ verdicts = [k \in Keys |-> Blank]
    /\ waiters = {} /\ set = {}
    /\ token = FALSE
    /\ request = NoRequest
    /\ orphans = {}
    /\ shipped = {}
    /\ hit = "no"

-----------------------------------------------------------------------------
(* diff_store.py: each call is one transaction *)

\* INSERT OR REPLACE: whatever was there, the review is pending again.
Opened(k) == [row EXCEPT ![k] = "pending"]

\* Mutant of Closed: the UPDATE without its pending guard.
ClosedAnyway(k, status) == [row EXCEPT ![k] = status]

\* The UPDATE is guarded: a closed review keeps its outcome.
Closed(k, status) == [row EXCEPT ![k] = IF @ = "pending" THEN status ELSE @]

\* One verdict per path, the last one wins; paths not named keep theirs.
Recorded(k, answer) ==
    [verdicts EXCEPT ![k] =
        [f \in Files |-> IF answer[f] = "none" THEN @[f] ELSE answer[f]]]

Pending == {k \in Keys : row[k] = "pending"}

\* pending_review: the newest one.
NewestPending == CHOOSE k \in Pending : \A j \in Pending : j <= k

Rejected(k) == {f \in Files : verdicts[k][f] = "reject"}

-----------------------------------------------------------------------------
(* The run: await_diff_review *)

Ends(how) == node' = "over" /\ outcome' = how

\* _phased looks at the token, then the node runs.
Enter ==
    /\ node = "working" /\ ~token /\ key < MaxParks
    /\ node' = "entering"
    /\ UNCHANGED <<runVars, storeVars, gateVars, token, request, orphans>>

\* The gate registers a fresh event before the row exists.
Park ==
    /\ node = "entering"
    /\ node' = "opening"
    /\ key' = key + 1
    /\ waiters' = waiters \cup {key'}
    /\ set' = set \ {key'}
    /\ UNCHANGED <<why, rounds, outcome, shipped, hit, storeVars, token,
                   request, orphans>>

OpenRow ==
    /\ node = "opening"
    /\ node' = "parked"
    /\ row' = Opened(key)
    /\ UNCHANGED <<runVars, verdicts, gateVars, token, request, orphans>>

\* _wait_for_decision returned or raised; the finally drops the waiter
\* without suspending, then awaits the store.
Leave(reason) ==
    /\ node' = "closing"
    /\ why' = reason
    /\ waiters' = waiters \ {key}
    /\ set' = set \ {key}
    /\ UNCHANGED <<key, rounds, outcome, shipped, storeVars, token, request,
                   orphans>>

Woken ==
    node = "parked" /\ key \in set /\ Leave("decided") /\ UNCHANGED hit

\* Mutant of Expires: the wait has no timeout, only a Stop ends it.
ExpiresNever ==
    node = "parked" /\ token /\ Leave("cancelled") /\ UNCHANGED hit

\* The remaining time is looked at before the event, so a decision that comes
\* with the last tick is not seen.
Expires == node = "parked" /\ Leave("expired") /\ UNCHANGED hit

\* A tick's check_cancelled.
TokenSeen ==
    node = "parked" /\ token /\ Leave("cancelled") /\ UNCHANGED hit

\* Mutant of CloseRow: the finally forgets the store.
CloseRowNot ==
    /\ node = "closing"
    /\ CASE why = "decided"   -> node' = "reading" /\ UNCHANGED outcome
         [] why = "expired"   -> Ends("timeout")
         [] why = "cancelled" -> Ends("cancelled")
    /\ UNCHANGED <<why, key, rounds, shipped, hit, storeVars, gateVars,
                   token, request, orphans>>

CloseRow ==
    /\ node = "closing"
    /\ row' = Closed(key, "expired")
    /\ CASE why = "decided"   -> node' = "reading" /\ UNCHANGED outcome
         [] why = "expired"   -> Ends("timeout")
         [] why = "cancelled" -> Ends("cancelled")
    /\ UNCHANGED <<why, key, rounds, shipped, hit, verdicts, gateVars,
                   token, request, orphans>>

\* get_review, then the verdict: ship, another round, or out of rounds.
ReadDecisions ==
    /\ node = "reading"
    /\ \/ /\ Rejected(key) = {}
          /\ shipped' = shipped \cup {key}
          /\ rounds' = 0
          /\ node' = "working"
          /\ UNCHANGED outcome
       \/ /\ Rejected(key) # {} /\ rounds < MaxRounds
          /\ rounds' = rounds + 1
          /\ node' = "working"
          /\ UNCHANGED <<outcome, shipped>>
       \/ /\ Rejected(key) # {} /\ rounds >= MaxRounds
          /\ Ends("budget")
          /\ UNCHANGED <<rounds, shipped>>
    /\ UNCHANGED <<why, key, hit, storeVars, gateVars, token, request, orphans>>

\* The rest of the run ends, or a checkpoint of it sees the token.
Finish ==
    /\ node = "working"
    /\ Ends(IF token THEN "cancelled" ELSE "completed")
    /\ UNCHANGED <<why, key, rounds, shipped, hit, storeVars, gateVars,
                   token, request, orphans>>

\* The watchdog's CancelledError, delivered once.  While parked it still runs
\* the finally; during a store call it abandons the thread, which may or may
\* not have been started.  The waiter is registered outside the try.
Storing == {"opening", "closing"}

HardCancel ==
    /\ HardStops /\ token /\ hit = "no"
    /\ \/ node = "parked" /\ Leave("cancelled") /\ hit' = "clean"
       \/ /\ node \in ({"working"} \cup Inside) \ {"parked"}
          /\ Ends("cancelled")
          /\ hit' = IF node \in Storing THEN "cut" ELSE "clean"
          /\ orphans' \in
                CASE node = "opening" -> {orphans, orphans \cup {<<"open", key>>}}
                  [] node = "closing" -> {orphans, orphans \cup {<<"close", key>>}}
                  [] OTHER -> {orphans}
          /\ UNCHANGED <<why, key, rounds, shipped, storeVars, gateVars,
                         token, request>>

-----------------------------------------------------------------------------
(* The request inside the session lock *)

Serve(at) == request' = [request EXCEPT !.at = at]

\* Mutant of CheckPending: the verdict is taken for the current attempt
\* whether or not its review is open.
CheckNothing ==
    /\ request.at = "none" /\ key > 0
    /\ \E answer \in Answer, submit \in BOOLEAN :
          request' = [at |-> "checked", key |-> key,
                      answer |-> answer, submit |-> submit]
    /\ UNCHANGED <<node, runVars, storeVars, gateVars, token, orphans>>

\* submit_diff_decisions: 409 unless some review is pending.
CheckPending ==
    /\ request.at = "none" /\ Pending # {}
    /\ \E answer \in Answer, submit \in BOOLEAN :
          request' = [at |-> "checked", key |-> NewestPending,
                      answer |-> answer, submit |-> submit]
    /\ UNCHANGED <<node, runVars, storeVars, gateVars, token, orphans>>

RecordDecisions ==
    /\ request.at = "checked"
    /\ verdicts' = Recorded(request.key, request.answer)
    /\ IF request.submit THEN Serve("recorded") ELSE request' = NoRequest
    /\ UNCHANGED <<node, runVars, row, gateVars, token, orphans>>

CloseAsDecided ==
    /\ request.at = "recorded"
    /\ row' = Closed(request.key, "decided")
    /\ Serve("closed")
    /\ UNCHANGED <<node, runVars, verdicts, gateVars, token, orphans>>

\* After the store read and the event: Event.set, if somebody still waits.
Notify ==
    /\ request.at = "closed"
    /\ set' = IF request.key \in waiters THEN set \cup {request.key} ELSE set
    /\ request' = NoRequest
    /\ UNCHANGED <<node, runVars, storeVars, waiters, token, orphans>>

\* A store call of the handler raises: the request ends there.
RequestFails ==
    /\ request.at # "none"
    /\ request' = NoRequest
    /\ UNCHANGED <<node, runVars, storeVars, gateVars, token, orphans>>

\* cancel_console_session sets the token at once; a terminal session is a 409,
\* which is what the sweep after a crash leaves.
StopPressed ==
    /\ request.at = "none" /\ node # "dead"
    /\ token' = (token \/ node # "over")
    /\ request' = [NoRequest EXCEPT !.at = "stopping"]
    /\ UNCHANGED <<node, runVars, storeVars, gateVars, orphans>>

StopFinds ==
    /\ request.at = "stopping"
    /\ request' = IF Pending = {} THEN NoRequest
                  ELSE [NoRequest EXCEPT !.at = "stopClosing",
                                         !.key = NewestPending]
    /\ UNCHANGED <<node, runVars, storeVars, gateVars, token, orphans>>

StopCloses ==
    /\ request.at = "stopClosing"
    /\ row' = Closed(request.key, "expired")
    /\ request' = NoRequest
    /\ UNCHANGED <<node, runVars, verdicts, gateVars, token, orphans>>

-----------------------------------------------------------------------------
(* The operating system *)

\* The abandoned thread finishes its transaction.
OrphanLands(o) ==
    /\ o \in orphans
    /\ orphans' = orphans \ {o}
    /\ row' = IF o[1] = "open" THEN Opened(o[2]) ELSE Closed(o[2], "expired")
    /\ UNCHANGED <<node, runVars, verdicts, gateVars, token, request>>

\* The process dies and is started again: the rows stay, tasks and events do
\* not, and the sweep does not look at diff_reviews.
CrashAndRestart ==
    /\ Crashes /\ node \notin {"over", "dead"}
    /\ node' = "dead"
    /\ waiters' = {} /\ set' = {}
    /\ request' = NoRequest
    /\ orphans' = {}
    /\ token' = FALSE
    /\ UNCHANGED <<runVars, storeVars>>

-----------------------------------------------------------------------------

Parked == Woken \/ Expires \/ TokenSeen
Run == Enter \/ Park \/ OpenRow \/ Parked \/ CloseRow \/ ReadDecisions \/ Finish

Request ==
    \/ RecordDecisions \/ CloseAsDecided \/ Notify \/ RequestFails
    \/ StopFinds \/ StopCloses

System == HardCancel \/ CrashAndRestart \/ \E o \in orphans : OrphanLands(o)

Next == Run \/ CheckPending \/ StopPressed \/ Request \/ System

Spec == Init /\ [][Next]_vars

\* Store calls return, the loop's timers fire (Expires is one), a request
\* that was let in ends.  Nobody has to answer or to press Stop.
FairSpec ==
    /\ Spec
    /\ WF_vars(Park) /\ WF_vars(OpenRow) /\ WF_vars(Parked)
    /\ WF_vars(CloseRow) /\ WF_vars(ReadDecisions) /\ WF_vars(Request)

-----------------------------------------------------------------------------
(* What the gate promises *)

\* A review the console reports as open has a run waiting on it, and the gate
\* keeps no waiter for a run that left: "leaves no open review the console
\* would keep reporting", "409 unless a review is actually open".  The two
\* exceptions: the process died, or a hard cancel cut a store call short.
OpenMeansAwaited ==
    node # "dead" /\ hit # "cut" =>
        /\ \A k \in Keys : row[k] = "pending" => k = key /\ node \in {"parked", "closing"}
        /\ waiters = IF node \in {"opening", "parked"} THEN {key} ELSE {}

\* The same promise at rest: when the run is over or was swept, and no
\* request or store call is left to close it, no review is pending.
NoReviewLeftOpen ==
    node \in {"over", "dead"} /\ orphans = {} /\ request.at = "none"
        => Pending = {}

\* "A decided review keeps its outcome": a review that was closed, by the
\* user, the timeout or a Stop, is never reopened or closed differently.
OutcomeStands ==
    [][\A k \in Keys : row[k] \in {"decided", "expired"} => row'[k] = row[k]]_vars

\* What ships was submitted by the user, and the record never says otherwise:
\* the review was closed as decided and no file of it was or gets rejected.
ShippedAsAnswered ==
    \A k \in shipped : row[k] = "decided" /\ Rejected(k) = {}

\* DIFF_REVIEW_TIMEOUT_S "is what stops an abandoned review from wedging the
\* queue indefinitely": a parked run goes on whatever the user does.
ParkEnds == node \in Inside ~> node \notin Inside

\* "A notification lost ... costs the run its wait, never its answer": a run
\* does not end with review_timeout on a review its user had submitted.
AnswerNeverLost == outcome = "timeout" => row[key] # "decided"
=============================================================================
