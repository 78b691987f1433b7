--------------------------- MODULE ConsoleDialogue ---------------------------
(***************************************************************************)
(* One console session from its first message to the end of its run: the   *)
(* clarify rounds, the confirmation, questions to the Explainer, and the   *)
(* plan run (api/console/routes.py, clarify.py, ask.py, plan.py).          *)
(*                                                                         *)
(* Everybody who writes the session's row - the request handlers, the ask  *)
(* body, the plan body - takes the session lock, loads the row, changes    *)
(* its copy, and saves it in a worker thread before it lets go.  Between   *)
(* load and save the registry moves on; and a hard cancel ends a task in   *)
(* the middle of its save, which then lands whenever the thread gets to    *)
(* it, lock or no lock.                                                    *)
(***************************************************************************)
EXTENDS Naturals, Sequences, SequencesExt

CONSTANTS
    Questions,    \* what the Interpreter may ask in one round
    MaxRounds,    \* bound: rounds of clarification opened after the first
    MaxAsks,      \* bound: questions put to the Explainer
    HardStops,    \* may the watchdog's CancelledError reach a body?
    MaxCrashes    \* bound: how often the process dies

ASSUME DialogueAssumption ==
    /\ MaxRounds \in Nat /\ MaxAsks \in Nat /\ MaxCrashes \in Nat
    /\ HardStops \in BOOLEAN

VARIABLES
    row,      \* the stored ConsoleSession; agreed, the round of the last
              \* confirmation, is a history field
    holder,   \* who is inside the session lock
    copy,     \* the session object the holder changed and is saving
    ask,      \* the body of the current ask
    plan,     \* the body of the plan run
    aim,      \* the outcome _finish is about to write
    stops,    \* the live bodies whose CancelToken is set
    struck,   \* those the watchdog has already escalated on
    library,  \* plan_store holds this session's plan
    busy,     \* a run of another session has the admission slot
    orphans,  \* saves whose task was cancelled: a thread will still do them
    asked,    \* questions stored so far; the last one is the ask body's
    crashes,
    \* History.
    undone,   \* an orphan has overwritten a newer row
    cut       \* the last plan body was struck down inside its last _finish

vars == <<row, holder, copy, ask, plan, aim, stops, struck, library, busy,
          orphans, asked, crashes, undone, cut>>

bodyVars == <<ask, asked, plan, aim, stops, struck, library>>
lockVars == <<holder, copy>>

Rounds   == 0..MaxRounds
Ids      == Rounds \X Questions     \* question ids carry their round
Terminal == {"completed", "failed", "cancelled"}
Started  == {"queued", "running"}   \* AWAITING_REVIEW is code mode only
Turns    == {<<"user", 0>>, <<"clarify", 0>>}
              \cup ({"question", "answer"} \X (1..MaxAsks))

\* Where a body is inside the admission slot: working, waiting for the lock
\* (recording, clearing, finishing) or saving under it.
AskAdmitted  == {"answering", "recording", "saving", "clearing", "clearSaving"}
PlanAdmitted == {"planning", "storing", "finishing", "finSaving", "reaping"}

Row == [status : {"collecting", "clarifying", "ready"} \cup Started
                   \cup Terminal,
        round : Rounds, questions : SUBSET Ids, answers : SUBSET Ids,
        prior : SUBSET Ids, confirmed : BOOLEAN, msgs : Seq(Turns),
        planned : BOOLEAN, result : BOOLEAN, agreed : Rounds]

TypeOK ==
    /\ row \in Row /\ copy \in Row
    /\ orphans \subseteq [over : Row, save : Row]
    /\ holder \in {"free", "web", "webAsk", "ask", "plan"}
    /\ ask \in {"none", "queued"} \cup AskAdmitted
    /\ plan \in {"none", "queued"} \cup PlanAdmitted
    /\ aim \in Terminal
    /\ stops \subseteq {"ask", "plan"} /\ struck \subseteq stops
    /\ library \in BOOLEAN /\ busy \in BOOLEAN
    /\ crashes \in 0..MaxCrashes /\ asked \in 0..MaxAsks
    /\ undone \in BOOLEAN /\ cut \in BOOLEAN

Init ==
    /\ row = [status |-> "collecting", round |-> 0, questions |-> {},
              answers |-> {}, prior |-> {}, confirmed |-> FALSE,
              msgs |-> <<>>, planned |-> FALSE, result |-> FALSE,
              agreed |-> 0]
    /\ holder = "free" /\ copy = row
    /\ ask = "none" /\ plan = "none" /\ aim = "failed"
    /\ stops = {} /\ struck = {} /\ library = FALSE /\ busy = FALSE
    /\ orphans = {} /\ crashes = 0 /\ asked = 0
    /\ undone = FALSE /\ cut = FALSE

\* sync_ask_state: derived from the registry, never from the stored flag.
AskInFlight == ask \in {"queued"} \cup AskAdmitted
PlanLive    == plan \in {"queued"} \cup PlanAdmitted
SlotBusy    == busy \/ ask \in AskAdmitted \/ plan \in PlanAdmitted

\* A handler has taken the lock and loaded the row; it will save c.
Hold(who, c) == holder = "free" /\ holder' = who /\ copy' = c

\* The thread has saved the copy, and the lock is released.
Saved(who) == holder = who /\ holder' = "free" /\ row' = copy

(***************************************************************************)
(* Messages, clarify rounds and confirmation.                              *)
(***************************************************************************)

\* roll_clarify_round: keyed on the status the session arrives in.
Rolls == row.status \in {"clarifying", "ready"}

\* Bug: a new round forgets what the last one was told.
RolledBare ==
    IF Rolls
    THEN [row EXCEPT !.questions = {}, !.answers = {}, !.round = @ + 1]
    ELSE row

Rolled ==
    IF Rolls
    THEN [row EXCEPT !.prior = @ \cup (row.answers \cap row.questions),
                     !.questions = {}, !.answers = {}, !.round = @ + 1]
    ELSE row

\* Bug: a confirmation survives the next round.
ClarifyingKeeps(rolled, asks) ==
    [rolled EXCEPT
        !.questions = {<<rolled.round, q>> : q \in asks},
        !.status    = IF asks = {} THEN "ready" ELSE "clarifying",
        !.msgs      = @ \o <<<<"user", 0>>, <<"clarify", 0>>>>]

\* enter_clarifying; asks is the Interpreter's (or the fallback's) choice.
Clarifying(rolled, asks) ==
    [rolled EXCEPT
        !.questions = {<<rolled.round, q>> : q \in asks},
        !.status    = IF asks = {} THEN "ready" ELSE "clarifying",
        !.confirmed = IF Rolls THEN FALSE ELSE @,
        !.msgs      = @ \o <<<<"user", 0>>, <<"clarify", 0>>>>]

\* What an analysis may ask: nothing, when the prompt is clear.  Without one
\* build_clarify_questions asks its fixed questions, which are among these.
Interpreted == SUBSET Questions

\* Bug: a session that ended takes another message.
PostMessageLate ==
    /\ row.status \notin Started
    /\ ~AskInFlight
    /\ row.round < MaxRounds
    /\ \E asks \in Interpreted : Hold("web", Clarifying(Rolled, asks))
    /\ UNCHANGED <<row, bodyVars, busy, orphans, crashes, undone, cut>>

PostMessage ==
    /\ row.status \notin Started \cup Terminal
    /\ ~AskInFlight
    /\ row.round < MaxRounds
    /\ \E asks \in Interpreted : Hold("web", Clarifying(Rolled, asks))
    /\ UNCHANGED <<row, bodyVars, busy, orphans, crashes, undone, cut>>

\* The client answers what it last rendered, which may be an older round: the
\* request is accepted whole or not at all.
Acceptable(given) == given \subseteq row.questions \ row.answers

Answered(given) ==
    [row EXCEPT !.answers = @ \cup given,
                !.status  = IF row.questions \subseteq row.answers \cup given
                            THEN "ready" ELSE @]

SubmitAnswers ==
    /\ row.status = "clarifying"
    /\ \E given \in SUBSET Ids :
        /\ given # {} /\ Acceptable(given)
        /\ Hold("web", Answered(given))
    /\ UNCHANGED <<row, bodyVars, busy, orphans, crashes, undone, cut>>

Confirm ==
    /\ row.status = "ready"
    /\ Hold("web", [row EXCEPT !.confirmed = TRUE, !.agreed = row.round])
    /\ UNCHANGED <<row, bodyVars, busy, orphans, crashes, undone, cut>>

(***************************************************************************)
(* Starting the plan run, Stop, and asking.                                *)
(***************************************************************************)

\* submit_plan_run: the entry is registered before the session is saved.
StartPlan ==
    /\ row.status = "ready" /\ row.confirmed
    /\ ~PlanLive
    /\ plan' = "queued"
    /\ Hold("web", [row EXCEPT !.planned = TRUE, !.result = FALSE,
                               !.status = IF SlotBusy \/ ask = "queued"
                                          THEN "queued" ELSE "running"])
    /\ UNCHANGED <<row, ask, aim, stops, struck, library, asked, busy, orphans,
                   crashes, undone, cut>>

\* POST /cancel: the ask goes with the session.  A queued run is withdrawn, an
\* executing one is asked to stop and the status left alone, and with nothing
\* live the session simply ends.
CancelSession ==
    /\ row.status \notin Terminal
    /\ Hold("web", IF plan \in PlanAdmitted THEN row
                   ELSE [row EXCEPT !.status = "cancelled"])
    /\ ask' = IF ask = "queued" THEN "none" ELSE ask
    /\ plan' = IF plan = "queued" THEN "none" ELSE plan
    /\ stops' = stops \cup (IF ask \in AskAdmitted THEN {"ask"} ELSE {})
                      \cup (IF plan \in PlanAdmitted THEN {"plan"} ELSE {})
    /\ UNCHANGED <<row, aim, struck, library, asked, busy, orphans, crashes,
                   undone, cut>>

\* _reject_unless_askable, then the question is appended and saved ...
Ask ==
    /\ row.status \notin Started
    /\ ~AskInFlight
    /\ ~SlotBusy
    /\ asked < MaxAsks
    /\ Hold("webAsk",
            [row EXCEPT !.msgs = Append(@, <<"question", asked + 1>>)])
    /\ UNCHANGED <<row, bodyVars, busy, orphans, crashes, undone, cut>>

\* ... and submitted once it is stored, whatever holds the slot by then.
AskSaved ==
    /\ Saved("webAsk")
    /\ ask' = "queued" /\ asked' = asked + 1
    /\ UNCHANGED <<copy, plan, aim, stops, struck, library, busy, orphans,
                   crashes, undone, cut>>

\* POST /ask/cancel saves nothing.
CancelAsk ==
    /\ holder = "free" /\ AskInFlight
    /\ ask' = IF ask = "queued" THEN "none" ELSE ask
    /\ stops' = IF ask = "queued" THEN stops ELSE stops \cup {"ask"}
    /\ UNCHANGED <<row, lockVars, plan, aim, struck, library, asked, busy,
                   orphans, crashes, undone, cut>>

\* touch() of a handler returns, and the lock is released.
WebSaved ==
    /\ Saved("web")
    /\ UNCHANGED <<copy, bodyVars, busy, orphans, crashes, undone, cut>>

(***************************************************************************)
(* The ask body: _answer, _record_answer, _clear_ask.                      *)
(***************************************************************************)

AskAdmit ==
    /\ ask = "queued" /\ ~SlotBusy
    /\ ask' = "answering"
    /\ UNCHANGED <<row, lockVars, plan, aim, stops, struck, library, asked,
                   busy, orphans, crashes, undone, cut>>

\* The Explainer returned, or raised, or a checkpoint saw the token.
Answering ==
    /\ ask = "answering"
    /\ ask' \in {"recording", "clearing"}
    /\ UNCHANGED <<row, lockVars, plan, aim, stops, struck, library, asked,
                   busy, orphans, crashes, undone, cut>>

RecordAnswer ==
    /\ ask = "recording"
    /\ Hold("ask", [row EXCEPT !.msgs = Append(@, <<"answer", asked>>)])
    /\ ask' = "saving"
    /\ UNCHANGED <<row, plan, aim, stops, struck, library, asked, busy,
                   orphans, crashes, undone, cut>>

AnswerSaved ==
    /\ ask = "saving" /\ Saved("ask")
    /\ ask' = "clearing"
    /\ UNCHANGED <<copy, plan, aim, stops, struck, library, asked, busy,
                   orphans, crashes, undone, cut>>

\* The stored flag is abstracted: it is re-derived wherever it is read, so
\* clearing it saves the row as it was loaded.
ClearAsk ==
    /\ ask = "clearing"
    /\ Hold("ask", row)
    /\ ask' = "clearSaving"
    /\ UNCHANGED <<row, plan, aim, stops, struck, library, asked, busy,
                   orphans, crashes, undone, cut>>

AskCleared ==
    /\ ask = "clearSaving" /\ Saved("ask")
    /\ ask' = "none"
    /\ stops' = stops \ {"ask"} /\ struck' = struck \ {"ask"}
    /\ UNCHANGED <<copy, plan, aim, library, asked, busy, orphans, crashes,
                   undone, cut>>

(***************************************************************************)
(* The plan body: _plan_body, _finish (run_plan in orchestrator).          *)
(***************************************************************************)

PlanAdmit ==
    /\ plan = "queued" /\ ~SlotBusy
    /\ plan' = "planning"
    /\ UNCHANGED <<row, lockVars, ask, aim, stops, struck, library, asked,
                   busy, orphans, crashes, undone, cut>>

FinishWith(outcome) ==
    /\ plan' = "finishing" /\ aim' = outcome
    /\ UNCHANGED <<row, lockVars, ask, stops, struck, library, asked, busy,
                   orphans, crashes, undone, cut>>

\* The checkout never came, the ScrumMaster failed, or a story preview did
\* while the plan itself could not be built.
PlanFails == plan = "planning" /\ FinishWith("failed")

\* Bug: a Stop seen at a checkpoint leaves the body without a _finish.
PlanStoppedSilently ==
    /\ plan = "planning" /\ "plan" \in stops
    /\ plan' = "none"
    /\ stops' = stops \ {"plan"} /\ struck' = struck \ {"plan"}
    /\ UNCHANGED <<row, lockVars, ask, aim, library, asked, busy, orphans,
                   crashes, undone, cut>>

PlanStopped == plan = "planning" /\ "plan" \in stops /\ FinishWith("cancelled")

\* Bug: the session is finished first, and its plan stored when it can be.
PlannedUnstored == plan = "planning" /\ FinishWith("completed")

Planned ==
    /\ plan = "planning"
    /\ plan' = "storing"
    /\ UNCHANGED <<row, lockVars, ask, aim, stops, struck, library, asked,
                   busy, orphans, crashes, undone, cut>>

\* plan_store().save comes before the session is marked complete.
StorePlan ==
    /\ plan = "storing"
    /\ library' = TRUE
    /\ plan' = "finishing" /\ aim' = "completed"
    /\ UNCHANGED <<row, lockVars, ask, stops, struck, asked, busy, orphans,
                   crashes, undone, cut>>

StoreFails == plan = "storing" /\ FinishWith("failed")

\* load_promotable_plan takes a session by its row alone.
Promotable == row.status = "completed" /\ row.result

\* _finish re-reads; it returns silently when the row is not its run's.
Finish ==
    /\ plan = "finishing" /\ row.planned
    /\ Hold("plan", [row EXCEPT !.status = aim,
                                !.result = (aim = "completed") \/ @])
    /\ plan' = "finSaving"
    /\ UNCHANGED <<row, ask, aim, stops, struck, library, asked, busy, orphans,
                   crashes, undone, cut>>

FinishSuperseded ==
    /\ plan = "finishing" /\ holder = "free" /\ ~row.planned
    /\ plan' = "none"
    /\ stops' = stops \ {"plan"} /\ struck' = struck \ {"plan"}
    /\ UNCHANGED <<row, lockVars, ask, aim, library, asked, busy, orphans,
                   crashes, undone, cut>>

FinishSaved ==
    /\ plan = "finSaving" /\ Saved("plan")
    /\ plan' = "reaping"
    /\ UNCHANGED <<copy, ask, aim, stops, struck, library, asked, busy,
                   orphans, crashes, undone, cut>>

\* arun_console_reaper: when it raises after a completed plan, the body's
\* generic arm writes FAILED over it.
Reaped ==
    /\ plan = "reaping"
    /\ plan' = "none"
    /\ stops' = stops \ {"plan"} /\ struck' = struck \ {"plan"}
    /\ UNCHANGED <<row, lockVars, ask, aim, library, asked, busy, orphans,
                   crashes, undone, cut>>

ReaperRaises == plan = "reaping" /\ aim = "completed" /\ FinishWith("failed")

(***************************************************************************)
(* The watchdog, the threads it leaves behind, other sessions, a restart.  *)
(***************************************************************************)

Orphan == [over |-> row, save |-> copy]

\* CancelledError in the ask body: the finally clause still clears, unless it
\* was the finally clause that was hit.
StrikeAsk ==
    /\ HardStops /\ "ask" \in stops \ struck /\ ask \in AskAdmitted
    /\ IF ask \in {"clearing", "clearSaving"}
       THEN /\ ask' = "none"
            /\ stops' = stops \ {"ask"} /\ struck' = struck \ {"ask"}
       ELSE /\ ask' = "clearing" /\ struck' = struck \cup {"ask"}
            /\ UNCHANGED stops
    /\ orphans' = IF holder = "ask" THEN orphans \cup {Orphan} ELSE orphans
    /\ holder' = IF holder = "ask" THEN "free" ELSE holder
    /\ UNCHANGED <<row, copy, plan, aim, library, asked, busy, crashes, undone,
                   cut>>

\* In the plan body: _finish(CANCELLED), unless it was hit inside one that an
\* except arm was running, which nothing catches.
StrikePlan ==
    /\ HardStops /\ "plan" \in stops \ struck /\ plan \in PlanAdmitted
    /\ LET inArm == plan \in {"finishing", "finSaving", "reaping"}
                      /\ aim # "completed"
       IN  IF inArm
           THEN /\ plan' = "none" /\ cut' = (plan # "reaping")
                /\ stops' = stops \ {"plan"} /\ UNCHANGED <<aim, struck>>
           ELSE /\ plan' = "finishing" /\ aim' = "cancelled"
                /\ struck' = struck \cup {"plan"}
                /\ UNCHANGED <<stops, cut>>
    /\ orphans' = IF holder = "plan" THEN orphans \cup {Orphan} ELSE orphans
    /\ holder' = IF holder = "plan" THEN "free" ELSE holder
    /\ UNCHANGED <<row, copy, ask, library, asked, busy, crashes, undone>>

\* The thread gets to the row.  All is well if the row is still the one its
\* task had loaded and nobody is between load and save; else one write undoes
\* the other.
OrphanLands ==
    \E o \in orphans :
        /\ orphans' = orphans \ {o}
        /\ row' = o.save
        /\ undone' = (undone \/ holder # "free" \/ row # o.over)
        /\ UNCHANGED <<lockVars, bodyVars, busy, crashes, cut>>

OthersStart ==
    /\ ~SlotBusy
    /\ busy' = TRUE
    /\ UNCHANGED <<row, lockVars, bodyVars, orphans, crashes, undone, cut>>

OthersEnd ==
    /\ busy
    /\ busy' = FALSE
    /\ UNCHANGED <<row, lockVars, bodyVars, orphans, crashes, undone, cut>>

\* The process dies and the start-up sweep fails what was in flight.
Restart ==
    /\ crashes < MaxCrashes
    /\ crashes' = crashes + 1
    /\ row' = [row EXCEPT !.status = IF @ \in Started THEN "failed" ELSE @]
    /\ holder' = "free"
    /\ ask' = "none" /\ plan' = "none"
    /\ stops' = {} /\ struck' = {} /\ busy' = FALSE /\ orphans' = {}
    /\ UNCHANGED <<copy, aim, library, undone, cut, asked>>

(***************************************************************************)
(* The specification.                                                      *)
(***************************************************************************)

\* Bound: no request follows a late save that undid the row, since the
\* properties excuse whatever would come of it.
Requests ==
    /\ ~undone
    /\ \/ PostMessage \/ SubmitAnswers \/ Confirm \/ StartPlan
       \/ CancelSession \/ Ask \/ CancelAsk

\* What needs the lock or the slot, both of which serve their waiters in
\* order: strong fairness.  The rest is a task or a thread that will run.
AskWaits  == AskAdmit \/ RecordAnswer \/ ClearAsk
PlanWaits == PlanAdmit \/ Finish \/ FinishSuperseded
AskWorks  == Answering \/ AnswerSaved \/ AskCleared
PlanWorks == PlanFails \/ PlanStopped \/ Planned \/ StorePlan \/ StoreFails
               \/ FinishSaved \/ Reaped \/ ReaperRaises

Next ==
    \/ Requests \/ WebSaved \/ AskSaved
    \/ AskWaits \/ AskWorks \/ PlanWaits \/ PlanWorks
    \/ StrikeAsk \/ StrikePlan \/ OrphanLands
    \/ OthersStart \/ OthersEnd \/ Restart

Spec == Init /\ [][Next]_vars

FairSpec ==
    /\ Spec
    /\ WF_vars(WebSaved) /\ WF_vars(AskSaved) /\ WF_vars(OthersEnd)
    /\ SF_vars(AskWaits) /\ SF_vars(PlanWaits)
    /\ WF_vars(AskWorks) /\ WF_vars(PlanWorks)

(***************************************************************************)
(* Properties.                                                             *)
(***************************************************************************)

\* A confirmation belongs to the understanding it was given for: a confirmed
\* session is confirmed in the round that is open, every question of that
\* round is answered, and answers answer open questions only (clarify.py,
\* "Re-interpreting produced a different one, so it has to be given again").
ConfirmedIsCurrent ==
    /\ row.answers \subseteq row.questions
    /\ row.status = "ready" => row.answers = row.questions
    /\ row.confirmed => row.agreed = row.round /\ row.answers = row.questions
    /\ row.status \in Started => row.confirmed

\* "A Promote that raced a completion must never find a finished plan with no
\* backlog behind it" (plan.py): promote takes any session that is completed
\* with a result, and its plan is in the library by then.
CompletedHasPlan == Promotable => library

\* Nothing the user said is lost: the conversation only grows and every
\* accepted answer is still in the open round or among the prior ones.  A
\* struck task's late save (OrphanLands) is the one thing that can undo it.
NothingForgotten ==
    [][\/ undone'
       \/ /\ IsPrefix(row.msgs, row'.msgs)
          /\ row.answers \cup row.prior
               \subseteq row'.answers \cup row'.prior]_vars

\* A session that ended stays ended; and once its own plan body is gone, with
\* the same outcome (the body itself may still turn completed into failed or
\* cancelled, when the reaper raises or the watchdog fires).
EndsStayEnded ==
    [][(row.status \in Terminal /\ ~undone') =>
          /\ row'.status \in Terminal
          /\ (~PlanLive /\ orphans = {}) => row'.status = row.status]_vars

\* An accepted question stops being in flight, so the composer comes back, and
\* a started plan reaches an outcome - unless the watchdog struck the body
\* inside its last _finish, or a late save undid the row.
BodiesSettle ==
    /\ AskInFlight ~> ~AskInFlight
    /\ row.status \in Started ~> (row.status \in Terminal \/ cut \/ undone)
=============================================================================
