---------------------------- MODULE SessionFiles ----------------------------
(***************************************************************************)
(* The checkouts of console sessions and the rows that describe them       *)
(* (api/console/workspace.py, orchestrator/console_store.py and the        *)
(* handlers that create, use and delete sessions).                         *)
(*                                                                         *)
(* A background task clones and indexes each new session's repository and  *)
(* records its progress under the session lock, re-reading the row first.  *)
(* A request for a finished session runs the sweeper in a thread: it lists *)
(* all rows once, deletes expired sessions, then evicts the coldest        *)
(* checkouts - deleting files and writing back the rows it listed, with no *)
(* lock.  The watchdog can strike the body of an ask or of a plan run while *)
(* a thread saves what it holds: the lock is free, and the save comes late. *)
(* A restart kills tasks and threads where they are.                       *)
(***************************************************************************)
EXTENDS Naturals, FiniteSets, Functions

CONSTANTS
    Sessions,     \* the sessions ever created
    Elders,       \* those that finished before, their checkout still there
    Cap,          \* settings.console_max_workspaces; 0 never evicts
    MaxTalk,      \* bound: transcript entries per session
    MaxBreaks,    \* bound: restarts and late saves
    Absent        \* no row

ASSUME FilesAssumption ==
    /\ {Cap, MaxTalk, MaxBreaks} \subseteq Nat
    /\ IsFiniteSet(Sessions) /\ Elders \subseteq Sessions

VARIABLES
    row,      \* console_sessions: the row of each session, or Absent
    disk,     \* the sessions with a directory under workspace_base
    prep,     \* the stage of each session's preparation task
    lock,     \* who is inside the session lock
    copy,     \* the session object the lock's holder has loaded
    asking,   \* how far the body of each session's ask is
    closing,  \* plan runs struck inside _finish, which they call again
    orphans,  \* saves whose body was struck: the thread has not come to them
    warmer,   \* the sessions last saved after each one (updated_at)
    expired,  \* sessions saved longer ago than the TTL
    sweep,    \* the sweeper: its phase, caller, the rows left, those half done
    crashes,
    \* History.
    born,     \* sessions whose row has been saved
    gone,     \* sessions whose row has been deleted
    raced,    \* the sweeper wrote a row that had changed, or was being changed
    undone,   \* an orphan did
    torn      \* deleted while the clone ran, or cut off between files and row

vars == <<row, disk, prep, lock, copy, asking, closing, orphans, warmer,
          expired, sweep, crashes, born, gone, raced, undone, torn>>

bodies  == <<asking, closing, orphans>>
history == <<born, gone, raced, undone, torn>>

Life   == {"open", "started", "over"}  \* over: a terminal status
WsKind == {"pending", "cloning", "ready", "failed", "evicted"}
IxKind == {"pending", "indexing", "ended"}  \* ended: ready, failed, skipped
Row    == [life : Life, ws : WsKind, ix : IxKind, talk : 0..MaxTalk]

ASSUME AbsentAssumption == Absent \notin Sessions \cup Row

\* Where the preparation task is: cloning, waiting for the lock to record
\* news (tell...), saving it (save...), or indexing.
Stages == {"clone", "index"}
News   == {"cloned", "cloneFailed", "indexing", "indexEnded"}
Preparing == {<<"work", w>> : w \in Stages}
               \cup ({"tell", "save"} \X News)
Idle == <<"idle", "none">>

\* A body inside the session lock: _record_answer, _clear_ask, _finish.
Body    == {"answer", "clear", "plan"}
Holding == {"web", "prep"} \cup Body  \* between a load and its save

\* struck: it is to clear, and cannot be struck again.
AskStage == {"none", "answering", "clearing", "struck"}

TypeOK ==
    /\ row \in [Sessions -> Row \cup {Absent}]
    /\ disk \subseteq Sessions
    /\ prep \in [Sessions -> Preparing \cup {Idle}]
    /\ lock \in [Sessions -> {"free", "purge", "get"} \cup Holding]
    /\ copy \in [Sessions -> Row \cup {Absent}]
    /\ asking \in [Sessions -> AskStage]
    /\ orphans \subseteq
          [s : Sessions, over : Row \cup {Absent}, save : Row]
    /\ closing \subseteq Sessions /\ expired \subseteq Sessions
    /\ warmer \in [Sessions -> SUBSET Sessions]
    /\ sweep.at \in {"off", "reap", "evict"}
    /\ sweep.by \in Sessions \cup {Absent}
    /\ \A t \in sweep.todo : t.s \in Sessions /\ t.row \in Row
    /\ sweep.half \subseteq sweep.todo
    /\ crashes \in Nat
    /\ UNION {born, gone, raced, undone, torn} \subseteq Sessions

SweepOff == [at |-> "off", by |-> Absent, todo |-> {}, half |-> {}]

Init ==
    /\ row = [s \in Sessions |->
          IF s \in Elders
          THEN [life |-> "over", ws |-> "ready", ix |-> "ended", talk |-> 0]
          ELSE Absent]
    /\ \E place \in [Elders -> 1..Cardinality(Elders)] :
          /\ IsInjective(place)
          /\ warmer = [s \in Sessions |->
                {e \in Elders : s \in Elders /\ place[e] > place[s]}]
    /\ disk = Elders /\ born = Elders
    /\ copy = [s \in Sessions |-> Absent] /\ expired = {}
    /\ asking = [s \in Sessions |-> "none"] /\ closing = {} /\ orphans = {}
    /\ prep = [s \in Sessions |-> Idle]
    /\ lock = [s \in Sessions |-> "free"]
    /\ sweep = SweepOff /\ crashes = 0
    /\ gone = {} /\ raced = {} /\ undone = {} /\ torn = {}

\* A late save counts while it is under way, and if it met another write.
Breaks == crashes + Cardinality(orphans) + Cardinality(undone)

Exists(s) == row[s] # Absent
Booting   == sweep.at # "off" /\ sweep.by = Absent  \* lifespan: not serving

\* ConsoleSessionStore.save: the row, stamped with the time.
Save(s, r) ==
    /\ row' = [row EXCEPT ![s] = r]
    /\ warmer' = [x \in Sessions |->
          IF x = s \/ ~Exists(x) THEN {} ELSE warmer[x] \cup {s}]
    /\ expired' = expired \ {s}

Unsaved == UNCHANGED <<row, warmer, expired>>

DropRow(s) ==
    /\ row' = [row EXCEPT ![s] = Absent]
    /\ warmer' = [x \in Sessions |-> IF x = s THEN {} ELSE warmer[x] \ {s}]
    /\ expired' = expired \ {s}
    /\ gone' = gone \cup {s}

(***************************************************************************)
(* Requests.  A handler takes the lock, loads the row, and saves it later; *)
(* a background body records its outcome in the same way.                  *)
(***************************************************************************)

\* POST /sessions (and promote): the preparation task starts before the
\* handler has saved the row it describes.
Create(s) ==
    /\ ~Booting /\ s \notin born /\ lock[s] = "free"
    /\ \E prepare \in BOOLEAN :   \* settings.console_workspace_on_create
        /\ lock' = [lock EXCEPT ![s] = "web"]
        /\ copy' = [copy EXCEPT ![s] =
              [life |-> "open", talk |-> 0,
               ws |-> IF prepare THEN "cloning" ELSE "pending",
               ix |-> IF prepare THEN "pending" ELSE "ended"]]
        /\ prep' = [prep EXCEPT ![s] =
              IF prepare THEN <<"work", "clone">> ELSE Idle]
        /\ disk' = IF prepare THEN disk \cup {s} ELSE disk
    /\ Unsaved
    /\ UNCHANGED <<bodies, sweep, crashes, history>>

\* The row c as a handler or a body leaves it.
Told(c)  == [c EXCEPT !.talk = IF @ < MaxTalk THEN @ + 1 ELSE @]
Message(c) == IF c.life = "open" THEN Told(c) ELSE c
Start(c) == IF c.life = "open" THEN [c EXCEPT !.life = "started"] ELSE c
Ended(c) == [c EXCEPT !.life = "over"]   \* cancelled, or its run has ended

\* A handler other than ask and delete.
Handle(s) ==
    /\ ~Booting /\ Exists(s) /\ lock[s] = "free"
    /\ \E c \in {Message(row[s]), Start(row[s]), Ended(row[s])} \ {row[s]} :
        copy' = [copy EXCEPT ![s] = c]
    /\ lock' = [lock EXCEPT ![s] = "web"]
    /\ Unsaved
    /\ UNCHANGED <<disk, prep, bodies, sweep, crashes, history>>

\* ask_console_session: open to finished sessions, one ask at a time.
Ask(s) ==
    /\ ~Booting /\ Exists(s) /\ lock[s] = "free"
    /\ row[s].life # "started" /\ row[s].ws = "ready" /\ asking[s] = "none"
    /\ row[s].talk < MaxTalk
    /\ lock' = [lock EXCEPT ![s] = "web"]
    /\ copy' = [copy EXCEPT ![s] = Told(row[s])]
    /\ asking' = [asking EXCEPT ![s] = "answering"]
    /\ Unsaved
    /\ UNCHANGED <<disk, prep, closing, orphans, sweep, crashes, history>>

\* touch has saved the handler's copy; the lock is released.
HandlerSaved(s) ==
    /\ lock[s] = "web"
    /\ lock' = [lock EXCEPT ![s] = "free"]
    /\ Save(s, copy[s])
    /\ copy' = [copy EXCEPT ![s] = Absent]
    /\ born' = born \cup {s}
    /\ UNCHANGED <<disk, prep, bodies, sweep, crashes, gone, raced, undone,
                   torn>>

(***************************************************************************)
(* The registry's bodies: an ask's answer and its finally clause, the end  *)
(* of a plan run.  Each takes the lock, loads the row and has a thread     *)
(* save it.                                                                *)
(***************************************************************************)

\* The registry has one slot: no body runs while another does.
SlotFree == /\ closing = {}
            /\ \A s \in Sessions : /\ lock[s] \notin Body
                                  /\ asking[s] \notin {"clearing", "struck"}

BodyLoads(s, body, c) ==
    /\ lock' = [lock EXCEPT ![s] = body]
    /\ copy' = [copy EXCEPT ![s] = c]

\* _record_answer; a session that is gone has nothing to record.
RecordAnswer(s) ==
    /\ asking[s] = "answering" /\ SlotFree /\ lock[s] = "free"
    /\ IF Exists(s)
       THEN BodyLoads(s, "answer", Told(row[s])) /\ UNCHANGED asking
       ELSE /\ asking' = [asking EXCEPT ![s] = "clearing"]
            /\ UNCHANGED <<lock, copy>>
    /\ Unsaved
    /\ UNCHANGED <<disk, prep, closing, orphans, sweep, crashes, history>>

\* The Explainer raises, or a checkpoint sees the Stop; an ask stopped while it
\* is queued has no body to clear it.
AskFails(s) ==
    /\ asking[s] = "answering" /\ lock[s] # "answer"
    /\ \/ SlotFree /\ asking' = [asking EXCEPT ![s] = "clearing"]
       \/ asking' = [asking EXCEPT ![s] = "none"]
    /\ Unsaved
    /\ UNCHANGED <<disk, prep, lock, copy, closing, orphans, sweep, crashes,
                   history>>

\* _clear_ask: nothing it clears is in Row, but it writes the whole row.
ClearAsk(s) ==
    /\ asking[s] \in {"clearing", "struck"} /\ lock[s] = "free"
    /\ IF Exists(s)
       THEN BodyLoads(s, "clear", row[s]) /\ UNCHANGED asking
       ELSE asking' = [asking EXCEPT ![s] = "none"] /\ UNCHANGED <<lock, copy>>
    /\ Unsaved
    /\ UNCHANGED <<disk, prep, closing, orphans, sweep, crashes, history>>

\* _finish of a plan run, and again after a strike, when it may find its own
\* end stored, or the session gone.
FinishPlan(s) ==
    /\ \/ SlotFree /\ ~Booting /\ Exists(s) /\ row[s].life = "started"
       \/ s \in closing
    /\ lock[s] = "free"
    /\ IF Exists(s)
       THEN BodyLoads(s, "plan", Ended(row[s])) /\ UNCHANGED closing
       ELSE closing' = closing \ {s} /\ UNCHANGED <<lock, copy>>
    /\ Unsaved
    /\ UNCHANGED <<disk, prep, asking, orphans, sweep, crashes, history>>

\* Where the ask is once its save has landed.
Cleared(s) == CASE lock[s] = "answer" -> "clearing"
                [] lock[s] = "clear"  -> "none"
                [] OTHER              -> asking[s]

BodySaved(s) ==
    /\ lock[s] \in Body
    /\ lock' = [lock EXCEPT ![s] = "free"]
    /\ Save(s, copy[s])
    /\ copy' = [copy EXCEPT ![s] = Absent]
    /\ asking' = [asking EXCEPT ![s] = Cleared(s)]
    /\ closing' = IF lock[s] = "plan" THEN closing \ {s} ELSE closing
    /\ UNCHANGED <<disk, prep, orphans, sweep, crashes, history>>

\* CancelledError inside touch: the lock is free while the thread still has
\* the copy to save, unless it had not been started yet.
Abandons(s) ==
    /\ lock' = [lock EXCEPT ![s] = "free"]
    /\ copy' = [copy EXCEPT ![s] = Absent]
    /\ \/ orphans' = orphans
             \cup {[s |-> s, over |-> row[s], save |-> copy[s]]}
       \/ UNCHANGED orphans

\* The watchdog strikes an ask's body, once: the finally clause still clears,
\* unless it was the finally clause that was hit.
StrikeAsk(s) ==
    /\ asking[s] = "clearing" \/ (asking[s] = "answering" /\
          (lock[s] = "answer" \/ SlotFree))
    /\ asking' = [asking EXCEPT ![s] =
          IF @ = "answering" THEN "struck" ELSE "none"]
    /\ IF lock[s] \in {"answer", "clear"} THEN Abandons(s)
       ELSE UNCHANGED <<lock, copy, orphans>>
    /\ Unsaved
    /\ UNCHANGED <<disk, prep, closing, sweep, crashes, history>>

\* It strikes a plan's body, once: _finish(cancelled) comes next.
StrikePlan(s) ==
    /\ lock[s] = "plan" /\ s \notin closing
    /\ closing' = closing \cup {s}
    /\ Abandons(s)
    /\ Unsaved
    /\ UNCHANGED <<disk, prep, asking, sweep, crashes, history>>

\* The thread gets to the row, whoever holds the lock by now.
OrphanLands(o) ==
    /\ orphans' = orphans \ {o}
    /\ Save(o.s, o.save)
    /\ undone' = IF row[o.s] # o.over \/ lock[o.s] \in Holding
                 THEN undone \cup {o.s} ELSE undone
    /\ UNCHANGED <<disk, prep, lock, copy, asking, closing, sweep, crashes, born,
                   gone, raced, torn>>

\* DELETE /sessions/{id}: refused for a live run or an ask in flight - not for
\* a preparation in flight.  Files first, then the row.
Delete(s) ==
    /\ ~Booting /\ Exists(s) /\ lock[s] = "free"
    /\ row[s].life # "started" /\ asking[s] = "none"
    /\ lock' = [lock EXCEPT ![s] = "purge"]
    /\ disk' = disk \ {s}
    /\ torn' = IF prep[s] = <<"work", "clone">> THEN torn \cup {s} ELSE torn
    /\ Unsaved
    /\ UNCHANGED <<prep, copy, bodies, sweep, crashes, born, gone, raced,
                   undone>>

DeleteRow(s) ==
    /\ lock[s] = "purge"
    /\ lock' = [lock EXCEPT ![s] = "free"]
    /\ DropRow(s)
    /\ UNCHANGED <<disk, prep, copy, bodies, sweep, crashes, born, raced,
                   undone, torn>>

(***************************************************************************)
(* The preparation task.                                                   *)
(***************************************************************************)

\* prepare_workspace returns: a directory is there in any case, since it is
\* made before git clone runs - and made again if it was deleted meanwhile.
CloneEnds(s) ==
    /\ prep[s] = <<"work", "clone">>
    /\ \E news \in {"cloned", "cloneFailed"} :
        prep' = [prep EXCEPT ![s] = <<"tell", news>>]
    /\ \/ UNCHANGED disk
       \/ s \in torn /\ disk' = disk \cup {s}
    /\ Unsaved
    /\ UNCHANGED <<lock, copy, bodies, sweep, crashes, history>>

\* What _record sets for each piece of news, and what the task does next.
Recorded(c, news) ==
    CASE news = "cloned"      -> [c EXCEPT !.ws = "ready"]
      [] news = "cloneFailed" -> [c EXCEPT !.ws = "failed", !.ix = "ended"]
      [] news = "indexing"    -> [c EXCEPT !.ix = "indexing"]
      [] news = "indexEnded"  -> [c EXCEPT !.ix = "ended"]

After(news) ==   \* settings.console_index_on_create
    CASE news = "cloned"   -> {<<"tell", "indexing">>, <<"tell", "indexEnded">>}
      [] news = "indexing" -> {<<"work", "index">>}
      [] OTHER             -> {Idle}

\* Bug: _record saves the session object the task was handed.
RecordsHanded(s) ==
    /\ prep[s][1] = "tell" /\ lock[s] = "free" /\ Exists(s)
    /\ lock' = [lock EXCEPT ![s] = "prep"]
    /\ copy' = [copy EXCEPT ![s] = Recorded(
          [life |-> "open", ws |-> "cloning", ix |-> "pending", talk |-> 0],
          prep[s][2])]
    /\ prep' = [prep EXCEPT ![s] = <<"save", prep[s][2]>>]
    /\ Unsaved
    /\ UNCHANGED <<disk, bodies, sweep, crashes, history>>

\* _record: the lock, then the row as it is now; nothing if it is deleted.
RecordBegins(s) ==
    /\ prep[s][1] = "tell" /\ lock[s] = "free"
    /\ IF Exists(s)
       THEN /\ lock' = [lock EXCEPT ![s] = "prep"]
            /\ copy' = [copy EXCEPT ![s] = Recorded(row[s], prep[s][2])]
            /\ prep' = [prep EXCEPT ![s] = <<"save", prep[s][2]>>]
       ELSE /\ \E next \in After(prep[s][2]) :
                    prep' = [prep EXCEPT ![s] = next]
            /\ UNCHANGED <<lock, copy>>
    /\ Unsaved
    /\ UNCHANGED <<disk, bodies, sweep, crashes, history>>

RecordSaved(s) ==
    /\ lock[s] = "prep"
    /\ lock' = [lock EXCEPT ![s] = "free"]
    /\ Save(s, copy[s])
    /\ copy' = [copy EXCEPT ![s] = Absent]
    /\ \E next \in After(prep[s][2]) : prep' = [prep EXCEPT ![s] = next]
    /\ UNCHANGED <<disk, bodies, sweep, crashes, history>>

\* maybe_index_shared: indexed, failed, or not worth indexing.
IndexEnds(s) ==
    /\ prep[s] = <<"work", "index">>
    /\ prep' = [prep EXCEPT ![s] = <<"tell", "indexEnded">>]
    /\ Unsaved
    /\ UNCHANGED <<disk, lock, copy, bodies, sweep, crashes, history>>

(***************************************************************************)
(* The sweeper.                                                            *)
(***************************************************************************)

\* Two weeks pass without a save of a terminal session.  Nothing takes that
\* long, so nothing of it is in flight.
Expire(s) ==
    /\ Exists(s) /\ row[s].life = "over" /\ s \notin expired
    /\ asking[s] = "none" /\ lock[s] = "free" /\ prep[s] = Idle
    /\ s \notin {o.s : o \in orphans} \cup closing /\ sweep.at = "off"
    /\ expired' = expired \cup {s}
    /\ UNCHANGED <<row, disk, prep, lock, copy, bodies, warmer, sweep, crashes,
                   history>>

\* reap_console_sessions lists the rows: the terminal ones past the TTL.
Expired ==
    {[s |-> x, row |-> row[x]] : x \in {y \in expired :
        row[y].life = "over"}}

\* enforce_workspace_lru lists the rows: of the ready ones beyond the newest
\* Cap, those that are terminal.
Held == {x \in Sessions : Exists(x) /\ row[x].ws = "ready"}

BeyondCap(x) == Cap # 0 /\ Cardinality(warmer[x] \cap Held) >= Cap

\* Bug: the eviction takes live sessions too.
ColdestOfAll == {[s |-> x, row |-> row[x]] : x \in {y \in Held : BeyondCap(y)}}

Coldest ==
    {[s |-> x, row |-> row[x]] :
        x \in {y \in Held : BeyondCap(y) /\ row[y].life = "over"}}

\* GET of a finished session: the handler keeps its session's lock while the
\* thread sweeps.  Bound: one sweeper at a time.
SweepStarts(s) ==
    /\ sweep.at = "off" /\ Exists(s) /\ lock[s] = "free"
    /\ row[s].life = "over"
    /\ Expired # {} \/ Coldest # {}
    /\ lock' = [lock EXCEPT ![s] = "get"]
    /\ sweep' = [at |-> "reap", by |-> s, todo |-> Expired, half |-> {}]
    /\ Unsaved
    /\ UNCHANGED <<disk, prep, copy, bodies, crashes, history>>

\* Bug: the reaper drops rows and leaves their checkouts.
SweepFilesEvictingOnly(t) ==
    /\ sweep.half = {}
    /\ sweep' = [sweep EXCEPT !.half = {t}]
    /\ disk' = IF sweep.at = "evict" THEN disk \ {t.s} ELSE disk
    /\ Unsaved
    /\ UNCHANGED <<prep, lock, copy, bodies, crashes, history>>

\* Both phases delete a session's files before they write its row.
SweepFiles(t) ==
    /\ sweep.half = {}
    /\ sweep' = [sweep EXCEPT !.half = {t}]
    /\ disk' = disk \ {t.s}
    /\ Unsaved
    /\ UNCHANGED <<prep, lock, copy, bodies, crashes, history>>

\* The write is blind: the row may have changed since it was listed, or be
\* between a handler's load and its save.
Blind(t) ==
    raced' = IF row[t.s] # t.row \/ lock[t.s] \notin {"free", "get"}
             THEN raced \cup {t.s} ELSE raced

SweepRow(t) ==
    /\ t \in sweep.half
    /\ sweep' = [sweep EXCEPT !.half = {}, !.todo = @ \ {t}]
    /\ \/ sweep.at = "reap" /\ DropRow(t.s)
       \/ /\ sweep.at = "evict"
          /\ Save(t.s, [t.row EXCEPT !.ws = "evicted"])
          /\ UNCHANGED gone
    /\ Blind(t)
    /\ UNCHANGED <<disk, prep, lock, copy, bodies, crashes, born, undone, torn>>

SweepTurns ==
    /\ sweep.at = "reap" /\ sweep.todo = {}
    /\ sweep' = [sweep EXCEPT !.at = "evict", !.todo = Coldest]
    /\ Unsaved
    /\ UNCHANGED <<disk, prep, lock, copy, bodies, crashes, history>>

SweepEnds ==
    /\ sweep.at = "evict" /\ sweep.todo = {}
    /\ sweep' = SweepOff
    /\ lock' = IF sweep.by = Absent THEN lock
               ELSE [lock EXCEPT ![sweep.by] = "free"]
    /\ Unsaved
    /\ UNCHANGED <<disk, prep, copy, bodies, crashes, history>>

\* Bug: start-up knows of interrupted runs only.
InterruptedRun(r) ==
    IF r = Absent THEN Absent
    ELSE [r EXCEPT !.life = IF @ = "started" THEN "over" ELSE @]

\* The process dies.  At start-up sweep_interrupted_runs fails the started
\* sessions, sweep_interrupted_workspace_prep the preparations, and the
\* sweeper runs before the first request is served.
Interrupted(r) ==
    IF r = Absent THEN Absent
    ELSE [r EXCEPT
            !.life = IF @ = "started" THEN "over" ELSE @,
            !.ws = IF @ = "cloning" THEN "failed" ELSE @,
            !.ix = IF r.ws = "cloning" \/ @ = "indexing" THEN "ended" ELSE @]

HalfDeleted == {s \in Sessions : lock[s] = "purge"} \cup {t.s : t \in sweep.half}

Restart ==
    /\ Breaks < MaxBreaks
    /\ crashes' = crashes + 1
    /\ row' = [s \in Sessions |-> Interrupted(row[s])]
    /\ prep' = [s \in Sessions |-> Idle]
    /\ lock' = [s \in Sessions |-> "free"]
    /\ asking' = [s \in Sessions |-> "none"] /\ closing' = {} /\ orphans' = {}
    /\ LET changed == {s \in Sessions : row'[s] # row[s]}  \* saved in order
       IN  /\ warmer' = [s \in Sessions |->
                 IF s \in changed THEN warmer[s] \cap changed
                 ELSE IF Exists(s) THEN warmer[s] \cup changed ELSE {}]
           /\ expired' = expired \ changed
    /\ sweep' = [SweepOff EXCEPT !.at = "reap",
          !.todo = {[s |-> x, row |-> row'[x]] : x \in expired'}]
    /\ torn' = torn \cup HalfDeleted
                 \cup {s \in Sessions : lock[s] = "web" /\ ~Exists(s)}
    /\ born' = born \cup {s \in Sessions : lock[s] = "web"}
    /\ copy' = [s \in Sessions |-> Absent]
    /\ UNCHANGED <<disk, gone, raced, undone>>

(***************************************************************************)
(* The specification.                                                      *)
(***************************************************************************)

\* Who is inside a lock has a thread at work; so has a preparation.
Leaves(s) == HandlerSaved(s) \/ BodySaved(s) \/ DeleteRow(s) \/ RecordSaved(s)
Works(s)  == CloneEnds(s) \/ IndexEnds(s)

\* The two writes that heed nothing met another write of the session.
\* Bound: no request is made for a session whose row and files are at odds
\* already, and none of its bodies gets to its answer or its end, since the
\* properties excuse what comes of it.
Overwritten == raced \cup undone

Bodies(s) ==
    \/ AskFails(s) \/ ClearAsk(s)
    \/ /\ s \notin (Overwritten \cup torn) \ closing
       /\ RecordAnswer(s) \/ FinishPlan(s)

Strike(s) ==
    /\ Breaks < MaxBreaks
    /\ StrikeAsk(s) \/ StrikePlan(s)

Sweeping ==
    \/ \E t \in sweep.todo : SweepFiles(t) \/ SweepRow(t)
    \/ SweepTurns \/ SweepEnds

Request(s) ==
    /\ s \notin Overwritten \cup torn
    /\ Create(s) \/ Handle(s) \/ Ask(s) \/ Delete(s) \/ SweepStarts(s)

Next ==
    \/ \E s \in Sessions :
        \/ Request(s) \/ Bodies(s) \/ Strike(s) \/ RecordBegins(s)
        \/ Leaves(s) \/ Works(s) \/ Expire(s)
    \/ \E o \in orphans : OrphanLands(o)
    \/ Sweeping \/ Restart

Spec == Init /\ [][Next]_vars

\* An asyncio.Lock serves its waiters in order: strong fairness for the task
\* that waits for it; the rest is work already under way.
FairSpec ==
    /\ Spec
    /\ \A s \in Sessions :
          WF_vars(Leaves(s)) /\ WF_vars(Works(s)) /\ SF_vars(RecordBegins(s))
    /\ WF_vars(Sweeping)

(***************************************************************************)
(* Properties.                                                             *)
(***************************************************************************)

\* "Only terminal sessions are candidates: a live one still needs its files"
\* (console_store.py): while a session is open or runs, its ready checkout is
\* on disk, however stale the list the sweeper works through.  A late save can
\* bring back a live row whose files are gone.
LiveKeepsCheckout ==
    \A s \in Sessions \ (torn \cup undone) :
        (Exists(s) /\ row[s].life # "over" /\ row[s].ws = "ready"
           /\ lock[s] # "purge") => s \in disk

\* Between sweeps and deletions the rows tell the truth about the disk: a
\* ready row has its checkout, an evicted or deleted one has none left - except
\* where the sweeper's blind write or a struck body's late save met another
\* write, a deletion met the clone, or a crash cut it in two (torn).
RowsMatchDisk ==
    \A s \in (born \cap {x \in Sessions : lock[x] # "purge"})
               \ (Overwritten \cup torn \cup {t.s : t \in sweep.half}) :
        IF ~Exists(s) THEN s \notin disk
        ELSE /\ row[s].ws = "ready" => s \in disk
             /\ row[s].ws = "evicted" => s \notin disk

\* What tasks, handlers, bodies and the sweeper write about one session does
\* not undo each other: the transcript only grows, and a deleted session does
\* not come back, unless the sweeper's blind write or a late save met another.
WritesKeepWrites ==
    [][\A s \in Sessions \ (raced' \cup undone') :
        /\ (Exists(s) /\ row'[s] # Absent) => row'[s].talk >= row[s].talk
        /\ s \in gone => row'[s] = Absent]_vars

\* "Never mutates the session object the request handler held" (ask.py:258):
\* what WritesKeepWrites says, with no exception for the late save of a struck
\* body.
LateSavesKeepWrites ==
    [][\A s \in Sessions \ raced' :
        /\ (Exists(s) /\ row'[s] # Absent) => row'[s].talk >= row[s].talk
        /\ s \in gone => row'[s] = Absent]_vars

\* The row of a session being prepared says so.
Unsettled(s) ==
    /\ Exists(s) /\ s \notin Overwritten
    /\ row[s].ws = "cloning" \/ row[s].ix = "indexing"

\* A preparation whose own steps do not raise comes to an end, through
\* deletions, strikes and restarts: no session says cloning or indexing for
\* ever, except where one of the two blind writes put the word back.
PrepSettles == \A s \in Sessions \ Elders : Unsettled(s) ~> ~Unsettled(s)
=============================================================================
