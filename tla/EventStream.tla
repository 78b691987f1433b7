---------------------------- MODULE EventStream ----------------------------
(***************************************************************************)
(* The timeline of one console session: orchestrator/event_log.py appends  *)
(* to the table and publishes on orchestrator/event_bus.py, and            *)
(* api/console/events.py serves it by polling and as an SSE stream.        *)
(*                                                                         *)
(* The run appends on the event loop: nothing else on the loop moves       *)
(* between its commit and its publish.  The API handlers and the backfill  *)
(* of a legacy session append in worker threads, where anything may come   *)
(* between the two.  Streams and polls are coroutines of the loop; a frame *)
(* is identified by its seq, which is its place in the table.              *)
(***************************************************************************)
EXTENDS Naturals, FiniteSets, SequencesExt

CONSTANTS
    Streams,      \* SSE clients
    Calls,        \* API requests that append one event in a worker thread
    MaxRun,       \* bound: events of the run
    OldEvents,    \* events of a session that predates the table
    Page,         \* rows per read of the replay and of a poll
    QueueMax,     \* SSE_QUEUE_MAXSIZE
    MaxConnects   \* bound: connections of one SSE client

ASSUME BoundsAssumption ==
    /\ MaxRun \in Nat /\ OldEvents \in Nat /\ MaxConnects \in Nat
    /\ Page \in Nat \ {0} /\ QueueMax \in Nat \ {0}
    /\ IsFiniteSet(Calls)
ASSUME PartiesAssumption ==
    {"run", "fill", "poll", "nobody"} \cap (Streams \cup Calls) = {}

VARIABLES
    log,         \* the events table of this session, by seq
    unpublished, \* seqs each appender has committed and not yet published
    old,         \* how many events only a legacy run's sprint sessions hold
    emitted,     \* the run's events so far
    node,        \* events of the current node that wait for its end, in order
    finished,    \* the run's stored status is terminal
    used,        \* API requests that did their append
    lock,        \* holder of the session lock: nobody, a stream or "poll"
    at,          \* where each stream's coroutine is
    connects,    \* connections each stream's client has made
    subscribed,  \* is the stream's queue registered on the bus?
    queue,       \* that queue
    batch,       \* rows read for the replay and not yet sent
    cursor,      \* the stream's cursor, which its client echoes on reconnect
    frames,      \* what the client received, over all its connections
    poll,        \* the polling client: its step, since, and complete as read
    atFinish,    \* history: size of the timeline when the run became terminal
    overtaken,   \* history: seqs not yet published when a higher one was
    grew         \* history: streams whose last look was at a growing table

runVars    == <<old, emitted, node, finished, used, atFinish>>
streamVars == <<at, connects, batch, cursor, frames>>
busVars    == <<subscribed, queue>>
pubVars    == <<unpublished, overtaken>>
vars == <<log, pubVars, runVars, lock, streamVars, grew, busVars, poll>>

Appenders == {"run", "fill"} \cup Calls
Free == "nobody"
Seqs == 1..(MaxRun + OldEvents + Cardinality(Calls))

\* off; waiting: for the session lock; filling: backfilling under it; fresh:
\* response made, generator not started; replay; live: awaiting queue.get;
\* checking: awaiting _stream_is_complete; done: the done frame was sent.
Open == {"replay", "live", "checking"}

TypeOK ==
    /\ log \in Seq({"run", "old", "api"} \X (Nat \cup Calls))
    /\ unpublished \in [Appenders -> Seq(Seqs)]
    /\ old \in {0, OldEvents} /\ emitted \in 0..MaxRun
    /\ node \in Seq(1..MaxRun) /\ finished \in BOOLEAN
    /\ used \subseteq Calls
    /\ lock \in Streams \cup {Free, "poll"}
    /\ at \in [Streams ->
            Open \cup {"off", "waiting", "filling", "fresh", "done"}]
    /\ connects \in [Streams -> 0..MaxConnects]
    /\ subscribed \in [Streams -> BOOLEAN]
    /\ queue \in [Streams -> Seq(Seqs)]
    /\ \A s \in Streams : Len(queue[s]) <= QueueMax
    /\ batch \in [Streams -> Seq(Seqs)]
    /\ cursor \in [Streams -> {0} \cup Seqs]
    /\ frames \in [Streams -> Seq(Seqs)]
    /\ poll \in [at : {"idle", "filling", "reading", "stopped"},
                 since : {0} \cup Seqs, complete : BOOLEAN]
    /\ atFinish \in {0} \cup Seqs
    /\ overtaken \subseteq Seqs /\ grew \subseteq Streams

Init ==
    /\ log = <<>>
    /\ unpublished = [p \in Appenders |-> <<>>]
    /\ old \in {0, OldEvents} /\ emitted = 0 /\ node = <<>>
    /\ finished = (old > 0) /\ used = {} /\ lock = Free
    /\ at = [s \in Streams |-> "off"]
    /\ connects = [s \in Streams |-> 0]
    /\ subscribed = [s \in Streams |-> FALSE]
    /\ queue = [s \in Streams |-> <<>>]
    /\ batch = [s \in Streams |-> <<>>]
    /\ cursor = [s \in Streams |-> 0]
    /\ frames = [s \in Streams |-> <<>>]
    /\ poll = [at |-> "idle", since |-> 0, complete |-> FALSE]
    /\ atFinish = old /\ overtaken = {} /\ grew = {}

-----------------------------------------------------------------------------
(* Appending: event_log.append_many *)

\* One transaction takes the next contiguous seqs; publishing comes after it.
Commit(who, events) ==
    /\ unpublished[who] = <<>>
    /\ log' = log \o events
    /\ unpublished' = [unpublished EXCEPT ![who] =
                          [i \in DOMAIN events |-> Len(log) + i]]
    /\ grew' = grew \cup {s \in Streams : at[s] = "checking"}
    /\ UNCHANGED <<overtaken, lock, streamVars, busVars, poll>>

\* The loop is not inside an append of the run.
LoopFree == unpublished["run"] = <<>>

Pending == UNION {ToSet(unpublished[p]) : p \in Appenders}

\* event_bus.publish of one event: a full queue loses its subscription.
Publish(who) ==
    /\ unpublished[who] # <<>>
    /\ LET n == Head(unpublished[who])
           full == {s \in Streams : subscribed[s] /\ Len(queue[s]) >= QueueMax}
       IN  /\ queue' = [s \in Streams |->
                          IF subscribed[s] /\ s \notin full
                          THEN Append(queue[s], n) ELSE queue[s]]
           /\ subscribed' = [s \in Streams |-> subscribed[s] /\ s \notin full]
           /\ overtaken' = overtaken \cup {m \in Pending : m < n}
    /\ unpublished' = [unpublished EXCEPT ![who] = Tail(@)]
    /\ UNCHANGED <<log, grew, runVars, lock, streamVars, poll>>

\* Mutant of EmitLive: the stamp is not kept with the event.
EmitUnstamped ==
    /\ ~finished /\ LoopFree /\ emitted < MaxRun
    /\ emitted' = emitted + 1
    /\ node' = Append(node, emitted')
    /\ Commit("run", <<<<"run", emitted'>>>>)
    /\ UNCHANGED <<old, finished, used, atFinish>>

\* The run emits an event live: it is stamped with its seq, which keeps it
\* out of what the end of its node appends.
EmitLive ==
    /\ ~finished /\ LoopFree /\ emitted < MaxRun
    /\ emitted' = emitted + 1
    /\ Commit("run", <<<<"run", emitted'>>>>)
    /\ UNCHANGED <<old, node, finished, used, atFinish>>

\* A node only adds the event to its result.
EmitInState ==
    /\ ~finished /\ LoopFree /\ emitted < MaxRun
    /\ emitted' = emitted + 1
    /\ node' = Append(node, emitted')
    /\ UNCHANGED <<log, pubVars, grew, old, finished, used, atFinish, lock,
                   streamVars, busVars, poll>>

\* _persist_progress: one append for the events of the node without a seq.
NodeEnds ==
    /\ ~finished /\ LoopFree /\ node # <<>>
    /\ Commit("run", [i \in DOMAIN node |-> <<"run", node[i]>>])
    /\ node' = <<>>
    /\ UNCHANGED <<old, emitted, finished, used, atFinish>>

\* The terminal status is stored after the last append.  A node that raised
\* takes its unsent events with it.
RunFinishes ==
    /\ ~finished /\ LoopFree
    /\ finished' = TRUE
    /\ node' = <<>>
    /\ atFinish' = Len(log)
    /\ UNCHANGED <<log, pubVars, grew, old, emitted, used, lock, streamVars,
                   busVars, poll>>

\* state.emit_for: the append of a request's own event, in a worker thread.
ApiAppends(c) ==
    /\ old = 0 /\ c \notin used
    /\ used' = used \cup {c}
    /\ Commit(c, <<<<"api", c>>>>)
    /\ UNCHANGED <<old, emitted, node, finished, atFinish>>

-----------------------------------------------------------------------------
(* Backfilling a session that predates the table, under the session lock *)

\* One append per sprint session, here of one event.
Filling ==
    IF lock \in Streams THEN at[lock] = "filling" ELSE poll.at = "filling"
Filled == Len(log) >= old /\ unpublished["fill"] = <<>>

BackfillAppends ==
    /\ Filling /\ Len(log) < old
    /\ Commit("fill", <<<<"old", Len(log) + 1>>>>)
    /\ UNCHANGED runVars

-----------------------------------------------------------------------------
(* The stream: stream_console_events *)

\* event_log.read: the seqs above since, in order, at most a page.
PageEnd(since) == IF Len(log) - since < Page THEN Len(log) ELSE since + Page

Moves(s, step) == at' = [at EXCEPT ![s] = step]

Sends(s, n) ==
    /\ frames' = [frames EXCEPT ![s] = Append(@, n)]
    /\ cursor' = [cursor EXCEPT ![s] = n]

\* A client (re)connects with the last seq it received.
Connect(s) ==
    /\ LoopFree /\ at[s] = "off" /\ connects[s] < MaxConnects
    /\ connects' = [connects EXCEPT ![s] = @ + 1]
    /\ Moves(s, IF cursor[s] = 0 /\ log = <<>> THEN "waiting" ELSE "fresh")
    /\ UNCHANGED <<log, pubVars, grew, runVars, lock, busVars, batch, cursor,
                   frames, poll>>

\* The lock is taken and has_events asked again.
TakeLock(s) ==
    /\ LoopFree /\ at[s] = "waiting" /\ lock = Free
    /\ IF log = <<>> THEN lock' = s /\ Moves(s, "filling")
                     ELSE Moves(s, "fresh") /\ UNCHANGED lock
    /\ UNCHANGED <<log, pubVars, grew, runVars, connects, batch, cursor, frames,
                   busVars, poll>>

FillDone(s) ==
    /\ LoopFree /\ at[s] = "filling" /\ Filled
    /\ lock' = Free
    /\ Moves(s, "fresh")
    /\ UNCHANGED <<log, pubVars, grew, runVars, connects, batch, cursor, frames,
                   busVars, poll>>

\* The generator starts: it subscribes before it reads.
Subscribe(s) ==
    /\ LoopFree /\ at[s] = "fresh"
    /\ Moves(s, "replay")
    /\ subscribed' = [subscribed EXCEPT ![s] = TRUE]
    /\ queue' = [queue EXCEPT ![s] = <<>>]
    /\ UNCHANGED <<log, pubVars, grew, runVars, lock, connects, batch, cursor,
                   frames, poll>>

\* A batch of the replay, or none: then the stream goes live.
ReadBatch(s) ==
    /\ LoopFree /\ at[s] = "replay" /\ batch[s] = <<>>
    /\ IF cursor[s] < Len(log)
       THEN /\ batch' = [batch EXCEPT ![s] =
                  [i \in 1..(PageEnd(cursor[s]) - cursor[s]) |-> cursor[s] + i]]
            /\ UNCHANGED at
       ELSE Moves(s, "live") /\ UNCHANGED batch
    /\ UNCHANGED <<log, pubVars, grew, runVars, lock, connects, cursor, frames,
                   busVars, poll>>

Replay(s) ==
    /\ LoopFree /\ at[s] = "replay" /\ batch[s] # <<>>
    /\ Sends(s, Head(batch[s]))
    /\ batch' = [batch EXCEPT ![s] = Tail(@)]
    /\ UNCHANGED <<log, pubVars, grew, runVars, lock, at, connects, busVars,
                   poll>>

\* Mutant of Take: what the replay already sent is sent again.
TakeAll(s) ==
    /\ LoopFree /\ at[s] = "live" /\ queue[s] # <<>>
    /\ queue' = [queue EXCEPT ![s] = Tail(@)]
    /\ Sends(s, Head(queue[s]))
    /\ UNCHANGED <<log, pubVars, grew, runVars, lock, at, connects, batch,
                   subscribed, poll>>

\* An event off the queue: anything at or below the cursor is dropped.
Take(s) ==
    /\ LoopFree /\ at[s] = "live" /\ queue[s] # <<>>
    /\ queue' = [queue EXCEPT ![s] = Tail(@)]
    /\ IF Head(queue[s]) > cursor[s] THEN Sends(s, Head(queue[s]))
                                     ELSE UNCHANGED <<cursor, frames>>
    /\ UNCHANGED <<log, pubVars, grew, runVars, lock, at, connects, batch,
                   subscribed, poll>>

\* The heartbeat elapses and the tail is read.  It may elapse with an event
\* in the queue: a put from a worker thread does not wake the loop.
Heartbeat(s) ==
    /\ LoopFree /\ at[s] = "live" /\ cursor[s] >= Len(log)
    /\ Moves(s, "checking")
    /\ UNCHANGED <<log, pubVars, grew, runVars, lock, connects, batch, cursor,
                   frames, busVars, poll>>

\* Mutant of CheckComplete: the stream never looks at the run.
CheckNothing(s) ==
    /\ LoopFree /\ at[s] = "checking"
    /\ Moves(s, "live")
    /\ UNCHANGED <<log, pubVars, grew, runVars, lock, connects, batch, cursor,
                   frames, busVars, poll>>

\* _stream_is_complete, asked after the tail was read.
CheckComplete(s) ==
    /\ LoopFree /\ at[s] = "checking"
    /\ Moves(s, IF finished THEN "done" ELSE "live")
    /\ subscribed' = [subscribed EXCEPT ![s] = @ /\ ~finished]
    /\ grew' = IF ~finished THEN grew \ {s}
               ELSE IF Filling THEN grew \cup {s} ELSE grew
    /\ UNCHANGED <<log, pubVars, runVars, lock, connects, batch, cursor,
                   frames, queue, poll>>

\* The client goes away: the finally unsubscribes.
Disconnect(s) ==
    /\ LoopFree /\ at[s] \in Open \cup {"fresh"}
    /\ Moves(s, "off")
    /\ batch' = [batch EXCEPT ![s] = <<>>]
    /\ subscribed' = [subscribed EXCEPT ![s] = FALSE]
    /\ queue' = [queue EXCEPT ![s] = <<>>]
    /\ grew' = grew \ {s}
    /\ UNCHANGED <<log, pubVars, runVars, lock, connects, cursor, frames, poll>>

-----------------------------------------------------------------------------
(* The poll: get_console_events *)

\* Under the lock: the session is loaded, then has_events asked.
PollStarts ==
    /\ LoopFree /\ poll.at = "idle" /\ lock = Free
    /\ lock' = "poll"
    /\ poll' = [poll EXCEPT
                  !.at = IF poll.since = 0 /\ log = <<>>
                         THEN "filling" ELSE "reading",
                  !.complete = finished]
    /\ UNCHANGED <<log, pubVars, grew, runVars, streamVars, busVars>>

PollFilled ==
    /\ LoopFree /\ poll.at = "filling" /\ Filled
    /\ poll' = [poll EXCEPT !.at = "reading"]
    /\ UNCHANGED <<log, pubVars, grew, runVars, lock, streamVars, busVars>>

\* One page.  The client stops on an empty one that says complete.
PollReads ==
    /\ LoopFree /\ poll.at = "reading"
    /\ poll' = [poll EXCEPT !.since = PageEnd(poll.since),
                            !.at = IF /\ PageEnd(poll.since) = poll.since
                                      /\ poll.complete
                                   THEN "stopped" ELSE "idle"]
    /\ lock' = Free
    /\ UNCHANGED <<log, pubVars, grew, runVars, streamVars, busVars>>

-----------------------------------------------------------------------------

Run == EmitLive \/ EmitInState \/ NodeEnds \/ RunFinishes

Stream(s) ==
    \/ TakeLock(s) \/ FillDone(s) \/ Subscribe(s) \/ ReadBatch(s)
    \/ Replay(s) \/ Take(s) \/ Heartbeat(s) \/ CheckComplete(s)

Poll == PollStarts \/ PollFilled \/ PollReads

Next ==
    \/ Run \/ BackfillAppends
    \/ \E c \in Calls : ApiAppends(c)
    \/ \E p \in Appenders : Publish(p)
    \/ \E s \in Streams : Stream(s) \/ Connect(s) \/ Disconnect(s)
    \/ Poll

Spec == Init /\ [][Next]_vars

\* The loop runs ready coroutines, heartbeats elapse, worker threads end.
\* The run need not finish, no client has to connect or poll.
FairSpec ==
    /\ Spec
    /\ WF_vars(BackfillAppends) /\ WF_vars(PollFilled \/ PollReads)
    /\ \A p \in Appenders : WF_vars(Publish(p))
    /\ \A s \in Streams : WF_vars(Stream(s))

-----------------------------------------------------------------------------
(* What the timeline promises *)

\* An event is in the table once: neither the live emission and the end of
\* its node nor two clients backfilling the same old session append it twice.
OnceEach == \A i, j \in DOMAIN log : log[i] = log[j] => i = j

\* "Replays every event with seq greater than it, then continues live -- no
\* gap, no duplicate": over all its connections a client gets frames in seq
\* order, each once, and every event up to its cursor, except those that were
\* published after a later one.
NoGapNoDuplicate ==
    \A s \in Streams :
        /\ \A i, j \in DOMAIN frames[s] : i < j => frames[s][i] < frames[s][j]
        /\ 1..cursor[s] \subseteq ToSet(frames[s]) \cup overtaken

\* "A client polls until it gets an empty page while complete is true": one
\* that does has the whole timeline of the run.
PollSeesAll == poll.at = "stopped" => poll.since >= atFinish

\* "When the run reaches a terminal state and all events are delivered": done
\* comes after the last event of the run, unless the table grew between the
\* reading of the tail and of the status, or a backfill was still filling it.
DoneMeansAll ==
    \A s \in Streams :
        at[s] = "done" /\ s \notin grew =>
            1..atFinish \subseteq ToSet(frames[s]) \cup overtaken

\* "When the run reaches a terminal state the server sends done and closes":
\* a stream that has not lost its subscription ends, or its client leaves.
StreamEnds ==
    \A s \in Streams :
        at[s] \in Open /\ finished
            ~> at[s] \in {"done", "off"} \/ ~subscribed[s]

\* "A dropped notification only costs a reconnect-and-replay, never a lost
\* event": no client's cursor passes an event it was not sent.
NothingSkipped ==
    \A s \in Streams : 1..cursor[s] \subseteq ToSet(frames[s])
=============================================================================
