------------------------- MODULE EventStreamProofs -------------------------
(***************************************************************************)
(* The timeline for any number of streams and requests, any page and queue *)
(* size.                                                                   *)
(*                                                                         *)
(* What a stream has still to send is in three places: in the table above  *)
(* its cursor while it replays, in its queue once it is live, and, for     *)
(* what is committed and not yet published, in the hands of an appender.   *)
(* The invariant says that between them nothing is missing, except what a  *)
(* later event overtook between its commit and its publish.                *)
(***************************************************************************)
EXTENDS EventStream, FiniteSetTheorems, SequenceTheorems, TLAPS

\* What is in the table, and what the run has still to put there.
Stored == {<<"run", k>> : k \in {n \in 1..emitted :
                                   \A j \in DOMAIN node : node[j] # n}}
             \cup {<<"api", c>> : c \in used}

Timeline ==
    /\ \A i \in DOMAIN log : log[i] \in Stored \/ log[i] = <<"old", i>>
    /\ \A i \in DOMAIN node : node[i] \in 1..emitted
    /\ \A i, j \in DOMAIN node : node[i] = node[j] => i = j

\* Every event in the table is counted by the run, a request or the backfill.
Counts ==
    /\ old = 0 => Len(log) + Len(node) <= emitted + Cardinality(used)
    /\ old > 0 => Len(log) <= old

\* What is in a queue or about to be published is in the table; what is
\* published, or queued, behind a later event has been overtaken.
Bus ==
    /\ \A p \in Appenders : \A i \in DOMAIN unpublished[p] :
          unpublished[p][i] <= Len(log)
    /\ \A s \in Streams : \A i \in DOMAIN queue[s] :
          /\ queue[s][i] <= Len(log)
          /\ \A m \in Pending : m < queue[s][i] => m \in overtaken
          /\ \A j \in DOMAIN queue[s] :
                i < j /\ queue[s][j] < queue[s][i] => queue[s][j] \in overtaken

\* A replay continues at the cursor.
Replays ==
    \A s \in Streams :
        /\ at[s] # "replay" => batch[s] = <<>>
        /\ \A i \in DOMAIN batch[s] : batch[s][i] = cursor[s] + i
        /\ cursor[s] + Len(batch[s]) <= Len(log)

\* What a live stream has not sent is in its queue or has still to be
\* published; without its subscription that holds up to what is queued.
Covered ==
    \A s \in Streams : at[s] \in {"live", "checking"} =>
        /\ \A i \in DOMAIN queue[s] : \A m \in Seqs :
              cursor[s] < m /\ m < queue[s][i] =>
                  m \in ToSet(queue[s]) \cup overtaken
        /\ subscribed[s] => \A m \in Seqs :
              cursor[s] < m /\ m <= Len(log) =>
                  m \in ToSet(queue[s]) \cup Pending
\* What the client has is in order and ends at the cursor.
Sent ==
    \A s \in Streams :
        /\ \A i \in DOMAIN frames[s] : frames[s][i] <= cursor[s]
        /\ \A i, j \in DOMAIN frames[s] : i < j => frames[s][i] < frames[s][j]
        /\ 1..cursor[s] \subseteq ToSet(frames[s]) \cup overtaken

\* A legacy timeline is empty, being filled under the lock, or complete; who
\* reads it has seen it begun.
Locks ==
    /\ \A s \in Streams : at[s] = "filling" <=> lock = s
    /\ lock = "poll" <=> poll.at \in {"filling", "reading"}
    /\ poll.since <= Len(log)
    /\ old > 0 =>
          /\ Filling \/ log = <<>> \/ Len(log) = old
          /\ poll.at = "reading" => log # <<>>
          /\ \A s \in Streams : at[s] \in Open \cup {"fresh"} => log # <<>>

\* Once the run is over, who is told so has its whole timeline.
Ending ==
    /\ old > 0 => finished /\ atFinish = old
    /\ old = 0 /\ finished => atFinish <= Len(log)
    /\ ~finished => atFinish = 0
    /\ finished => node = <<>>
    /\ poll.complete => finished
    /\ poll.at = "stopped" => poll.complete /\ poll.since >= atFinish
    /\ \A s \in Streams :
          /\ at[s] = "checking" /\ s \notin grew => cursor[s] >= Len(log)
          /\ at[s] = "done" => finished
          /\ at[s] = "done" /\ s \notin grew => cursor[s] >= atFinish

Inv == /\ TypeOK /\ Timeline /\ OnceEach /\ Counts /\ Bus /\ Replays /\ Covered
       /\ Sent /\ Locks /\ Ending

Entry == {"run", "old", "api"} \X (Nat \cup Calls)

Appending ==
    \/ EmitLive \/ NodeEnds \/ BackfillAppends
    \/ \E c \in Calls : ApiAppends(c)

-----------------------------------------------------------------------------
(* The helpers *)

\* The bounds are numbers, and a request that appends is counted once.
LEMMA Numbers ==
    /\ MaxRun \in Nat /\ OldEvents \in Nat /\ Page \in Nat /\ Page > 0
    /\ QueueMax \in Nat /\ QueueMax > 0 /\ MaxConnects \in Nat
    /\ Cardinality(Calls) \in Nat
    /\ \A u \in SUBSET Calls :
          /\ Cardinality(u) \in 0..Cardinality(Calls)
          /\ \A c \in Calls \ u : Cardinality(u \cup {c}) = Cardinality(u) + 1
<1>1. Cardinality(Calls) \in Nat
  BY BoundsAssumption, FS_CardinalityType
<1>2. ASSUME NEW u \in SUBSET Calls
      PROVE  /\ Cardinality(u) \in 0..Cardinality(Calls)
             /\ \A c \in Calls \ u :
                   Cardinality(u \cup {c}) = Cardinality(u) + 1
  <2>1. IsFiniteSet(u) /\ Cardinality(u) <= Cardinality(Calls)
    BY BoundsAssumption, FS_Subset
  <2>2. Cardinality(u) \in Nat
    BY <2>1, FS_CardinalityType
  <2> QED
    BY <1>1, <2>1, <2>2, FS_AddElement
<1> QED
  BY <1>1, <1>2, BoundsAssumption

\* The numbers of the table's events are numbers of the model.
LEMMA Room ==
    ASSUME NEW l \in Nat, NEW e \in 0..MaxRun, NEW u \in SUBSET Calls,
           NEW o \in {0, OldEvents}, o = 0 => l <= e + Cardinality(u),
           o > 0 => l <= o
    PROVE  1..l \subseteq Seqs
BY Numbers DEF Seqs

\* The lock's holders cannot be confused.
LEMMA Parties ==
    /\ "run" \in Appenders /\ "fill" \in Appenders /\ Calls \subseteq Appenders
    /\ Free \notin Streams /\ "poll" \notin Streams /\ Free # "poll"
BY PartiesAssumption DEF Appenders, Free

\* The waiting seqs, one by one.
LEMMA PendingIs ==
    /\ \A m : m \in Pending <=>
          \E p \in Appenders : \E i \in DOMAIN unpublished[p] :
             unpublished[p][i] = m
    /\ \A m : m \in Pending' <=>
          \E p \in Appenders : \E i \in DOMAIN unpublished'[p] :
             unpublished'[p][i] = m
BY DEF Pending, ToSet

\* What an append does to the table and to the bus.
LEMMA CommitMakes ==
    ASSUME TypeOK, NEW who \in Appenders, NEW events \in Seq(Entry),
           Commit(who, events)
    PROVE  /\ log' \in Seq(Entry) /\ Len(log') = Len(log) + Len(events)
           /\ \A i \in DOMAIN log : log'[i] = log[i]
           /\ \A i \in DOMAIN log' : i \notin DOMAIN log =>
                 i - Len(log) \in DOMAIN events
                 /\ log'[i] = events[i - Len(log)]
           /\ DOMAIN unpublished' = Appenders
           /\ \A p \in Appenders \ {who} : unpublished'[p] = unpublished[p]
           /\ unpublished[who] = <<>>
           /\ DOMAIN unpublished'[who] = 1..Len(events)
           /\ \A i \in 1..Len(events) : unpublished'[who][i] = Len(log) + i
           /\ UNCHANGED <<overtaken, lock, streamVars, busVars, poll>>
           /\ grew' = grew \cup {s \in Streams : at[s] = "checking"}
<1>1. log \in Seq(Entry) /\ unpublished \in [Appenders -> Seq(Seqs)]
  BY DEF TypeOK, Entry
<1>2. log' = log \o events
  BY DEF Commit
<1>3. /\ log' \in Seq(Entry) /\ Len(log') = Len(log) + Len(events)
      /\ \A i \in DOMAIN log : log'[i] = log[i]
      /\ \A i \in DOMAIN log' : i \notin DOMAIN log =>
            i - Len(log) \in DOMAIN events
            /\ log'[i] = events[i - Len(log)]
  BY <1>1, <1>2
<1>4. unpublished' = [unpublished EXCEPT ![who] =
                         [i \in DOMAIN events |-> Len(log) + i]]
  BY DEF Commit
<1>5. DOMAIN events = 1..Len(events)
  OBVIOUS
<1>6. /\ DOMAIN unpublished' = Appenders
      /\ \A p \in Appenders \ {who} : unpublished'[p] = unpublished[p]
      /\ DOMAIN unpublished'[who] = 1..Len(events)
      /\ \A i \in 1..Len(events) : unpublished'[who][i] = Len(log) + i
  BY <1>1, <1>4, <1>5
<1> QED
  BY <1>3, <1>6 DEF Commit

\* Every append is one transaction of one appender.
LEMMA Appended ==
    ASSUME TypeOK, Appending
    PROVE  \E who \in Appenders, events \in Seq(Entry) :
               Commit(who, events) /\ Len(events) > 0
<1>1. CASE EmitLive
  <2>1. <<<<"run", emitted'>>>> \in Seq(Entry)
    BY <1>1 DEF EmitLive, TypeOK, Entry
  <2>2. Len(<<<<"run", emitted'>>>>) > 0
    OBVIOUS
  <2> QED
    BY <1>1, <2>1, <2>2, Parties DEF EmitLive
<1>2. CASE NodeEnds
  <2> DEFINE events == [i \in DOMAIN node |-> <<"run", node[i]>>]
  <2>1. node \in Seq(Nat) /\ node # <<>>
    BY <1>2, Numbers DEF NodeEnds, TypeOK
  <2>2. DOMAIN node = 1..Len(node) /\ Len(node) \in Nat /\ Len(node) > 0
    BY <2>1
  <2>3. \A i \in 1..Len(node) : <<"run", node[i]>> \in Entry
    BY <2>1 DEF Entry
  <2>4. events \in Seq(Entry) /\ Len(events) = Len(node)
    BY <2>2, <2>3
  <2> HIDE DEF events
  <2>5. Commit("run", events)
    BY <1>2 DEF NodeEnds, events
  <2> QED
    BY <2>2, <2>4, <2>5, Parties
<1>3. CASE BackfillAppends
  <2>1. <<<<"old", Len(log) + 1>>>> \in Seq(Entry)
    BY DEF TypeOK, Entry
  <2>2. Len(<<<<"old", Len(log) + 1>>>>) > 0
    OBVIOUS
  <2> QED
    BY <1>3, <2>1, <2>2, Parties DEF BackfillAppends
<1>4. ASSUME NEW c \in Calls, ApiAppends(c)
      PROVE  \E who \in Appenders, events \in Seq(Entry) :
                 Commit(who, events) /\ Len(events) > 0
  <2>1. <<<<"api", c>>>> \in Seq(Entry)
    BY DEF Entry
  <2>2. Len(<<<<"api", c>>>>) > 0
    OBVIOUS
  <2> QED
    BY <1>4, <2>1, <2>2, Parties DEF ApiAppends
<1> QED
  BY <1>1, <1>2, <1>3, <1>4 DEF Appending

\* A client's stream moves without touching the table or the run.
Streaming ==
    \E s \in Streams : Stream(s) \/ Connect(s) \/ Disconnect(s)

\* The steps, and which of them leave the table and the run alone.
LEMMA Steps ==
    ASSUME [Next]_vars
    PROVE  /\ \/ Appending \/ EmitInState \/ RunFinishes
              \/ \E p \in Appenders : Publish(p)
              \/ Streaming \/ Poll \/ UNCHANGED vars
           /\ Streaming \/ Poll \/ UNCHANGED vars =>
                 UNCHANGED <<log, pubVars, runVars>>
           /\ \A p \in Appenders : Publish(p) => UNCHANGED <<log, runVars>>
<1>1. \/ Appending \/ EmitInState \/ RunFinishes
      \/ \E p \in Appenders : Publish(p)
      \/ Streaming \/ Poll \/ UNCHANGED vars
  BY DEF Next, Appending, Streaming, Run
<1>2. Streaming => UNCHANGED <<log, pubVars, runVars>>
  BY DEF Streaming, Stream, TakeLock, FillDone, Subscribe, ReadBatch, Replay,
         Take, Heartbeat, CheckComplete, Connect, Disconnect
<1>3. Poll => UNCHANGED <<log, pubVars, runVars>>
  BY DEF Poll, PollStarts, PollFilled, PollReads
<1>4. UNCHANGED vars => UNCHANGED <<log, pubVars, runVars>>
  BY DEF vars
<1>5. \A p \in Appenders : Publish(p) => UNCHANGED <<log, runVars>>
  BY DEF Publish
<1> QED
  BY <1>1, <1>2, <1>3, <1>4, <1>5

-----------------------------------------------------------------------------
(* The table *)

\* An empty timeline, new or still to be backfilled, satisfies the invariant.
LEMMA InitInv == Init => Inv
<1> SUFFICES ASSUME Init PROVE Inv
  OBVIOUS
<1>1. Cardinality({}) = 0
  BY FS_EmptySet
<1>2. Pending = {}
  BY PendingIs DEF Init
<1>3. 1..OldEvents \subseteq Seqs
  BY Numbers DEF Seqs
<1>4. TypeOK
  <2>1. old \in {0} \cup Seqs
    BY <1>3, Numbers DEF Init
  <2> QED
    BY <2>1, Numbers DEF Init, TypeOK
<1>5. Timeline /\ OnceEach
  BY DEF Init, Timeline, OnceEach
<1>6. Counts
  BY <1>1, Numbers DEF Init, Counts
<1>7. Bus /\ Replays /\ Covered
  BY <1>2, Numbers DEF Init, Bus, Replays, Covered
<1>8. Sent
  BY DEF Init, Sent
<1>9. Locks
  BY Parties, Numbers DEF Init, Locks, Open
<1>10. Ending
  <2>1. old \in Nat /\ (finished <=> old > 0) /\ (~finished => old = 0)
    <3>1. old \in Nat
      BY Numbers DEF Init
    <3>2. finished <=> old > 0
      BY Zenon DEF Init
    <3> QED
      BY <3>1, <3>2
  <2>2. poll.at = "idle" /\ poll.complete = FALSE
    BY DEF Init
  <2>3. \A s \in Streams : at[s] = "off"
    BY DEF Init
  <2> QED
    BY <2>1, <2>2, <2>3 DEF Init, Ending
<1> QED
  BY <1>4, <1>5, <1>6, <1>7, <1>8, <1>9, <1>10 DEF Inv

\* New events that are not in the table keep it free of repetitions.
LEMMA StillOnce ==
    ASSUME TypeOK, OnceEach, NEW who \in Appenders, NEW events \in Seq(Entry),
           Commit(who, events),
           \A i, j \in DOMAIN events : events[i] = events[j] => i = j,
           \A i \in DOMAIN log : \A j \in DOMAIN events : log[i] # events[j]
    PROVE  OnceEach'
<1>1. log \in Seq(Entry)
  BY DEF TypeOK, Entry
<1>2. SUFFICES ASSUME NEW i \in DOMAIN log', NEW j \in DOMAIN log',
                      log'[i] = log'[j]
               PROVE  i = j
  BY DEF OnceEach
<1>3. log' \in Seq(Entry)
  BY CommitMakes
<1>4. i \in Nat /\ j \in Nat /\ Len(log) \in Nat
  BY <1>1, <1>3
<1>5. CASE i \in DOMAIN log /\ j \in DOMAIN log
  <2>1. log[i] = log[j]
    BY <1>2, <1>5, CommitMakes
  <2> QED
    BY <1>5, <2>1 DEF OnceEach
<1>6. CASE i \in DOMAIN log /\ j \notin DOMAIN log
  <2>1. log[i] = events[j - Len(log)] /\ j - Len(log) \in DOMAIN events
    BY <1>2, <1>6, CommitMakes
  <2> QED
    BY <1>6, <2>1
<1>7. CASE i \notin DOMAIN log /\ j \in DOMAIN log
  <2>1. log[j] = events[i - Len(log)] /\ i - Len(log) \in DOMAIN events
    BY <1>2, <1>7, CommitMakes
  <2> QED
    BY <1>7, <2>1
<1>8. CASE i \notin DOMAIN log /\ j \notin DOMAIN log
  <2>1. /\ events[i - Len(log)] = events[j - Len(log)]
        /\ i - Len(log) \in DOMAIN events /\ j - Len(log) \in DOMAIN events
    BY <1>2, <1>8, CommitMakes
  <2>2. i - Len(log) = j - Len(log)
    BY <2>1
  <2> QED
    BY <1>4, <2>2
<1> QED
  BY <1>5, <1>6, <1>7, <1>8

\* An appender only adds what the table does not hold yet.
LEMMA TimelineStep == Inv /\ [Next]_vars => Timeline' /\ OnceEach'
<1> SUFFICES ASSUME Inv, [Next]_vars PROVE Timeline' /\ OnceEach'
  OBVIOUS
<1> USE DEF Inv
<1>1. /\ log \in Seq(Entry) /\ emitted \in Nat /\ node \in Seq(1..MaxRun)
      /\ DOMAIN node = 1..Len(node) /\ Len(node) \in Nat /\ Len(log) \in Nat
      /\ DOMAIN log = 1..Len(log)
  BY Numbers DEF TypeOK, Entry
<1>2. CASE EmitLive
  <2> DEFINE events == <<<<"run", emitted'>>>>
  <2>1. /\ emitted' = emitted + 1 /\ Commit("run", events)
        /\ UNCHANGED <<node, used>>
    BY <1>2 DEF EmitLive
  <2>2. /\ events \in Seq(Entry) /\ DOMAIN events = {1}
        /\ events[1] = <<"run", emitted + 1>>
    BY <1>1, <2>1 DEF Entry
  <2> HIDE DEF events
  <2>3. \A i \in DOMAIN log : log[i] # <<"run", emitted + 1>>
    BY <1>1 DEF Timeline, Stored
  <2>4. OnceEach'
    BY <2>1, <2>2, <2>3, StillOnce, Parties
  <2>5. Stored \subseteq Stored' /\ <<"run", emitted + 1>> \in Stored'
    <3>1. 1..emitted \subseteq 1..emitted' /\ emitted + 1 \in 1..emitted'
      BY <1>1, <2>1
    <3>2. \A j \in DOMAIN node : node[j] # emitted + 1
      BY <1>1 DEF Timeline
    <3> QED
      BY <2>1, <3>1, <3>2 DEF Stored
  <2>6. \A i \in DOMAIN log' : log'[i] \in Stored' \/ log'[i] = <<"old", i>>
    <3>1. ASSUME NEW i \in DOMAIN log', i \notin DOMAIN log
          PROVE  log'[i] = <<"run", emitted + 1>>
      <4>1. i - Len(log) \in DOMAIN events /\ log'[i] = events[i - Len(log)]
        BY <2>1, <2>2, <3>1, CommitMakes, Parties
      <4> QED
        BY <2>2, <4>1
    <3>2. \A i \in DOMAIN log : log'[i] = log[i]
      BY <2>1, <2>2, CommitMakes, Parties
    <3> QED
      BY <2>5, <3>1, <3>2 DEF Timeline
  <2> QED
    BY <1>1, <2>1, <2>4, <2>6 DEF Timeline
<1>3. CASE NodeEnds
  <2> DEFINE events == [i \in DOMAIN node |-> <<"run", node[i]>>]
  <2>1. /\ node' = <<>> /\ Commit("run", events) /\ UNCHANGED <<emitted, used>>
    BY <1>3 DEF NodeEnds
  <2>2. \A i \in 1..Len(node) : <<"run", node[i]>> \in Entry
    <3>1. \A i \in 1..Len(node) : node[i] \in Nat
      BY <1>1, Numbers
    <3> QED
      BY <3>1 DEF Entry
  <2>3. /\ events \in Seq(Entry) /\ DOMAIN events = 1..Len(node)
        /\ \A i \in 1..Len(node) : events[i] = <<"run", node[i]>>
    BY <1>1, <2>2
  <2> HIDE DEF events
  <2>4. \A i \in DOMAIN log : \A j \in 1..Len(node) :
           log[i] # <<"run", node[j]>>
    <3>1. \A j \in 1..Len(node) : <<"run", node[j]>> \notin Stored
      BY <1>1 DEF Stored
    <3>2. \A i \in DOMAIN log : log[i] \in Stored \/ log[i] = <<"old", i>>
      BY <1>1 DEF Timeline
    <3> QED
      BY <3>1, <3>2
  <2>5. \A i, j \in 1..Len(node) : events[i] = events[j] => i = j
    <3>1. \A i, j \in 1..Len(node) :
             <<"run", node[i]>> = <<"run", node[j]>> => node[i] = node[j]
      OBVIOUS
    <3>2. \A i, j \in 1..Len(node) : node[i] = node[j] => i = j
      BY <1>1 DEF Timeline
    <3> QED
      BY <2>3, <3>1, <3>2
  <2>6. OnceEach'
    <3>1. \A i \in DOMAIN log : \A j \in DOMAIN events : log[i] # events[j]
      BY <2>3, <2>4
    <3>2. \A i, j \in DOMAIN events : events[i] = events[j] => i = j
      BY <2>3, <2>5
    <3> QED
      BY <2>1, <2>3, <3>1, <3>2, StillOnce, Parties
  <2>7. Stored \subseteq Stored'
        /\ \A j \in 1..Len(node) : <<"run", node[j]>> \in Stored'
    <3>1. \A j \in 1..Len(node) : node[j] \in 1..emitted
      BY <1>1 DEF Timeline
    <3>2. DOMAIN node' = {}
      BY <2>1
    <3> QED
      BY <2>1, <3>1, <3>2 DEF Stored
  <2>8. \A i \in DOMAIN log' : log'[i] \in Stored' \/ log'[i] = <<"old", i>>
    <3>1. ASSUME NEW i \in DOMAIN log', i \notin DOMAIN log
          PROVE  log'[i] \in Stored'
      <4>1. i - Len(log) \in DOMAIN events /\ log'[i] = events[i - Len(log)]
        BY <2>1, <2>3, <3>1, CommitMakes, Parties
      <4> QED
        BY <2>3, <2>7, <4>1
    <3>2. \A i \in DOMAIN log : log'[i] = log[i]
      BY <2>1, <2>3, CommitMakes, Parties
    <3> QED
      BY <2>7, <3>1, <3>2 DEF Timeline
  <2> QED
    BY <2>1, <2>6, <2>8 DEF Timeline
<1>4. CASE BackfillAppends
  <2> DEFINE events == <<<<"old", Len(log) + 1>>>>
  <2>1. Commit("fill", events) /\ UNCHANGED <<node, used, emitted>>
    BY <1>4 DEF BackfillAppends, runVars
  <2>2. /\ events \in Seq(Entry) /\ DOMAIN events = {1} /\ Len(events) = 1
        /\ events[1] = <<"old", Len(log) + 1>>
    BY <1>1 DEF Entry
  <2> HIDE DEF events
  <2>3. \A i \in DOMAIN log : log[i] # <<"old", Len(log) + 1>>
    BY <1>1 DEF Timeline, Stored
  <2>4. OnceEach'
    BY <2>1, <2>2, <2>3, StillOnce, Parties
  <2>5. \A i \in DOMAIN log' : log'[i] \in Stored' \/ log'[i] = <<"old", i>>
    <3>1. ASSUME NEW i \in DOMAIN log', i \notin DOMAIN log
          PROVE  log'[i] = <<"old", i>>
      <4>1. /\ i - Len(log) \in DOMAIN events /\ log'[i] = events[i - Len(log)]
            /\ log' \in Seq(Entry)
        BY <2>1, <2>2, <3>1, CommitMakes, Parties
      <4>2. i \in Nat /\ i = Len(log) + 1
        BY <1>1, <2>2, <4>1
      <4> QED
        BY <2>2, <4>1, <4>2
    <3>2. \A i \in DOMAIN log : log'[i] = log[i]
      BY <2>1, <2>2, CommitMakes, Parties
    <3>3. Stored' = Stored
      BY <2>1 DEF Stored
    <3> QED
      BY <3>1, <3>2, <3>3 DEF Timeline
  <2> QED
    BY <2>1, <2>4, <2>5 DEF Timeline
<1>5. ASSUME NEW c \in Calls, ApiAppends(c)
      PROVE  Timeline' /\ OnceEach'
  <2> DEFINE events == <<<<"api", c>>>>
  <2>1. /\ Commit(c, events) /\ UNCHANGED <<node, emitted>>
        /\ c \notin used /\ used' = used \cup {c}
    BY <1>5 DEF ApiAppends
  <2>2. /\ events \in Seq(Entry) /\ DOMAIN events = {1}
        /\ events[1] = <<"api", c>>
    BY DEF Entry
  <2> HIDE DEF events
  <2>3. \A i \in DOMAIN log : log[i] # <<"api", c>>
    BY <2>1 DEF Timeline, Stored
  <2>4. OnceEach'
    BY <2>1, <2>2, <2>3, StillOnce, Parties
  <2>5. \A i \in DOMAIN log' : log'[i] \in Stored' \/ log'[i] = <<"old", i>>
    <3>1. ASSUME NEW i \in DOMAIN log', i \notin DOMAIN log
          PROVE  log'[i] = <<"api", c>>
      <4>1. i - Len(log) \in DOMAIN events /\ log'[i] = events[i - Len(log)]
        BY <2>1, <2>2, <3>1, CommitMakes, Parties
      <4> QED
        BY <2>2, <4>1
    <3>2. \A i \in DOMAIN log : log'[i] = log[i]
      BY <2>1, <2>2, CommitMakes, Parties
    <3>3. Stored \subseteq Stored' /\ <<"api", c>> \in Stored'
      BY <2>1 DEF Stored
    <3> QED
      BY <3>1, <3>2, <3>3 DEF Timeline
  <2> QED
    BY <2>1, <2>4, <2>5 DEF Timeline
<1>6. CASE EmitInState
  <2>1. /\ emitted' = emitted + 1 /\ node' = Append(node, emitted + 1)
        /\ UNCHANGED <<log, used>>
    BY <1>6 DEF EmitInState
  <2>2. /\ DOMAIN node' = 1..(Len(node) + 1)
        /\ \A i \in DOMAIN node' :
              node'[i] = IF i = Len(node) + 1 THEN emitted + 1 ELSE node[i]
        /\ \A i \in DOMAIN node' : i = Len(node) + 1 \/ i \in DOMAIN node
    BY <1>1, <2>1
  <2>3. \A i \in DOMAIN node : node[i] \in 1..emitted
    BY DEF Timeline
  <2>4. \A i \in DOMAIN node' : node'[i] \in 1..emitted'
    BY <1>1, <2>1, <2>2, <2>3
  <2>5. \A i, j \in DOMAIN node' : node'[i] = node'[j] => i = j
    BY <1>1, <2>2, <2>3 DEF Timeline
  <2>6. Stored \subseteq Stored'
    <3>1. \A n \in 1..emitted : n \in 1..emitted' /\ n # emitted + 1
      BY <1>1, <2>1
    <3> QED
      BY <2>1, <2>2, <3>1 DEF Stored
  <2> QED
    BY <2>1, <2>4, <2>5, <2>6 DEF Timeline, OnceEach
<1>7. CASE RunFinishes
  <2>1. node' = <<>> /\ UNCHANGED <<log, emitted, used>>
    BY <1>7 DEF RunFinishes
  <2>2. DOMAIN node' = {}
    BY <2>1
  <2>3. Stored \subseteq Stored'
    BY <2>1, <2>2 DEF Stored
  <2> QED
    BY <2>1, <2>2, <2>3 DEF Timeline, OnceEach
<1>8. CASE UNCHANGED <<log, runVars>>
  BY <1>8 DEF runVars, Timeline, OnceEach, Stored
<1> QED
  BY <1>2, <1>3, <1>4, <1>5, <1>6, <1>7, <1>8, Steps DEF Appending

\* Whoever appends counts what it appends.
LEMMA CountsStep == Inv /\ [Next]_vars => Counts'
<1> SUFFICES ASSUME Inv, [Next]_vars PROVE Counts'
  OBVIOUS
<1> USE DEF Inv
<1>1. /\ log \in Seq(Entry) /\ emitted \in Nat /\ node \in Seq(1..MaxRun)
      /\ DOMAIN node = 1..Len(node) /\ Len(node) \in Nat /\ Len(log) \in Nat
      /\ old \in Nat /\ used \in SUBSET Calls /\ Cardinality(used) \in Nat
  BY Numbers DEF TypeOK, Entry
<1>2. CASE EmitLive
  <2> DEFINE events == <<<<"run", emitted'>>>>
  <2>1. /\ emitted' = emitted + 1 /\ Commit("run", events)
        /\ UNCHANGED <<node, used, old>> /\ old = 0
    BY <1>1, <1>2 DEF EmitLive, Ending
  <2>2. events \in Seq(Entry) /\ Len(events) = 1
    BY <1>1, <2>1 DEF Entry
  <2>3. Len(log') = Len(log) + 1
    BY <2>1, <2>2, CommitMakes, Parties
  <2> QED
    BY <1>1, <2>1, <2>3 DEF Counts
<1>3. CASE NodeEnds
  <2> DEFINE events == [i \in DOMAIN node |-> <<"run", node[i]>>]
  <2>1. /\ node' = <<>> /\ Commit("run", events)
        /\ UNCHANGED <<emitted, used, old>> /\ old = 0
    BY <1>1, <1>3 DEF NodeEnds, Ending
  <2>2. \A i \in 1..Len(node) : <<"run", node[i]>> \in Entry
    <3>1. \A i \in 1..Len(node) : node[i] \in Nat
      BY <1>1, Numbers
    <3> QED
      BY <3>1 DEF Entry
  <2>3. events \in Seq(Entry) /\ Len(events) = Len(node)
    BY <1>1, <2>2
  <2> HIDE DEF events
  <2>4. Len(log') = Len(log) + Len(node) /\ Len(node') = 0
    BY <2>1, <2>3, CommitMakes, Parties
  <2> QED
    BY <1>1, <2>1, <2>4 DEF Counts
<1>4. CASE BackfillAppends
  <2> DEFINE events == <<<<"old", Len(log) + 1>>>>
  <2>1. Commit("fill", events) /\ UNCHANGED old /\ Len(log) < old
    BY <1>4 DEF BackfillAppends, runVars
  <2>2. events \in Seq(Entry) /\ Len(events) = 1
    BY <1>1 DEF Entry
  <2>3. Len(log') = Len(log) + 1
    BY <2>1, <2>2, CommitMakes, Parties
  <2> QED
    BY <1>1, <2>1, <2>3 DEF Counts
<1>5. ASSUME NEW c \in Calls, ApiAppends(c)
      PROVE  Counts'
  <2> DEFINE events == <<<<"api", c>>>>
  <2>1. /\ Commit(c, events) /\ UNCHANGED <<node, emitted, old>> /\ old = 0
        /\ c \notin used /\ used' = used \cup {c}
    BY <1>5 DEF ApiAppends
  <2>2. events \in Seq(Entry) /\ Len(events) = 1
    BY DEF Entry
  <2>3. Len(log') = Len(log) + 1
    BY <2>1, <2>2, CommitMakes, Parties
  <2>4. Cardinality(used') = Cardinality(used) + 1
    BY <1>1, <2>1, Numbers
  <2> QED
    BY <1>1, <2>1, <2>3, <2>4 DEF Counts
<1>6. CASE EmitInState
  <2>1. /\ emitted' = emitted + 1 /\ node' = Append(node, emitted + 1)
        /\ UNCHANGED <<log, used, old>>
    BY <1>6 DEF EmitInState
  <2>2. Len(node') = Len(node) + 1
    BY <1>1, <2>1
  <2> QED
    BY <1>1, <2>1, <2>2 DEF Counts
<1>7. CASE RunFinishes
  <2>1. node' = <<>> /\ UNCHANGED <<log, emitted, used, old>>
    BY <1>7 DEF RunFinishes
  <2>2. Len(node') = 0
    BY <2>1
  <2> QED
    BY <1>1, <2>1, <2>2 DEF Counts
<1>8. CASE UNCHANGED <<log, runVars>>
  BY <1>8 DEF runVars, Counts
<1> QED
  BY <1>2, <1>3, <1>4, <1>5, <1>6, <1>7, <1>8, Steps DEF Appending

\* The run's own variables keep their types.
LEMMA RunType ==
    Inv /\ [Next]_vars =>
        /\ log' \in Seq(Entry) /\ 1..Len(log') \subseteq Seqs
        /\ Len(log) <= Len(log')
        /\ old' = old /\ emitted' \in 0..MaxRun /\ node' \in Seq(1..MaxRun)
        /\ finished' \in BOOLEAN /\ used' \subseteq Calls
        /\ atFinish' \in {0} \cup Seqs
<1> SUFFICES ASSUME Inv, [Next]_vars
             PROVE  /\ log' \in Seq(Entry) /\ 1..Len(log') \subseteq Seqs
                    /\ Len(log) <= Len(log')
                    /\ old' = old /\ emitted' \in 0..MaxRun
                    /\ node' \in Seq(1..MaxRun)
                    /\ finished' \in BOOLEAN /\ used' \subseteq Calls
                    /\ atFinish' \in {0} \cup Seqs
  OBVIOUS
<1>1. /\ log \in Seq(Entry) /\ emitted \in 0..MaxRun /\ node \in Seq(1..MaxRun)
      /\ old \in {0, OldEvents} /\ used \in SUBSET Calls /\ Len(log) \in Nat
      /\ finished \in BOOLEAN /\ atFinish \in {0} \cup Seqs
  BY DEF Inv, TypeOK, Entry
<1>2. log' \in Seq(Entry) /\ Len(log) <= Len(log')
  <2>1. CASE Appending
    <3>1. PICK who \in Appenders, events \in Seq(Entry) :
             Commit(who, events) /\ Len(events) > 0
      BY <2>1, Appended DEF Inv
    <3>2. log' \in Seq(Entry) /\ Len(log') = Len(log) + Len(events)
      BY <3>1, CommitMakes DEF Inv
    <3> QED
      BY <1>1, <3>1, <3>2
  <2>2. CASE UNCHANGED log
    BY <1>1, <2>2
  <2> QED
    BY <2>1, <2>2, Steps DEF EmitInState, RunFinishes
<1>3. /\ old' = old /\ emitted' \in 0..MaxRun /\ node' \in Seq(1..MaxRun)
      /\ finished' \in BOOLEAN /\ used' \subseteq Calls
  <2>1. CASE NodeEnds \/ RunFinishes
    <3>1. <<>> \in Seq(1..MaxRun)
      OBVIOUS
    <3> QED
      BY <1>1, <2>1, <3>1 DEF NodeEnds, RunFinishes
  <2>5. CASE EmitLive
    <3>1. emitted' = emitted + 1 /\ emitted + 1 \in 0..MaxRun
      BY <1>1, <2>5, Numbers DEF EmitLive
    <3> QED
      BY <1>1, <2>5, <3>1 DEF EmitLive
  <2>2. CASE EmitInState
    <3>1. emitted' = emitted + 1 /\ emitted + 1 \in 1..MaxRun
      BY <1>1, <2>2, Numbers DEF EmitInState
    <3> QED
      BY <1>1, <2>2, <3>1 DEF EmitInState
  <2>3. CASE BackfillAppends \/ \E c \in Calls : ApiAppends(c)
    BY <1>1, <2>3 DEF BackfillAppends, ApiAppends, runVars
  <2>4. CASE UNCHANGED runVars
    BY <1>1, <2>4 DEF runVars
  <2> QED
    BY <2>1, <2>2, <2>3, <2>4, <2>5, Steps DEF Appending
<1>4. 1..Len(log') \subseteq Seqs
  <2>1. Counts' /\ Len(log') \in Nat /\ Len(node') \in Nat
    BY <1>2, <1>3, CountsStep
  <2>2. /\ emitted' \in 0..MaxRun /\ used' \in SUBSET Calls
        /\ old' \in {0, OldEvents}
    BY <1>1, <1>3
  <2>3. Cardinality(used') \in Nat
    BY <1>3, Numbers
  <2>4. /\ old' = 0 => Len(log') <= emitted' + Cardinality(used')
        /\ old' > 0 => Len(log') <= old'
    BY <2>1, <2>2, <2>3, Numbers DEF Counts
  <2> QED
    BY <2>1, <2>2, <2>4, Room
<1>5. atFinish' \in {0} \cup Seqs
  <2>1. CASE RunFinishes
    <3>1. atFinish' = Len(log') /\ Len(log') \in Nat
      BY <1>1, <2>1 DEF RunFinishes
    <3>2. Len(log') = 0 \/ Len(log') \in 1..Len(log')
      BY <3>1
    <3> QED
      BY <1>4, <3>1, <3>2
  <2>2. CASE UNCHANGED atFinish
    BY <1>1, <2>2
  <2> QED
    BY <2>1, <2>2, Steps DEF Appending, EmitLive, EmitInState, NodeEnds,
       BackfillAppends, ApiAppends, runVars
<1> QED
  BY <1>2, <1>3, <1>4, <1>5

\* The numbers in the table, and a page of them.
LEMMA LogRoom == Inv => Len(log) \in Nat /\ 1..Len(log) \subseteq Seqs
<1> SUFFICES ASSUME Inv PROVE Len(log) \in Nat /\ 1..Len(log) \subseteq Seqs
  OBVIOUS
<1>1. /\ log \in Seq(Entry) /\ emitted \in 0..MaxRun /\ node \in Seq(1..MaxRun)
      /\ old \in {0, OldEvents} /\ used \in SUBSET Calls /\ Len(log) \in Nat
      /\ Len(node) \in Nat /\ Cardinality(used) \in Nat
  BY Numbers DEF Inv, TypeOK, Entry
<1>2. /\ old = 0 => Len(log) <= emitted + Cardinality(used)
      /\ old > 0 => Len(log) <= old
  BY <1>1, Numbers DEF Inv, Counts
<1> QED
  BY <1>1, <1>2, Room

\* A page starts at the cursor, ends within the table, and is empty only at
\* its end.
LEMMA PageIs ==
    ASSUME Inv, NEW since \in Nat, since <= Len(log)
    PROVE  /\ PageEnd(since) \in Nat
           /\ since <= PageEnd(since) /\ PageEnd(since) <= Len(log)
           /\ PageEnd(since) = since => since = Len(log)
BY LogRoom, Numbers DEF PageEnd

-----------------------------------------------------------------------------
(* Types of the bus, the streams and the poll *)

\* The head of what waits, and what is left.
LEMMA HeadIs ==
    ASSUME NEW T, NEW q \in Seq(T), q # <<>>
    PROVE  /\ Head(q) = q[1] /\ Head(q) \in T /\ 1 \in DOMAIN q
           /\ Tail(q) \in Seq(T) /\ Len(Tail(q)) = Len(q) - 1
           /\ \A i \in DOMAIN Tail(q) :
                 i \in Nat /\ i + 1 \in DOMAIN q /\ Tail(q)[i] = q[i + 1]
           /\ \A i \in DOMAIN q : i # 1 =>
                 i - 1 \in DOMAIN Tail(q) /\ Tail(q)[i - 1] = q[i]
<1>1. /\ Head(q) = q[1] /\ Head(q) \in T /\ 1 \in DOMAIN q
      /\ Tail(q) \in Seq(T) /\ Len(Tail(q)) = Len(q) - 1
      /\ DOMAIN q = 1..Len(q) /\ DOMAIN Tail(q) = 1..Len(Tail(q))
      /\ Len(q) \in Nat /\ Len(q) > 0
  OBVIOUS
<1>2. \A i \in DOMAIN Tail(q) :
         i \in Nat /\ i + 1 \in DOMAIN q /\ Tail(q)[i] = q[i + 1]
  BY <1>1
<1>3. \A i \in DOMAIN q : i # 1 =>
         i - 1 \in DOMAIN Tail(q) /\ Tail(q)[i - 1] = q[i]
  <2>1. ASSUME NEW i \in DOMAIN q, i # 1
        PROVE  i - 1 \in DOMAIN Tail(q) /\ (i - 1) + 1 = i
    BY <1>1, <2>1
  <2> QED
    BY <1>2, <2>1
<1> QED
  BY <1>1, <1>2, <1>3

\* Appending to a queue puts the event at its end.
LEMMA AppendIs ==
    ASSUME NEW T, NEW q \in Seq(T), NEW n \in T
    PROVE  /\ Append(q, n) \in Seq(T) /\ Len(Append(q, n)) = Len(q) + 1
           /\ Len(q) \in Nat /\ DOMAIN q = 1..Len(q)
           /\ DOMAIN Append(q, n) = 1..(Len(q) + 1)
           /\ \A i \in DOMAIN q : Append(q, n)[i] = q[i]
           /\ Append(q, n)[Len(q) + 1] = n
           /\ \A i \in DOMAIN Append(q, n) : i \in DOMAIN q \/ i = Len(q) + 1
           /\ ToSet(Append(q, n)) = ToSet(q) \cup {n}
<1>1. /\ Append(q, n) \in Seq(T) /\ Len(Append(q, n)) = Len(q) + 1
      /\ Len(q) \in Nat /\ DOMAIN q = 1..Len(q)
      /\ DOMAIN Append(q, n) = 1..(Len(q) + 1)
      /\ \A i \in DOMAIN q : Append(q, n)[i] = q[i]
      /\ Append(q, n)[Len(q) + 1] = n
  OBVIOUS
<1>2. \A i \in DOMAIN Append(q, n) : i \in DOMAIN q \/ i = Len(q) + 1
  BY <1>1
<1>3. DOMAIN q \subseteq DOMAIN Append(q, n)
      /\ Len(q) + 1 \in DOMAIN Append(q, n)
  BY <1>1
<1>4. ToSet(Append(q, n)) = ToSet(q) \cup {n}
  BY <1>1, <1>2, <1>3 DEF ToSet
<1> QED
  BY <1>1, <1>2, <1>4

\* What is committed and what is overtaken stays within the table.
LEMMA PubType ==
    Inv /\ [Next]_vars =>
        unpublished' \in [Appenders -> Seq(Seqs)] /\ overtaken' \subseteq Seqs
<1> SUFFICES ASSUME Inv, [Next]_vars
             PROVE  /\ unpublished' \in [Appenders -> Seq(Seqs)]
                    /\ overtaken' \subseteq Seqs
  OBVIOUS
<1>1. unpublished \in [Appenders -> Seq(Seqs)] /\ overtaken \subseteq Seqs
  BY DEF Inv, TypeOK
<1>2. CASE Appending
  <2>1. PICK who \in Appenders, events \in Seq(Entry) :
           Commit(who, events) /\ Len(events) > 0
    BY <1>2, Appended DEF Inv
  <2>2. /\ Len(log') = Len(log) + Len(events) /\ Len(log) \in Nat
        /\ Len(events) \in Nat /\ 1..Len(log') \subseteq Seqs
        /\ DOMAIN events = 1..Len(events)
    BY <2>1, CommitMakes, RunType, LogRoom DEF Inv
  <2>3. \A i \in 1..Len(events) : Len(log) + i \in Seqs
    BY <2>2
  <2>4. [i \in DOMAIN events |-> Len(log) + i] \in Seq(Seqs)
    BY <2>2, <2>3
  <2> QED
    BY <1>1, <2>1, <2>4 DEF Commit
<1>3. ASSUME NEW p \in Appenders, Publish(p)
      PROVE  /\ unpublished' \in [Appenders -> Seq(Seqs)]
             /\ overtaken' \subseteq Seqs
  <2>1. unpublished[p] \in Seq(Seqs) /\ unpublished[p] # <<>>
    BY <1>1, <1>3 DEF Publish
  <2>2. Tail(unpublished[p]) \in Seq(Seqs)
    BY <2>1, HeadIs
  <2>3. Pending \subseteq Seqs
    <3>1. \A q \in Appenders : \A i \in DOMAIN unpublished[q] :
             unpublished[q][i] \in Seqs
      BY <1>1
    <3> QED
      BY <3>1, PendingIs
  <2> QED
    BY <1>1, <1>3, <2>2, <2>3 DEF Publish
<1>4. CASE UNCHANGED pubVars
  BY <1>1, <1>4 DEF pubVars
<1> QED
  BY <1>2, <1>3, <1>4, Steps DEF EmitInState, RunFinishes

\* What each step of a stream does to it; the queues are Subscribe's, Take's
\* and Disconnect's.
LEMMA StreamType ==
    Inv /\ [Next]_vars =>
        /\ at' \in [Streams ->
               Open \cup {"off", "waiting", "filling", "fresh", "done"}]
        /\ connects' \in [Streams -> 0..MaxConnects]
        /\ batch' \in [Streams -> Seq(Seqs)]
        /\ cursor' \in [Streams -> {0} \cup Seqs]
        /\ frames' \in [Streams -> Seq(Seqs)]
        /\ grew' \subseteq Streams
<1> DEFINE Typed == /\ at' \in [Streams -> Open \cup
                             {"off", "waiting", "filling", "fresh", "done"}]
                    /\ connects' \in [Streams -> 0..MaxConnects]
                    /\ batch' \in [Streams -> Seq(Seqs)]
                    /\ cursor' \in [Streams -> {0} \cup Seqs]
                    /\ frames' \in [Streams -> Seq(Seqs)]
                    /\ grew' \subseteq Streams
<1> SUFFICES ASSUME Inv, [Next]_vars PROVE Typed
  OBVIOUS
<1>1. /\ at \in [Streams ->
             Open \cup {"off", "waiting", "filling", "fresh", "done"}]
      /\ connects \in [Streams -> 0..MaxConnects]
      /\ batch \in [Streams -> Seq(Seqs)]
      /\ cursor \in [Streams -> {0} \cup Seqs]
      /\ frames \in [Streams -> Seq(Seqs)]
      /\ queue \in [Streams -> Seq(Seqs)]
      /\ grew \subseteq Streams
  BY DEF Inv, TypeOK
<1>2. CASE UNCHANGED <<streamVars, grew>>
  BY <1>1, <1>2 DEF streamVars
<1>3. ASSUME NEW s \in Streams,
             \/ TakeLock(s) \/ FillDone(s) \/ Subscribe(s) \/ Heartbeat(s)
             \/ CheckComplete(s) \/ Connect(s) \/ Disconnect(s)
      PROVE  Typed
  <2>1. CASE TakeLock(s) \/ FillDone(s) \/ Subscribe(s) \/ Heartbeat(s)
    BY <1>1, <2>1
       DEF TakeLock, FillDone, Subscribe, Heartbeat, Moves, Open
  <2>2. CASE CheckComplete(s)
    <3>1. (IF finished THEN "done" ELSE "live") \in Open \cup {"done"}
      BY DEF Open
    <3> QED
      BY <1>1, <2>2, <3>1 DEF CheckComplete, Moves
  <2>3. CASE Connect(s)
    <3>1. connects[s] + 1 \in 0..MaxConnects
      BY <1>1, <2>3, Numbers DEF Connect
    <3>2. (IF cursor[s] = 0 /\ log = <<>> THEN "waiting" ELSE "fresh")
             \in {"waiting", "fresh"}
      OBVIOUS
    <3> QED
      BY <1>1, <2>3, <3>1, <3>2 DEF Connect, Moves
  <2>4. CASE Disconnect(s)
    <3>1. <<>> \in Seq(Seqs)
      OBVIOUS
    <3> QED
      BY <1>1, <2>4, <3>1 DEF Disconnect, Moves
  <2> QED
    BY <1>3, <2>1, <2>2, <2>3, <2>4
<1>4. ASSUME NEW s \in Streams, ReadBatch(s)
      PROVE  Typed
  <2>1. CASE cursor[s] < Len(log)
    <3> DEFINE rows == [i \in 1..(PageEnd(cursor[s]) - cursor[s]) |->
                           cursor[s] + i]
    <3>1. cursor[s] \in Nat
      BY <1>1 DEF Seqs
    <3>2. /\ PageEnd(cursor[s]) \in Nat /\ cursor[s] <= PageEnd(cursor[s])
          /\ PageEnd(cursor[s]) <= Len(log)
          /\ Len(log) \in Nat /\ 1..Len(log) \subseteq Seqs
      BY <2>1, <3>1, PageIs, LogRoom
    <3>3. /\ PageEnd(cursor[s]) - cursor[s] \in Nat
          /\ \A i \in 1..(PageEnd(cursor[s]) - cursor[s]) :
                cursor[s] + i \in Seqs
      BY <3>1, <3>2
    <3>4. rows \in Seq(Seqs)
      BY <3>3
    <3> QED
      BY <1>1, <1>4, <2>1, <3>4 DEF ReadBatch
  <2>2. CASE ~(cursor[s] < Len(log))
    BY <1>1, <1>4, <2>2 DEF ReadBatch, Moves, Open
  <2> QED
    BY <2>1, <2>2
<1>5. ASSUME NEW s \in Streams, Replay(s)
      PROVE  Typed
  <2>1. batch[s] \in Seq(Seqs) /\ batch[s] # <<>> /\ frames[s] \in Seq(Seqs)
    BY <1>1, <1>5 DEF Replay
  <2>2. Head(batch[s]) \in Seqs /\ Tail(batch[s]) \in Seq(Seqs)
    BY <2>1, HeadIs
  <2>3. Append(frames[s], Head(batch[s])) \in Seq(Seqs)
    BY <2>1, <2>2, AppendIs
  <2> QED
    BY <1>1, <1>5, <2>2, <2>3 DEF Replay, Sends
<1>6. ASSUME NEW s \in Streams, Take(s)
      PROVE  Typed
  <2>1. queue[s] \in Seq(Seqs) /\ queue[s] # <<>> /\ frames[s] \in Seq(Seqs)
    BY <1>1, <1>6 DEF Take
  <2>2. Head(queue[s]) \in Seqs
    BY <2>1, HeadIs
  <2>3. Append(frames[s], Head(queue[s])) \in Seq(Seqs)
    BY <2>1, <2>2, AppendIs
  <2> QED
    BY <1>1, <1>6, <2>2, <2>3 DEF Take, Sends
<1> HIDE DEF Typed
<1>7. CASE Streaming
  BY <1>3, <1>4, <1>5, <1>6, <1>7 DEF Streaming, Stream
<1>8. CASE Appending
  <2>1. UNCHANGED streamVars
        /\ grew' = grew \cup {s \in Streams : at[s] = "checking"}
    BY <1>8, Appended, CommitMakes DEF Inv
  <2> QED
    BY <1>1, <2>1 DEF streamVars, Typed
<1>9. EmitInState \/ RunFinishes \/ (\E p \in Appenders : Publish(p))
         \/ Poll \/ UNCHANGED vars => UNCHANGED <<streamVars, grew>>
  BY DEF EmitInState, RunFinishes, Publish, Poll, PollStarts, PollFilled,
     PollReads, vars
<1> QED
  BY <1>2, <1>7, <1>8, <1>9, Steps

\* A queue never outgrows its bound: a full one loses its subscription.
LEMMA QueueType ==
    Inv /\ [Next]_vars =>
        /\ subscribed' \in [Streams -> BOOLEAN]
        /\ queue' \in [Streams -> Seq(Seqs)]
        /\ \A s \in Streams : Len(queue'[s]) <= QueueMax
<1> SUFFICES ASSUME Inv, [Next]_vars
             PROVE  /\ subscribed' \in [Streams -> BOOLEAN]
                    /\ queue' \in [Streams -> Seq(Seqs)]
                    /\ \A s \in Streams : Len(queue'[s]) <= QueueMax
  OBVIOUS
<1>1. /\ subscribed \in [Streams -> BOOLEAN]
      /\ queue \in [Streams -> Seq(Seqs)]
      /\ \A s \in Streams : Len(queue[s]) <= QueueMax
  BY DEF Inv, TypeOK
<1>2. ASSUME NEW p \in Appenders, Publish(p)
      PROVE  /\ subscribed' \in [Streams -> BOOLEAN]
             /\ queue' \in [Streams -> Seq(Seqs)]
             /\ \A s \in Streams : Len(queue'[s]) <= QueueMax
  <2> DEFINE n == Head(unpublished[p])
  <2>1. n \in Seqs
    BY <1>2, HeadIs DEF Publish, Inv, TypeOK
  <2>2. ASSUME NEW s \in Streams
        PROVE  /\ queue'[s] \in {queue[s], Append(queue[s], n)}
               /\ queue'[s] # queue[s] => Len(queue[s]) < QueueMax
    <3>1. queue'[s] = IF subscribed[s] /\ ~(Len(queue[s]) >= QueueMax)
                      THEN Append(queue[s], n) ELSE queue[s]
      BY <1>2 DEF Publish
    <3>2. Len(queue[s]) \in Nat
      BY <1>1
    <3> QED
      BY <3>1, <3>2, Numbers
  <2>3. ASSUME NEW s \in Streams
        PROVE  queue'[s] \in Seq(Seqs) /\ Len(queue'[s]) <= QueueMax
    <3>1. Append(queue[s], n) \in Seq(Seqs)
          /\ Len(Append(queue[s], n)) = Len(queue[s]) + 1
          /\ Len(queue[s]) \in Nat
      BY <1>1, <2>1, AppendIs
    <3>2. CASE queue'[s] = queue[s]
      BY <1>1, <3>2
    <3>3. CASE queue'[s] # queue[s]
      <4>1. queue'[s] = Append(queue[s], n) /\ Len(queue[s]) < QueueMax
        BY <2>2, <3>3
      <4>2. Len(queue[s]) + 1 <= QueueMax
        BY <3>1, <4>1, Numbers
      <4> QED
        BY <3>1, <4>1, <4>2
    <3> QED
      BY <3>2, <3>3
  <2>4. queue' = [s \in Streams |-> queue'[s]]
    BY <1>2 DEF Publish
  <2>5. subscribed' \in [Streams -> BOOLEAN]
    BY <1>2 DEF Publish
  <2> QED
    BY <2>3, <2>4, <2>5
<1>3. CASE UNCHANGED busVars
  BY <1>1, <1>3 DEF busVars
<1>4. ASSUME NEW s \in Streams,
             \/ Subscribe(s) \/ Disconnect(s) \/ Take(s) \/ CheckComplete(s)
      PROVE  /\ subscribed' \in [Streams -> BOOLEAN]
             /\ queue' \in [Streams -> Seq(Seqs)]
             /\ \A t \in Streams : Len(queue'[t]) <= QueueMax
  <2>1. <<>> \in Seq(Seqs) /\ Len(<<>>) = 0
    OBVIOUS
  <2>2. CASE Subscribe(s) \/ Disconnect(s)
    <3>1. queue' = [queue EXCEPT ![s] = <<>>]
          /\ \E b \in BOOLEAN : subscribed' = [subscribed EXCEPT ![s] = b]
      BY <2>2 DEF Subscribe, Disconnect
    <3>2. \A t \in Streams : queue'[t] \in {queue[t], <<>>}
      BY <1>1, <3>1
    <3> QED
      BY <1>1, <2>1, <3>1, <3>2, Numbers
  <2>3. CASE Take(s)
    <3>1. queue[s] \in Seq(Seqs) /\ queue[s] # <<>>
      BY <1>1, <2>3 DEF Take
    <3>2. Tail(queue[s]) \in Seq(Seqs) /\ Len(Tail(queue[s])) <= QueueMax
      BY <1>1, <3>1, HeadIs, Numbers
    <3> QED
      BY <1>1, <2>3, <3>2 DEF Take
  <2>4. CASE CheckComplete(s)
    <3>1. (subscribed[s] /\ ~finished) \in BOOLEAN
      OBVIOUS
    <3> QED
      BY <1>1, <2>4, <3>1 DEF CheckComplete
  <2> QED
    BY <1>4, <2>2, <2>3, <2>4
<1>5. Appending => UNCHANGED busVars
  BY Appended, CommitMakes DEF Inv
<1>6. EmitInState \/ RunFinishes \/ Poll \/ UNCHANGED vars => UNCHANGED busVars
  BY DEF EmitInState, RunFinishes, Poll, PollStarts, PollFilled, PollReads,
     vars
<1>7. \A s \in Streams :
         TakeLock(s) \/ FillDone(s) \/ ReadBatch(s) \/ Replay(s)
            \/ Heartbeat(s) \/ Connect(s) => UNCHANGED busVars
  BY DEF TakeLock, FillDone, ReadBatch, Replay, Heartbeat, Connect
<1>8. CASE Streaming
  <2>1. PICK s \in Streams : Stream(s) \/ Connect(s) \/ Disconnect(s)
    BY <1>8 DEF Streaming
  <2>2. \/ Subscribe(s) \/ Disconnect(s) \/ Take(s) \/ CheckComplete(s)
        \/ UNCHANGED busVars
    BY <1>7, <2>1 DEF Stream
  <2> QED
    BY <1>3, <1>4, <2>2
<1> QED
  BY <1>2, <1>3, <1>5, <1>6, <1>8, Steps

\* Every step keeps the types.
LEMMA TypeStep == Inv /\ [Next]_vars => TypeOK'
<1> SUFFICES ASSUME Inv, [Next]_vars PROVE TypeOK'
  OBVIOUS
<1>1. /\ lock \in Streams \cup {Free, "poll"}
      /\ poll \in [at : {"idle", "filling", "reading", "stopped"},
                   since : {0} \cup Seqs, complete : BOOLEAN]
      /\ finished \in BOOLEAN
  BY DEF Inv, TypeOK
<1>2. lock' \in Streams \cup {Free, "poll"}
  <2>1. Appending => UNCHANGED lock
    BY Appended, CommitMakes DEF Inv
  <2>2. Streaming => lock' \in Streams \cup {Free, "poll"}
    BY <1>1 DEF Streaming, Stream, TakeLock, FillDone, Subscribe, ReadBatch,
       Replay, Take, Heartbeat, CheckComplete, Connect, Disconnect
  <2>3. Poll => lock' \in Streams \cup {Free, "poll"}
    BY <1>1 DEF Poll, PollStarts, PollFilled, PollReads
  <2>4. EmitInState \/ RunFinishes \/ (\E p \in Appenders : Publish(p))
           \/ UNCHANGED vars => UNCHANGED lock
    BY DEF EmitInState, RunFinishes, Publish, vars
  <2> QED
    BY <1>1, <2>1, <2>2, <2>3, <2>4, Steps
<1>3. poll' \in [at : {"idle", "filling", "reading", "stopped"},
                 since : {0} \cup Seqs, complete : BOOLEAN]
  <2>1. Appending => UNCHANGED poll
    BY Appended, CommitMakes DEF Inv
  <2>2. CASE PollStarts \/ PollFilled
    BY <1>1, <2>2 DEF PollStarts, PollFilled
  <2>3. CASE PollReads
    <3>1. poll.since \in Nat /\ poll.since <= Len(log)
      BY <1>1 DEF Inv, Locks, Seqs
    <3>2. PageEnd(poll.since) \in {0} \cup Seqs
      BY <3>1, PageIs, LogRoom
    <3> QED
      BY <1>1, <2>3, <3>2 DEF PollReads
  <2>4. EmitInState \/ RunFinishes \/ (\E p \in Appenders : Publish(p))
           \/ UNCHANGED vars => UNCHANGED poll
    BY DEF EmitInState, RunFinishes, Publish, vars
  <2>5. Streaming => UNCHANGED poll
    BY DEF Streaming, Stream, TakeLock, FillDone, Subscribe, ReadBatch,
       Replay, Take, Heartbeat, CheckComplete, Connect, Disconnect
  <2> QED
    BY <1>1, <2>1, <2>2, <2>3, <2>4, <2>5, Steps DEF Poll
<1>4. old' \in {0, OldEvents}
  BY RunType DEF Inv, TypeOK
<1> QED
  BY <1>2, <1>3, <1>4, RunType, PubType, StreamType, QueueType
     DEF TypeOK, Entry

-----------------------------------------------------------------------------
(* The bus *)

\* A stream that does not step keeps its place; only a publish reaches it.
LEMMA Still ==
    ASSUME Inv, [Next]_vars, NEW s \in Streams,
           ~(Stream(s) \/ Connect(s) \/ Disconnect(s))
    PROVE  /\ at'[s] = at[s] /\ batch'[s] = batch[s]
           /\ cursor'[s] = cursor[s] /\ frames'[s] = frames[s]
           /\ (queue'[s] = queue[s] /\ subscribed'[s] = subscribed[s])
              \/ \E p \in Appenders : Publish(p)
<1>1. ASSUME NEW t \in Streams, t # s,
             Stream(t) \/ Connect(t) \/ Disconnect(t)
      PROVE  /\ at'[s] = at[s] /\ batch'[s] = batch[s]
             /\ cursor'[s] = cursor[s] /\ frames'[s] = frames[s]
             /\ queue'[s] = queue[s] /\ subscribed'[s] = subscribed[s]
  <2>1. /\ DOMAIN at = Streams /\ DOMAIN batch = Streams
        /\ DOMAIN cursor = Streams /\ DOMAIN frames = Streams
        /\ DOMAIN queue = Streams /\ DOMAIN subscribed = Streams
    BY DEF Inv, TypeOK
  <2>2. CASE TakeLock(t) \/ FillDone(t) \/ Subscribe(t)
    BY <1>1, <2>1, <2>2 DEF TakeLock, FillDone, Subscribe, Moves, busVars
  <2>3. CASE ReadBatch(t) \/ Replay(t) \/ Take(t)
    BY <1>1, <2>1, <2>3 DEF ReadBatch, Replay, Take, Moves, Sends, busVars
  <2>4. CASE Heartbeat(t) \/ CheckComplete(t)
    BY <1>1, <2>1, <2>4 DEF Heartbeat, CheckComplete, Moves, busVars
  <2>5. CASE Connect(t) \/ Disconnect(t)
    BY <1>1, <2>1, <2>5 DEF Connect, Disconnect, Moves, busVars
  <2> QED
    BY <1>1, <2>2, <2>3, <2>4, <2>5 DEF Stream
<1>2. Streaming => \E t \in Streams : t # s /\
                      (Stream(t) \/ Connect(t) \/ Disconnect(t))
  BY DEF Streaming
<1>3. Appending => UNCHANGED <<streamVars, busVars>>
  BY Appended, CommitMakes DEF Inv
<1>4. EmitInState \/ RunFinishes \/ Poll \/ UNCHANGED vars =>
         UNCHANGED <<streamVars, busVars>>
  BY DEF EmitInState, RunFinishes, Poll, PollStarts, PollFilled, PollReads,
     vars
<1>5. \A p \in Appenders : Publish(p) => UNCHANGED streamVars
  BY DEF Publish
<1>6. Streaming => /\ at'[s] = at[s] /\ batch'[s] = batch[s]
                   /\ cursor'[s] = cursor[s] /\ frames'[s] = frames[s]
                   /\ queue'[s] = queue[s] /\ subscribed'[s] = subscribed[s]
  BY <1>1, <1>2
<1> QED
  BY <1>3, <1>4, <1>5, <1>6, Steps DEF streamVars, busVars

\* The waiting seqs are seqs of the table.
LEMMA PendingSeqs ==
    /\ \A n \in Seqs : n \in Nat
    /\ Inv => \A m \in Pending : m \in Seqs /\ m <= Len(log)
    /\ Inv /\ [Next]_vars => \A m \in Pending' : m \in Seqs
<1>1. \A n \in Seqs : n \in Nat
  BY Numbers DEF Seqs
<1>2. ASSUME Inv
      PROVE  \A m \in Pending : m \in Seqs /\ m <= Len(log)
  <2>1. \A p \in Appenders : \A i \in DOMAIN unpublished[p] :
           unpublished[p][i] \in Seqs /\ unpublished[p][i] <= Len(log)
    BY <1>2 DEF Inv, TypeOK, Bus
  <2> QED
    BY <2>1, PendingIs
<1>3. ASSUME Inv, [Next]_vars
      PROVE  \A m \in Pending' : m \in Seqs
  <2>1. \A p \in Appenders : \A i \in DOMAIN unpublished'[p] :
           unpublished'[p][i] \in Seqs
    BY <1>3, PubType
  <2> QED
    BY <2>1, PendingIs
<1> QED
  BY <1>1, <1>2, <1>3

\* How the waiting seqs change.
LEMMA PendingMoves ==
    ASSUME Inv, [Next]_vars
    PROVE  /\ overtaken \subseteq overtaken'
           /\ \A m \in Pending' : m \in Pending \/ (Appending /\ m > Len(log))
           /\ Appending => \A m \in Pending : m \in Pending'
           /\ Appending => \A m \in Seqs :
                 Len(log) < m /\ m <= Len(log') => m \in Pending'
           /\ \A p \in Appenders : Publish(p) =>
                 /\ unpublished[p] \in Seq(Seqs) /\ unpublished[p] # <<>>
                 /\ \A m \in Pending :
                       m = Head(unpublished[p]) \/ m \in Pending'
           /\ Streaming \/ Poll \/ UNCHANGED vars \/ EmitInState \/ RunFinishes
                 => Pending' = Pending /\ log' = log
<1>1. /\ unpublished \in [Appenders -> Seq(Seqs)] /\ log \in Seq(Entry)
      /\ Len(log) \in Nat
  BY LogRoom DEF Inv, TypeOK, Entry
<1>2. ASSUME Appending
      PROVE  /\ overtaken' = overtaken
             /\ \A m \in Pending' : m \in Pending \/ m > Len(log)
             /\ \A m \in Pending : m \in Pending'
             /\ \A m \in Seqs :
                   Len(log) < m /\ m <= Len(log') => m \in Pending'
  <2>1. PICK who \in Appenders, events \in Seq(Entry) :
           Commit(who, events) /\ Len(events) > 0
    BY <1>2, Appended DEF Inv
  <2>2. /\ Len(log') = Len(log) + Len(events) /\ Len(events) \in Nat
        /\ DOMAIN unpublished' = Appenders
        /\ \A p \in Appenders \ {who} : unpublished'[p] = unpublished[p]
        /\ unpublished[who] = <<>>
        /\ DOMAIN unpublished'[who] = 1..Len(events)
        /\ \A i \in 1..Len(events) : unpublished'[who][i] = Len(log) + i
        /\ overtaken' = overtaken
    BY <2>1, CommitMakes DEF Inv
  <2>3. ASSUME NEW m \in Pending'
        PROVE  m \in Pending \/ m > Len(log)
    <3>1. PICK p \in Appenders : \E i \in DOMAIN unpublished'[p] :
             unpublished'[p][i] = m
      BY <2>3, PendingIs
    <3>2. CASE p = who
      BY <1>1, <2>2, <3>1, <3>2
    <3>3. CASE p # who
      BY <2>2, <3>1, <3>3, PendingIs
    <3> QED
      BY <3>2, <3>3
  <2>4. ASSUME NEW m \in Pending
        PROVE  m \in Pending'
    <3>1. PICK p \in Appenders : \E i \in DOMAIN unpublished[p] :
             unpublished[p][i] = m
      BY <2>4, PendingIs
    <3>2. p # who
      BY <2>2, <3>1
    <3> QED
      BY <2>2, <3>1, <3>2, PendingIs
  <2>5. ASSUME NEW m \in Seqs, Len(log) < m, m <= Len(log')
        PROVE  m \in Pending'
    <3>1. m - Len(log) \in 1..Len(events) /\ Len(log) + (m - Len(log)) = m
      BY <1>1, <2>2, <2>5 DEF Seqs
    <3> QED
      BY <2>2, <3>1, PendingIs
  <2> QED
    BY <2>2, <2>3, <2>4, <2>5
<1>3. ASSUME NEW p \in Appenders, Publish(p)
      PROVE  /\ overtaken \subseteq overtaken'
             /\ \A m \in Pending' : m \in Pending
             /\ unpublished[p] \in Seq(Seqs) /\ unpublished[p] # <<>>
             /\ \A m \in Pending : m = Head(unpublished[p]) \/ m \in Pending'
  <2>1. unpublished[p] \in Seq(Seqs) /\ unpublished[p] # <<>>
    BY <1>1, <1>3 DEF Publish
  <2>2. /\ unpublished' = [unpublished EXCEPT ![p] = Tail(unpublished[p])]
        /\ overtaken \subseteq overtaken'
    BY <1>3 DEF Publish
  <2>3. /\ unpublished'[p] = Tail(unpublished[p])
        /\ \A q \in Appenders : q # p => unpublished'[q] = unpublished[q]
    BY <1>1, <2>2
  <2>4. /\ Head(unpublished[p]) = unpublished[p][1]
        /\ \A i \in DOMAIN Tail(unpublished[p]) :
              i + 1 \in DOMAIN unpublished[p]
              /\ Tail(unpublished[p])[i] = unpublished[p][i + 1]
        /\ \A i \in DOMAIN unpublished[p] : i # 1 =>
              i - 1 \in DOMAIN Tail(unpublished[p])
              /\ Tail(unpublished[p])[i - 1] = unpublished[p][i]
    BY <2>1, HeadIs
  <2>5. ASSUME NEW m \in Pending'
        PROVE  m \in Pending
    <3>1. PICK q \in Appenders : \E i \in DOMAIN unpublished'[q] :
             unpublished'[q][i] = m
      BY <2>5, PendingIs
    <3>2. PICK i \in DOMAIN unpublished'[q] : unpublished'[q][i] = m
      BY <3>1
    <3>3. CASE q # p
      BY <2>3, <3>2, <3>3, PendingIs
    <3>4. CASE q = p
      <4>1. i + 1 \in DOMAIN unpublished[q] /\ unpublished[q][i + 1] = m
        BY <2>3, <2>4, <3>2, <3>4
      <4> QED
        BY <4>1, PendingIs
    <3> QED
      BY <3>3, <3>4
  <2>6. ASSUME NEW m \in Pending, m # Head(unpublished[p])
        PROVE  m \in Pending'
    <3>1. PICK q \in Appenders : \E i \in DOMAIN unpublished[q] :
             unpublished[q][i] = m
      BY <2>6, PendingIs
    <3>2. PICK i \in DOMAIN unpublished[q] : unpublished[q][i] = m
      BY <3>1
    <3>3. CASE q # p
      BY <2>3, <3>2, <3>3, PendingIs
    <3>4. CASE q = p
      <4>1. i # 1
        BY <2>4, <2>6, <3>2, <3>4
      <4>2. i - 1 \in DOMAIN unpublished'[q] /\ unpublished'[q][i - 1] = m
        BY <2>3, <2>4, <3>2, <3>4, <4>1
      <4> QED
        BY <4>2, PendingIs
    <3> QED
      BY <3>3, <3>4
  <2> QED
    BY <2>1, <2>2, <2>5, <2>6
<1>4. EmitInState \/ RunFinishes => UNCHANGED <<log, pubVars>>
  BY DEF EmitInState, RunFinishes
<1>5. UNCHANGED pubVars => Pending' = Pending /\ overtaken' = overtaken
  BY DEF pubVars, Pending
<1>6. Streaming \/ Poll \/ UNCHANGED vars => UNCHANGED <<log, pubVars>>
  BY Steps
<1> QED
  BY <1>2, <1>3, <1>4, <1>5, <1>6, Steps

\* What a publish does to the queue of one stream.
LEMMA PublishReaches ==
    ASSUME Inv, NEW p \in Appenders, Publish(p), NEW s \in Streams
    PROVE  LET n == Head(unpublished[p]) IN
           /\ n \in Seqs /\ n \in Pending /\ n <= Len(log)
           /\ \A m \in Pending : m < n => m \in overtaken'
           /\ subscribed'[s] =>
                 subscribed[s] /\ queue'[s] = Append(queue[s], n)
           /\ queue'[s] \in {queue[s], Append(queue[s], n)}
<1> DEFINE n == Head(unpublished[p])
<1>1. unpublished[p] \in Seq(Seqs) /\ unpublished[p] # <<>>
  BY DEF Publish, Inv, TypeOK
<1>2. n \in Seqs /\ n = unpublished[p][1] /\ 1 \in DOMAIN unpublished[p]
  BY <1>1, HeadIs
<1>3. n \in Pending /\ n <= Len(log)
  BY <1>2, PendingIs DEF Inv, Bus
<1>4. overtaken' = overtaken \cup {m \in Pending : m < n}
  BY DEF Publish
<1>5. /\ subscribed'[s] = (subscribed[s] /\ ~(Len(queue[s]) >= QueueMax))
      /\ queue'[s] = IF subscribed[s] /\ ~(Len(queue[s]) >= QueueMax)
                     THEN Append(queue[s], n) ELSE queue[s]
  BY Zenon DEF Publish
<1> HIDE DEF n
<1>6. subscribed'[s] => subscribed[s] /\ queue'[s] = Append(queue[s], n)
  BY <1>5
<1>7. queue'[s] \in {queue[s], Append(queue[s], n)}
  BY <1>5
<1> QED
  BY <1>2, <1>3, <1>4, <1>6, <1>7 DEF n

\* What is said of one queue.
InOrder(s) ==
    \A i \in DOMAIN queue[s] :
       /\ queue[s][i] <= Len(log)
       /\ \A m \in Pending : m < queue[s][i] => m \in overtaken
       /\ \A j \in DOMAIN queue[s] :
             i < j /\ queue[s][j] < queue[s][i] => queue[s][j] \in overtaken

\* A queue that did not change stays in order: what is committed since is
\* later than all of it.
LEMMA OrderKept ==
    ASSUME Inv, [Next]_vars, NEW s \in Streams, queue'[s] = queue[s]
    PROVE  InOrder(s)'
<1>1. queue[s] \in Seq(Seqs) /\ InOrder(s) /\ Len(log) \in Nat
  BY LogRoom DEF Inv, TypeOK, Bus, InOrder
<1>2. Len(log') \in Nat /\ Len(log) <= Len(log')
  BY RunType
<1>3. ASSUME NEW i \in DOMAIN queue[s]
      PROVE  /\ queue[s][i] \in Seqs /\ queue[s][i] <= Len(log')
             /\ \A m \in Pending' : m < queue[s][i] => m \in overtaken'
  <2>1. queue[s][i] \in Nat /\ queue[s][i] \in Seqs /\ queue[s][i] <= Len(log)
    <3>1. queue[s][i] \in Seqs
      BY <1>1
    <3> QED
      BY <1>1, <3>1, PendingSeqs DEF InOrder
  <2>2. \A m \in Pending' : m \in Pending \/ m > Len(log)
    BY PendingMoves
  <2>3. \A m \in Pending' : m \in Nat
    BY PendingSeqs
  <2>4. \A m \in Pending : m < queue[s][i] => m \in overtaken'
    BY <1>1, PendingMoves DEF InOrder
  <2> QED
    BY <1>1, <1>2, <2>1, <2>2, <2>3, <2>4
<1>4. overtaken \subseteq overtaken'
  BY PendingMoves
<1> QED
  BY <1>1, <1>3, <1>4 DEF InOrder

\* Commits add later events than any queued; a publish past another marks it.
LEMMA BusStep == Inv /\ [Next]_vars => Bus'
<1> SUFFICES ASSUME Inv, [Next]_vars PROVE Bus'
  OBVIOUS
<1>1. ASSUME NEW p \in Appenders, NEW i \in DOMAIN unpublished'[p]
      PROVE  unpublished'[p][i] <= Len(log')
  <2>1. unpublished'[p][i] \in Pending'
    BY PendingIs
  <2>2. \A m \in Pending : m \in Nat /\ m <= Len(log)
    BY PendingSeqs
  <2>3. Len(log) \in Nat /\ Len(log') \in Nat /\ Len(log) <= Len(log')
    BY LogRoom, RunType
  <2>4. CASE unpublished'[p][i] \in Pending
    BY <2>2, <2>3, <2>4
  <2>5. CASE Appending
    <3>1. PICK who \in Appenders, events \in Seq(Entry) :
             Commit(who, events) /\ Len(events) > 0
      BY <2>5, Appended DEF Inv
    <3>2. CASE p = who
      <4>1. /\ DOMAIN unpublished'[who] = 1..Len(events)
            /\ \A j \in 1..Len(events) : unpublished'[who][j] = Len(log) + j
            /\ Len(log') = Len(log) + Len(events)
        BY <3>1, CommitMakes DEF Inv
      <4>2. i \in 1..Len(events) /\ Len(events) \in Nat
        BY <3>2, <4>1
      <4> QED
        BY <2>3, <3>2, <4>1, <4>2
    <3>3. CASE p # who
      <4>1. unpublished'[p] = unpublished[p]
        BY <3>1, <3>3, CommitMakes DEF Inv
      <4>2. unpublished'[p][i] \in Pending
        BY <4>1, PendingIs
      <4> QED
        BY <2>4, <4>2
    <3> QED
      BY <3>2, <3>3
  <2> QED
    BY <2>1, <2>4, <2>5, PendingMoves
<1>2. ASSUME NEW s \in Streams
      PROVE  InOrder(s)'
  <2>1. queue[s] \in Seq(Seqs) /\ InOrder(s) /\ Len(log) \in Nat
    BY LogRoom DEF Inv, TypeOK, Bus, InOrder
  <2>2. CASE queue'[s] = queue[s]
    BY <2>2, OrderKept
  <2>3. CASE queue'[s] = <<>>
    BY <2>3 DEF InOrder
  <2>4. CASE Take(s)
    <3>1. queue[s] # <<>> /\ queue'[s] = Tail(queue[s]) /\ log' = log
      BY <2>4 DEF Take, Inv, TypeOK
    <3>2. \A i \in DOMAIN Tail(queue[s]) :
             i \in Nat /\ i + 1 \in DOMAIN queue[s]
             /\ Tail(queue[s])[i] = queue[s][i + 1]
      BY <2>1, <3>1, HeadIs
    <3>3. Pending' = Pending /\ overtaken' = overtaken
      BY <2>4 DEF Take, pubVars, Pending
    <3>4. \A i, j \in DOMAIN Tail(queue[s]) : i < j => i + 1 < j + 1
      BY <3>2
    <3> QED
      BY <2>1, <3>1, <3>2, <3>3, <3>4 DEF InOrder
  <2>5. ASSUME NEW p \in Appenders, Publish(p),
               queue'[s] = Append(queue[s], Head(unpublished[p]))
        PROVE  InOrder(s)'
    <3> DEFINE n == Head(unpublished[p])
               new == Append(queue[s], n)
    <3>1. /\ n \in Seqs /\ n \in Pending /\ n <= Len(log)
          /\ \A m \in Pending : m < n => m \in overtaken'
      BY <2>5, PublishReaches
    <3> HIDE DEF n
    <3>2. /\ DOMAIN new = 1..(Len(queue[s]) + 1) /\ Len(queue[s]) \in Nat
          /\ DOMAIN queue[s] = 1..Len(queue[s])
          /\ \A i \in DOMAIN queue[s] : new[i] = queue[s][i]
          /\ new[Len(queue[s]) + 1] = n
          /\ \A i \in DOMAIN new :
                i \in DOMAIN queue[s] \/ i = Len(queue[s]) + 1
      BY <2>1, <3>1, AppendIs
    <3> HIDE DEF new
    <3>3. /\ log' = log /\ overtaken \subseteq overtaken'
          /\ \A m \in Pending' : m \in Pending
      <4>1. ~Appending \/ log' = log
        BY <2>5, Steps
      <4>2. \A m \in Pending' : m <= Len(log')
        BY <1>1, PendingIs
      <4>3. \A m \in Pending' : m \in Nat
        BY PendingSeqs
      <4> QED
        BY <2>1, <2>5, <4>2, <4>3, PendingMoves, Steps
    <3>4. ASSUME NEW i \in DOMAIN new
          PROVE  /\ new[i] <= Len(log')
                 /\ \A m \in Pending' : m < new[i] => m \in overtaken'
                 /\ \A j \in DOMAIN new :
                       i < j /\ new[j] < new[i] => new[j] \in overtaken'
      <4>1. CASE i = Len(queue[s]) + 1
        <5>1. \A j \in DOMAIN new : ~(i < j)
          BY <3>2, <4>1
        <5> QED
          BY <3>1, <3>2, <3>3, <4>1, <5>1
      <4>2. CASE i \in DOMAIN queue[s]
        <5>1. new[i] = queue[s][i] /\ new[i] <= Len(log)
          BY <2>1, <3>2, <4>2 DEF InOrder
        <5>2. \A m \in Pending' : m < new[i] => m \in overtaken'
          BY <2>1, <3>3, <4>2, <5>1 DEF InOrder
        <5>3. ASSUME NEW j \in DOMAIN new, i < j, new[j] < new[i]
              PROVE  new[j] \in overtaken'
          <6>1. CASE j \in DOMAIN queue[s]
            BY <2>1, <3>2, <3>3, <4>2, <5>1, <5>3, <6>1 DEF InOrder
          <6>2. CASE j = Len(queue[s]) + 1
            BY <2>1, <3>1, <3>2, <3>3, <4>2, <5>1, <5>3, <6>2 DEF InOrder
          <6> QED
            BY <3>2, <6>1, <6>2
        <5> QED
          BY <3>3, <5>1, <5>2, <5>3
      <4> QED
        BY <3>2, <4>1, <4>2
    <3> QED
      BY <2>5, <3>4 DEF InOrder, new, n
  <2>6. CASE Stream(s) \/ Connect(s) \/ Disconnect(s)
    <3>1. Take(s) \/ queue'[s] = queue[s] \/ queue'[s] = <<>>
      <4>1. queue \in [Streams -> Seq(Seqs)]
        BY DEF Inv, TypeOK
      <4> QED
        BY <2>6, <4>1 DEF Stream, TakeLock, FillDone, Subscribe, ReadBatch,
           Replay, Heartbeat, CheckComplete, Connect, Disconnect, busVars
    <3> QED
      BY <2>2, <2>3, <2>4, <3>1
  <2>7. CASE ~(Stream(s) \/ Connect(s) \/ Disconnect(s))
    <3>1. queue'[s] = queue[s] \/ \E p \in Appenders : Publish(p)
      BY <2>7, Still
    <3> QED
      BY <2>2, <2>5, <3>1, PublishReaches
  <2> QED
    BY <2>6, <2>7
<1> QED
  BY <1>1, <1>2 DEF Bus, InOrder

-----------------------------------------------------------------------------
(* What the streams send *)

\* The variables of one stream, as Nat and sequences.
LEMMA StreamIs ==
    ASSUME Inv, NEW s \in Streams
    PROVE  /\ cursor[s] \in Nat /\ cursor[s] <= Len(log) /\ Len(log) \in Nat
           /\ batch[s] \in Seq(Seqs) /\ Len(batch[s]) \in Nat
           /\ queue[s] \in Seq(Seqs) /\ frames[s] \in Seq(Seqs)
           /\ DOMAIN at = Streams /\ DOMAIN batch = Streams
           /\ DOMAIN cursor = Streams /\ DOMAIN frames = Streams
           /\ DOMAIN queue = Streams /\ DOMAIN subscribed = Streams
<1>1. /\ batch[s] \in Seq(Seqs) /\ Len(batch[s]) \in Nat
      /\ queue[s] \in Seq(Seqs) /\ frames[s] \in Seq(Seqs)
      /\ DOMAIN at = Streams /\ DOMAIN batch = Streams
      /\ DOMAIN cursor = Streams /\ DOMAIN frames = Streams
      /\ DOMAIN queue = Streams /\ DOMAIN subscribed = Streams
      /\ cursor[s] \in {0} \cup Seqs
  BY DEF Inv, TypeOK
<1>2. cursor[s] \in Nat
  BY <1>1, PendingSeqs
<1>3. cursor[s] + Len(batch[s]) <= Len(log) /\ Len(log) \in Nat
  BY LogRoom DEF Inv, Replays
<1> QED
  BY <1>1, <1>2, <1>3

\* A replay takes rows from the cursor on and sends them one by one.
LEMMA ReplaysStep == Inv /\ [Next]_vars => Replays'
<1> SUFFICES ASSUME Inv, [Next]_vars, NEW s \in Streams
             PROVE  /\ at'[s] # "replay" => batch'[s] = <<>>
                    /\ \A i \in DOMAIN batch'[s] :
                          batch'[s][i] = cursor'[s] + i
                    /\ cursor'[s] + Len(batch'[s]) <= Len(log')
  BY DEF Replays
<1>1. /\ at[s] # "replay" => batch[s] = <<>>
      /\ \A i \in DOMAIN batch[s] : batch[s][i] = cursor[s] + i
      /\ cursor[s] + Len(batch[s]) <= Len(log)
  BY DEF Inv, Replays
<1>2. /\ cursor[s] \in Nat /\ cursor[s] <= Len(log) /\ Len(log) \in Nat
      /\ batch[s] \in Seq(Seqs) /\ Len(batch[s]) \in Nat
      /\ queue[s] \in Seq(Seqs)
      /\ DOMAIN at = Streams /\ DOMAIN batch = Streams
      /\ DOMAIN cursor = Streams
  BY StreamIs
<1>3. Len(<<>>) = 0 /\ DOMAIN <<>> = {}
  OBVIOUS
<1>4. CASE ~(Stream(s) \/ Connect(s) \/ Disconnect(s))
  <2>1. at'[s] = at[s] /\ batch'[s] = batch[s] /\ cursor'[s] = cursor[s]
    BY <1>4, Still
  <2>2. Len(log') \in Nat /\ Len(log) <= Len(log')
    BY RunType
  <2> QED
    BY <1>1, <1>2, <2>1, <2>2
<1>5. CASE TakeLock(s) \/ FillDone(s) \/ Subscribe(s) \/ Connect(s)
  <2>1. /\ batch' = batch /\ cursor' = cursor /\ log' = log
        /\ at[s] # "replay"
    BY <1>5 DEF TakeLock, FillDone, Subscribe, Connect
  <2> QED
    BY <1>1, <1>2, <1>3, <2>1
<1>6. CASE Heartbeat(s) \/ CheckComplete(s)
  <2>1. /\ batch' = batch /\ cursor' = cursor /\ log' = log
        /\ at[s] # "replay"
    BY <1>6 DEF Heartbeat, CheckComplete
  <2> QED
    BY <1>1, <1>2, <1>3, <2>1
<1>7. CASE Disconnect(s)
  <2>1. batch'[s] = <<>> /\ cursor' = cursor /\ log' = log
    BY <1>2, <1>7 DEF Disconnect
  <2> QED
    BY <1>1, <1>2, <1>3, <2>1
<1>8. CASE ReadBatch(s)
  <2>1. CASE cursor[s] < Len(log)
    <3> DEFINE size == PageEnd(cursor[s]) - cursor[s]
    <3>1. /\ batch'[s] = [i \in 1..size |-> cursor[s] + i]
          /\ at' = at /\ cursor' = cursor /\ log' = log
          /\ at[s] = "replay"
      BY <1>2, <1>8, <2>1 DEF ReadBatch
    <3>2. size \in Nat /\ cursor[s] + size <= Len(log)
      BY <1>2, PageIs
    <3> HIDE DEF size
    <3>3. DOMAIN batch'[s] = 1..size /\ Len(batch'[s]) = size
          /\ \A i \in 1..size : batch'[s][i] = cursor[s] + i
      BY <3>1, <3>2
    <3> QED
      BY <3>1, <3>2, <3>3
  <2>2. CASE ~(cursor[s] < Len(log))
    <3>1. batch' = batch /\ batch[s] = <<>> /\ cursor' = cursor /\ log' = log
      BY <1>8, <2>2 DEF ReadBatch
    <3> QED
      BY <1>2, <1>3, <3>1
  <2> QED
    BY <2>1, <2>2
<1>9. CASE Replay(s)
  <2>1. /\ batch[s] # <<>> /\ batch'[s] = Tail(batch[s]) /\ log' = log
        /\ cursor'[s] = Head(batch[s]) /\ at' = at /\ at[s] = "replay"
    BY <1>2, <1>9 DEF Replay, Sends
  <2>2. /\ Head(batch[s]) = batch[s][1] /\ 1 \in DOMAIN batch[s]
        /\ Len(Tail(batch[s])) = Len(batch[s]) - 1
        /\ \A i \in DOMAIN Tail(batch[s]) :
              i \in Nat /\ i + 1 \in DOMAIN batch[s]
              /\ Tail(batch[s])[i] = batch[s][i + 1]
    BY <1>2, <2>1, HeadIs
  <2>3. cursor'[s] = cursor[s] + 1
    BY <1>1, <2>1, <2>2
  <2>4. \A i \in DOMAIN Tail(batch[s]) :
           Tail(batch[s])[i] = cursor'[s] + i
    <3>1. \A i \in DOMAIN Tail(batch[s]) :
             Tail(batch[s])[i] = cursor[s] + (i + 1) /\ i \in Nat
      BY <1>1, <2>2
    <3> QED
      BY <1>2, <2>3, <3>1
  <2>5. cursor'[s] + Len(batch'[s]) <= Len(log')
    BY <1>1, <1>2, <2>1, <2>2, <2>3
  <2> QED
    BY <2>1, <2>4, <2>5
<1>10. CASE Take(s)
  <2>1. /\ queue[s] # <<>> /\ batch' = batch /\ log' = log
        /\ cursor'[s] \in {cursor[s], Head(queue[s])} /\ at[s] = "live"
    BY <1>2, <1>10 DEF Take, Sends
  <2>2. Head(queue[s]) \in Nat /\ Head(queue[s]) <= Len(log)
    <3>1. /\ Head(queue[s]) = queue[s][1] /\ 1 \in DOMAIN queue[s]
          /\ Head(queue[s]) \in Seqs
      BY <1>2, <2>1, HeadIs
    <3> QED
      BY <3>1, PendingSeqs DEF Inv, Bus
  <2> QED
    BY <1>1, <1>2, <1>3, <2>1, <2>2
<1> QED
  BY <1>4, <1>5, <1>6, <1>7, <1>8, <1>9, <1>10 DEF Stream

\* What goes by a live stream is in its queue, to be published or overtaken.
LEMMA CoveredStep == Inv /\ [Next]_vars => Covered'
<1> SUFFICES ASSUME Inv, [Next]_vars, NEW s \in Streams,
                    at'[s] \in {"live", "checking"}
             PROVE  /\ \A i \in DOMAIN queue'[s] : \A m \in Seqs :
                          cursor'[s] < m /\ m < queue'[s][i] =>
                             m \in ToSet(queue'[s]) \cup overtaken'
                    /\ subscribed'[s] => \A m \in Seqs :
                          cursor'[s] < m /\ m <= Len(log') =>
                             m \in ToSet(queue'[s]) \cup Pending'
  BY DEF Covered
<1>1. at[s] \in {"live", "checking"} =>
         /\ \A i \in DOMAIN queue[s] : \A m \in Seqs :
               cursor[s] < m /\ m < queue[s][i] =>
                   m \in ToSet(queue[s]) \cup overtaken
         /\ subscribed[s] => \A m \in Seqs :
               cursor[s] < m /\ m <= Len(log) =>
                   m \in ToSet(queue[s]) \cup Pending
  BY DEF Inv, Covered
<1>2. /\ cursor[s] \in Nat /\ cursor[s] <= Len(log) /\ Len(log) \in Nat
      /\ queue[s] \in Seq(Seqs) /\ DOMAIN at = Streams
      /\ DOMAIN queue = Streams /\ DOMAIN cursor = Streams
      /\ DOMAIN subscribed = Streams
  BY StreamIs
<1>3. (\A n \in Seqs : n \in Nat) /\ overtaken \subseteq overtaken'
  BY PendingSeqs, PendingMoves
<1>4. CASE ~(Stream(s) \/ Connect(s) \/ Disconnect(s))
  <2>1. at'[s] = at[s] /\ cursor'[s] = cursor[s]
    BY <1>4, Still
  <2>2. ASSUME NEW p \in Appenders, Publish(p)
        PROVE  /\ \A i \in DOMAIN queue'[s] : \A m \in Seqs :
                     cursor[s] < m /\ m < queue'[s][i] =>
                         m \in ToSet(queue'[s]) \cup overtaken'
               /\ subscribed'[s] => \A m \in Seqs :
                     cursor[s] < m /\ m <= Len(log') =>
                         m \in ToSet(queue'[s]) \cup Pending'
    <3> DEFINE n == Head(unpublished[p])
               new == Append(queue[s], n)
    <3>1. /\ n \in Seqs /\ n \in Pending /\ n <= Len(log)
          /\ \A m \in Pending : m < n => m \in overtaken'
          /\ subscribed'[s] => subscribed[s] /\ queue'[s] = new
          /\ queue'[s] \in {queue[s], new}
          /\ queue'[s] = new => queue'[s] = queue[s] \/ subscribed[s]
      <4>1. queue'[s] = IF subscribed[s] /\ ~(Len(queue[s]) >= QueueMax)
                        THEN new ELSE queue[s]
        BY <2>2, Zenon DEF Publish
      <4> QED
        BY <2>2, <4>1, PublishReaches
    <3>2. log' = log /\ \A m \in Pending : m = n \/ m \in Pending'
      BY <2>2, PendingMoves DEF Publish
    <3> HIDE DEF n
    <3>3. /\ \A i \in DOMAIN new :
                i \in DOMAIN queue[s] \/ i = Len(queue[s]) + 1
          /\ \A i \in DOMAIN queue[s] : new[i] = queue[s][i]
          /\ new[Len(queue[s]) + 1] = n
          /\ ToSet(new) = ToSet(queue[s]) \cup {n}
      BY <1>2, <3>1, AppendIs
    <3> HIDE DEF new
    <3>4. CASE queue'[s] = new /\ subscribed[s]
      <4>1. ASSUME NEW i \in DOMAIN new, NEW m \in Seqs, cursor[s] < m,
                   m < new[i]
            PROVE  m \in ToSet(new) \cup overtaken'
        <5>1. CASE i \in DOMAIN queue[s]
          BY <1>1, <1>3, <2>1, <3>3, <4>1, <5>1
        <5>2. CASE i = Len(queue[s]) + 1
          <6>1. m < n /\ m <= Len(log)
            BY <1>2, <1>3, <3>1, <3>3, <4>1, <5>2
          <6>2. m \in ToSet(queue[s]) \cup Pending
            BY <1>1, <2>1, <3>4, <4>1, <6>1
          <6> QED
            BY <3>1, <3>3, <6>1, <6>2
        <5> QED
          BY <3>3, <5>1, <5>2
      <4>2. ASSUME NEW m \in Seqs, cursor[s] < m, m <= Len(log')
            PROVE  m \in ToSet(new) \cup Pending'
        BY <1>1, <2>1, <3>2, <3>3, <3>4, <4>2
      <4> QED
        BY <3>4, <4>1, <4>2
    <3>5. CASE queue'[s] = queue[s]
      <4>1. CASE ~subscribed'[s]
        BY <1>1, <1>3, <2>1, <3>5, <4>1
      <4>2. CASE subscribed'[s]
        BY <3>1, <3>4, <4>2
      <4> QED
        BY <4>1, <4>2
    <3> QED
      BY <3>1, <3>4, <3>5
  <2>3. CASE queue'[s] = queue[s] /\ subscribed'[s] = subscribed[s]
             /\ ~\E p \in Appenders : Publish(p)
    <3>1. \A m \in Seqs : m <= Len(log') /\ ~(m <= Len(log)) => m \in Pending'
      <4>1. Appending \/ log' = log
        BY <2>3, Steps DEF EmitInState, RunFinishes
      <4> QED
        BY <1>2, <1>3, <4>1, PendingMoves
    <3>2. \A m \in Pending : m \in Pending'
      BY <2>3, Steps, PendingMoves
    <3> QED
      BY <1>1, <1>3, <2>1, <2>3, <3>1, <3>2
  <2> QED
    BY <1>4, <2>1, <2>2, <2>3, Still
<1>5. CASE Stream(s) \/ Connect(s) \/ Disconnect(s)
  <2>1. Pending' = Pending /\ log' = log /\ overtaken' = overtaken
    <3>1. Streaming
      BY <1>5 DEF Streaming
    <3> QED
      BY <3>1, Steps, PendingMoves DEF pubVars
  <2>2. CASE ReadBatch(s)
    <3>1. ~(cursor[s] < Len(log)) /\ queue' = queue /\ cursor' = cursor
      BY <1>2, <2>2 DEF ReadBatch, busVars
    <3>2. \A i \in DOMAIN queue[s] :
             queue[s][i] \in Seqs /\ queue[s][i] <= Len(log)
      BY <1>2 DEF Inv, Bus
    <3> QED
      BY <1>2, <1>3, <2>1, <3>1, <3>2
  <2>3. CASE Heartbeat(s) \/ CheckComplete(s)
    <3>1. /\ queue' = queue /\ cursor' = cursor
          /\ at[s] \in {"live", "checking"}
          /\ subscribed'[s] => subscribed[s]
      BY <1>2, <2>3 DEF Heartbeat, CheckComplete, busVars
    <3> QED
      BY <1>1, <2>1, <3>1
  <2>4. CASE Take(s)
    <3> DEFINE n == Head(queue[s])
               rest == Tail(queue[s])
    <3>1. /\ queue[s] # <<>> /\ at[s] = "live" /\ subscribed' = subscribed
          /\ queue'[s] = rest
          /\ cursor'[s] = IF n > cursor[s] THEN n ELSE cursor[s]
      BY <1>2, <2>4 DEF Take, Sends
    <3>2. /\ n \in Seqs /\ n = queue[s][1]
          /\ \A i \in DOMAIN rest :
                i + 1 \in DOMAIN queue[s] /\ rest[i] = queue[s][i + 1]
          /\ \A i \in DOMAIN queue[s] : i # 1 =>
                i - 1 \in DOMAIN rest /\ rest[i - 1] = queue[s][i]
      BY <1>2, <3>1, HeadIs
    <3> HIDE DEF n, rest
    <3>3. \A m \in ToSet(queue[s]) : m = n \/ m \in ToSet(rest)
      BY <3>2 DEF ToSet
    <3>4. \A m \in Seqs : cursor'[s] < m => cursor[s] < m /\ m # n
      BY <1>2, <1>3, <3>1, <3>2
    <3> QED
      BY <1>1, <2>1, <3>1, <3>2, <3>3, <3>4
  <2>5. CASE TakeLock(s) \/ FillDone(s) \/ Subscribe(s) \/ Connect(s)
             \/ Disconnect(s)
    BY <1>2, <2>5
       DEF TakeLock, FillDone, Subscribe, Connect, Disconnect, Moves
  <2>6. CASE Replay(s)
    BY <1>2, <2>6 DEF Replay
  <2> QED
    BY <1>5, <2>2, <2>3, <2>4, <2>5, <2>6 DEF Stream
<1> QED
  BY <1>4, <1>5

\* A frame above the cursor keeps what the client has in order.
LEMMA SendKeeps ==
    ASSUME NEW q \in Seq(Seqs), NEW n \in Seqs, NEW c \in Nat, c < n,
           \A i \in DOMAIN q : q[i] <= c,
           \A i, j \in DOMAIN q : i < j => q[i] < q[j]
    PROVE  /\ \A i \in DOMAIN Append(q, n) : Append(q, n)[i] <= n
           /\ \A i, j \in DOMAIN Append(q, n) :
                 i < j => Append(q, n)[i] < Append(q, n)[j]
<1> DEFINE new == Append(q, n)
<1>1. /\ DOMAIN new = 1..(Len(q) + 1) /\ Len(q) \in Nat
      /\ DOMAIN q = 1..Len(q)
      /\ \A i \in DOMAIN q : new[i] = q[i]
      /\ new[Len(q) + 1] = n
      /\ \A i \in DOMAIN new : i \in DOMAIN q \/ i = Len(q) + 1
  BY AppendIs
<1> HIDE DEF new
<1>2. n \in Nat /\ \A i \in DOMAIN q : q[i] \in Nat /\ q[i] < n
  <2>1. n \in Nat /\ \A i \in DOMAIN q : q[i] \in Nat
    BY PendingSeqs
  <2> QED
    BY <2>1
<1>3. \A i \in DOMAIN new : new[i] <= n
  BY <1>1, <1>2
<1>4. ASSUME NEW i \in DOMAIN new, NEW j \in DOMAIN new, i < j
      PROVE  new[i] < new[j]
  <2>1. i \in DOMAIN q
    BY <1>1, <1>4
  <2> QED
    BY <1>1, <1>2, <1>4, <2>1
<1> QED
  BY <1>3, <1>4 DEF new

\* Whatever is sent is above the cursor, and nothing between is left out.
LEMMA SentStep == Inv /\ [Next]_vars => Sent'
<1> SUFFICES ASSUME Inv, [Next]_vars, NEW s \in Streams
             PROVE  /\ \A i \in DOMAIN frames'[s] : frames'[s][i] <= cursor'[s]
                    /\ \A i, j \in DOMAIN frames'[s] :
                          i < j => frames'[s][i] < frames'[s][j]
                    /\ 1..cursor'[s]
                          \subseteq ToSet(frames'[s]) \cup overtaken'
  BY DEF Sent
<1>1. /\ \A i \in DOMAIN frames[s] : frames[s][i] <= cursor[s]
      /\ \A i, j \in DOMAIN frames[s] : i < j => frames[s][i] < frames[s][j]
      /\ 1..cursor[s] \subseteq ToSet(frames[s]) \cup overtaken
  BY DEF Inv, Sent
<1>2. /\ cursor[s] \in Nat /\ cursor[s] <= Len(log) /\ Len(log) \in Nat
      /\ batch[s] \in Seq(Seqs) /\ queue[s] \in Seq(Seqs)
      /\ frames[s] \in Seq(Seqs)
      /\ DOMAIN cursor = Streams /\ DOMAIN frames = Streams
  BY StreamIs
<1>3. (\A n \in Seqs : n \in Nat) /\ overtaken \subseteq overtaken'
  BY PendingSeqs, PendingMoves
<1>4. CASE UNCHANGED <<cursor[s], frames[s]>>
  BY <1>1, <1>3, <1>4
<1>5. CASE Replay(s)
  <2> DEFINE n == Head(batch[s])
  <2>1. /\ batch[s] # <<>> /\ cursor'[s] = n
        /\ frames'[s] = Append(frames[s], n)
    BY <1>2, <1>5 DEF Replay, Sends
  <2>2. n \in Seqs /\ n = cursor[s] + 1
    <3>1. n \in Seqs /\ n = batch[s][1] /\ 1 \in DOMAIN batch[s]
      BY <1>2, <2>1, HeadIs
    <3> QED
      BY <3>1 DEF Inv, Replays
  <2> HIDE DEF n
  <2>3. ToSet(Append(frames[s], n)) = ToSet(frames[s]) \cup {n}
    BY <1>2, <2>2, AppendIs
  <2>4. \A m \in 1..n : m = n \/ m \in 1..cursor[s]
    BY <1>2, <2>2
  <2>5. cursor[s] < n
    BY <1>2, <2>2
  <2> QED
    BY <1>1, <1>2, <1>3, <2>1, <2>2, <2>3, <2>4, <2>5, SendKeeps
<1>6. CASE Take(s) /\ Head(queue[s]) > cursor[s]
  <2> DEFINE n == Head(queue[s])
  <2>1. /\ queue[s] # <<>> /\ cursor'[s] = n /\ at[s] = "live"
        /\ frames'[s] = Append(frames[s], n)
    BY <1>2, <1>6 DEF Take, Sends
  <2>2. /\ n \in Seqs /\ n = queue[s][1] /\ 1 \in DOMAIN queue[s]
        /\ cursor[s] < n /\ n <= Len(log)
    <3>1. n \in Seqs /\ n = queue[s][1] /\ 1 \in DOMAIN queue[s]
      BY <1>2, <2>1, HeadIs
    <3>2. n <= Len(log)
      BY <3>1 DEF Inv, Bus
    <3>3. n \in Nat /\ cursor[s] < n
      BY <1>2, <1>3, <1>6, <3>1
    <3> QED
      BY <3>1, <3>2, <3>3
  <2> HIDE DEF n
  <2>3. ToSet(Append(frames[s], n)) = ToSet(frames[s]) \cup {n}
    BY <1>2, <2>2, AppendIs
  <2>4. ASSUME NEW m \in 1..n, m # n, m \notin 1..cursor[s]
        PROVE  m \in overtaken
    <3>1. m \in Seqs /\ cursor[s] < m /\ m < n
      <4>1. n \in Nat /\ m \in 1..Len(log)
        BY <1>2, <1>3, <2>2
      <4> QED
        BY <1>2, <2>4, <4>1, LogRoom
    <3>2. m \in ToSet(queue[s]) \cup overtaken
      BY <2>1, <2>2, <3>1 DEF Inv, Covered
    <3>3. CASE m \in ToSet(queue[s])
      <4>1. PICK j \in DOMAIN queue[s] : queue[s][j] = m
        BY <3>3 DEF ToSet
      <4>2. j # 1 /\ j \in Nat /\ j > 0
        BY <1>2, <2>2, <2>4, <4>1
      <4>3. 1 < j /\ queue[s][j] < queue[s][1]
        BY <2>2, <3>1, <4>1, <4>2
      <4> QED
        BY <2>2, <4>1, <4>3 DEF Inv, Bus
    <3> QED
      BY <3>2, <3>3
  <2> QED
    BY <1>1, <1>2, <1>3, <2>1, <2>2, <2>3, <2>4, SendKeeps
<1>7. UNCHANGED <<cursor[s], frames[s]>> \/ Replay(s)
      \/ (Take(s) /\ Head(queue[s]) > cursor[s])
  <2>1. CASE ~(Stream(s) \/ Connect(s) \/ Disconnect(s))
    BY <2>1, Still
  <2>2. CASE Stream(s) \/ Connect(s) \/ Disconnect(s)
    BY <2>2 DEF Stream, TakeLock, FillDone, Subscribe, ReadBatch, Take,
       Heartbeat, CheckComplete, Connect, Disconnect
  <2> QED
    BY <2>1, <2>2
<1> QED
  BY <1>4, <1>5, <1>6, <1>7

-----------------------------------------------------------------------------
(* The lock, the backfill and the end of the run *)

\* What Locks and Ending say, with the types they are about.
LEMMA Facts ==
    ASSUME Inv
    PROVE  /\ log \in Seq(Entry) /\ Len(log) \in Nat
           /\ log = <<>> <=> Len(log) = 0
           /\ old \in Nat /\ atFinish \in Nat /\ finished \in BOOLEAN
           /\ poll.since \in Nat /\ DOMAIN at = Streams
           /\ poll \in [at : {"idle", "filling", "reading", "stopped"},
                        since : {0} \cup Seqs, complete : BOOLEAN]
           /\ old > 0 => finished /\ Len(log) <= old /\ atFinish = old
           /\ Filling <=> (lock \in Streams \/ poll.at = "filling")
           /\ \A s \in Streams : at[s] = "filling" <=> lock = s
           /\ lock = "poll" <=> poll.at \in {"filling", "reading"}
<1>1. /\ log \in Seq(Entry) /\ old \in {0, OldEvents}
      /\ atFinish \in {0} \cup Seqs
      /\ poll \in [at : {"idle", "filling", "reading", "stopped"},
                   since : {0} \cup Seqs, complete : BOOLEAN]
      /\ finished \in BOOLEAN /\ DOMAIN at = Streams
  BY DEF Inv, TypeOK, Entry
<1>2. old \in Nat /\ atFinish \in Nat /\ poll.since \in Nat
  BY <1>1, Numbers, PendingSeqs
<1>3. Len(log) \in Nat /\ (log = <<>> <=> Len(log) = 0)
  BY <1>1
<1>4. /\ \A s \in Streams : at[s] = "filling" <=> lock = s
      /\ lock = "poll" <=> poll.at \in {"filling", "reading"}
  BY DEF Inv, Locks
<1>5. Filling <=> (lock \in Streams \/ poll.at = "filling")
  BY <1>4, Parties DEF Filling
<1>6. old > 0 => finished /\ Len(log) <= old /\ atFinish = old
  BY DEF Inv, Counts, Ending
<1> QED
  BY <1>1, <1>2, <1>3, <1>4, <1>5, <1>6

\* What an append leaves: of an old session only the backfill appends.
LEMMA AppendKeeps ==
    ASSUME Inv, Appending
    PROVE  /\ UNCHANGED <<lock, streamVars, busVars, poll, old, finished,
                          atFinish>>
           /\ grew' = grew \cup {s \in Streams : at[s] = "checking"}
           /\ old > 0 => BackfillAppends
           /\ ~finished \/ UNCHANGED node
<1>1. /\ UNCHANGED <<lock, streamVars, busVars, poll>>
      /\ grew' = grew \cup {s \in Streams : at[s] = "checking"}
  BY Appended, CommitMakes DEF Inv
<1>2. UNCHANGED <<old, finished, atFinish>> /\ (~finished \/ UNCHANGED node)
  BY DEF Appending, EmitLive, NodeEnds, BackfillAppends, ApiAppends, runVars
<1>3. EmitLive \/ NodeEnds => ~finished
  BY DEF EmitLive, NodeEnds
<1>4. \A c \in Calls : ApiAppends(c) => old = 0
  BY DEF ApiAppends
<1>5. old > 0 => BackfillAppends
  BY <1>3, <1>4, Facts DEF Appending
<1> QED
  BY <1>1, <1>2, <1>5

\* The lock has one holder, and a backfill ends before it is released.
LEMMA LocksStep == Inv /\ [Next]_vars => Locks'
<1> SUFFICES ASSUME Inv, [Next]_vars PROVE Locks'
  OBVIOUS
<1> DEFINE Begun == /\ Filling \/ log = <<>> \/ Len(log) = old
                    /\ poll.at = "reading" => log # <<>>
                    /\ \A s \in Streams :
                          at[s] \in Open \cup {"fresh"} => log # <<>>
<1>1. /\ \A s \in Streams : at[s] = "filling" <=> lock = s
      /\ lock = "poll" <=> poll.at \in {"filling", "reading"}
      /\ poll.since <= Len(log)
      /\ old > 0 => Begun
  BY DEF Inv, Locks
<1>2. /\ old' = old /\ old \in Nat /\ Len(log) \in Nat /\ Len(log') \in Nat
      /\ Len(log) <= Len(log')
      /\ log = <<>> <=> Len(log) = 0
      /\ log' = <<>> <=> Len(log') = 0
      /\ poll.since \in Nat /\ DOMAIN at = Streams
      /\ old > 0 => Len(log) <= old
      /\ Filling <=> (lock \in Streams \/ poll.at = "filling")
  BY Facts, RunType
<1>3. Free \notin Streams /\ "poll" \notin Streams /\ Free # "poll"
  BY Parties
<1>4. CASE Appending
  <2>1. /\ lock' = lock /\ at' = at /\ poll' = poll
        /\ old > 0 => BackfillAppends
    BY <1>4, AppendKeeps DEF streamVars
  <2>2. Filling' = Filling
    BY <2>1 DEF Filling
  <2>3. BackfillAppends => Filling
    BY DEF BackfillAppends
  <2>4. log # <<>> => log' # <<>>
    BY <1>2
  <2>5. old > 0 => Begun'
    BY <1>1, <2>1, <2>2, <2>3, <2>4
  <2> QED
    BY <1>1, <1>2, <2>1, <2>5 DEF Locks
<1>5. CASE UNCHANGED <<log, lock, at, poll>>
  <2>1. Filling' = Filling
    BY <1>5 DEF Filling
  <2> QED
    BY <1>1, <1>2, <1>5, <2>1 DEF Locks
<1>6. ASSUME NEW t \in Streams, TakeLock(t)
      PROVE  Locks'
  <2>1. /\ at[t] = "waiting" /\ lock = Free /\ poll' = poll /\ log' = log
        /\ at' = [at EXCEPT ![t] = IF log = <<>> THEN "filling" ELSE "fresh"]
        /\ lock' = IF log = <<>> THEN t ELSE lock
    BY <1>6 DEF TakeLock, Moves
  <2>2. ~Filling
    BY <1>1, <1>2, <1>3, <2>1
  <2>3. \A s \in Streams : at'[s] = "filling" <=> lock' = s
    BY <1>1, <1>2, <1>3, <2>1
  <2>4. lock' = "poll" <=> poll'.at \in {"filling", "reading"}
    BY <1>1, <1>3, <2>1
  <2>5. old > 0 => Begun'
    BY <1>1, <1>2, <2>1, <2>2 DEF Open
  <2> QED
    BY <1>1, <1>2, <2>1, <2>3, <2>4, <2>5 DEF Locks
<1>7. ASSUME NEW t \in Streams, FillDone(t)
      PROVE  Locks'
  <2>1. /\ at[t] = "filling" /\ Len(log) >= old /\ lock' = Free
        /\ poll' = poll /\ log' = log /\ at' = [at EXCEPT ![t] = "fresh"]
    BY <1>7 DEF FillDone, Moves, Filled
  <2>2. lock = t /\ poll.at \notin {"filling", "reading"}
    BY <1>1, <1>3, <2>1
  <2>3. \A s \in Streams : at'[s] = "filling" <=> lock' = s
    BY <1>1, <1>2, <1>3, <2>1, <2>2
  <2>4. old > 0 => Begun'
    BY <1>1, <1>2, <2>1
  <2> QED
    BY <1>1, <1>2, <1>3, <2>1, <2>2, <2>3, <2>4 DEF Locks
<1>8. ASSUME NEW t \in Streams, NEW step, at' = [at EXCEPT ![t] = step],
             UNCHANGED <<log, lock, poll>>, step # "filling",
             at[t] # "filling",
             old > 0 /\ step \in Open \cup {"fresh"} => log # <<>>
      PROVE  Locks'
  <2>1. \A s \in Streams : at'[s] = IF s = t THEN step ELSE at[s]
    BY <1>2, <1>8
  <2>2. Filling' = Filling
    <3>1. lock \in Streams => (at'[lock] = "filling" <=> at[lock] = "filling")
      BY <1>8, <2>1
    <3> QED
      BY <1>8, <3>1 DEF Filling
  <2>3. \A s \in Streams : at'[s] = "filling" <=> lock' = s
    BY <1>1, <1>8, <2>1
  <2>4. old > 0 => Begun'
    <3>1. ASSUME old > 0, NEW s \in Streams, at'[s] \in Open \cup {"fresh"}
          PROVE  log' # <<>>
      <4>1. CASE s = t
        BY <1>8, <2>1, <3>1, <4>1
      <4>2. CASE s # t
        <5>1. at[s] \in Open \cup {"fresh"}
          BY <2>1, <3>1, <4>2
        <5> QED
          BY <1>1, <1>8, <3>1, <5>1
      <4> QED
        BY <4>1, <4>2
    <3>2. ASSUME old > 0
          PROVE  /\ Filling' \/ log' = <<>> \/ Len(log') = old'
                 /\ poll'.at = "reading" => log' # <<>>
      BY <1>1, <1>2, <1>8, <2>2, <3>2
    <3> QED
      BY <3>1, <3>2
  <2> QED
    BY <1>1, <1>2, <1>8, <2>3, <2>4 DEF Locks
<1>9. ASSUME NEW t \in Streams, Connect(t)
      PROVE  Locks'
  <2> DEFINE step == IF cursor[t] = 0 /\ log = <<>> THEN "waiting" ELSE "fresh"
  <2>1. /\ at' = [at EXCEPT ![t] = step] /\ UNCHANGED <<log, lock, poll>>
        /\ at[t] = "off"
    BY <1>9 DEF Connect, Moves
  <2>2. step = "fresh" => log # <<>>
    BY <1>2, StreamIs
  <2>3. step \in {"waiting", "fresh"}
    OBVIOUS
  <2> HIDE DEF step
  <2>4. step # "filling" /\ (step \in Open \cup {"fresh"} => log # <<>>)
    BY <2>2, <2>3 DEF Open
  <2> QED
    BY <1>8, <2>1, <2>4
<1>10. ASSUME NEW t \in Streams,
              \/ Subscribe(t) \/ ReadBatch(t) \/ Replay(t) \/ Take(t)
              \/ Heartbeat(t) \/ CheckComplete(t) \/ Disconnect(t)
       PROVE  Locks'
  <2>1. \/ UNCHANGED <<log, lock, at, poll>>
        \/ /\ UNCHANGED <<log, lock, poll>>
           /\ at[t] \in Open \cup {"fresh"}
           /\ \E step \in Open \cup {"done", "off"} :
                 at' = [at EXCEPT ![t] = step]
    <3>1. CASE Subscribe(t) \/ Heartbeat(t) \/ Disconnect(t)
      BY <3>1 DEF Subscribe, Heartbeat, Disconnect, Moves, Open
    <3>2. CASE CheckComplete(t)
      <4>1. (IF finished THEN "done" ELSE "live") \in Open \cup {"done", "off"}
        BY DEF Open
      <4> QED
        BY <3>2, <4>1 DEF CheckComplete, Moves, Open
    <3>3. CASE ReadBatch(t)
      BY <3>3 DEF ReadBatch, Moves, Open
    <3>4. CASE Replay(t) \/ Take(t)
      BY <3>4 DEF Replay, Take
    <3> QED
      BY <1>10, <3>1, <3>2, <3>3, <3>4
  <2>2. CASE UNCHANGED <<log, lock, at, poll>>
    BY <1>5, <2>2
  <2>3. ASSUME UNCHANGED <<log, lock, poll>>, at[t] \in Open \cup {"fresh"},
               NEW step \in Open \cup {"done", "off"},
               at' = [at EXCEPT ![t] = step]
        PROVE  Locks'
    <3>1. at[t] # "filling" /\ step # "filling"
      BY <2>3 DEF Open
    <3>2. old > 0 => log # <<>>
      BY <1>1, <2>3
    <3> QED
      BY <1>8, <2>3, <3>1, <3>2
  <2> QED
    BY <2>1, <2>2, <2>3
<1>11. CASE PollStarts
  <2>1. /\ lock = Free /\ lock' = "poll" /\ log' = log /\ at' = at
        /\ poll'.at = IF poll.since = 0 /\ log = <<>>
                      THEN "filling" ELSE "reading"
        /\ poll'.since = poll.since
    BY <1>11, Facts DEF PollStarts, streamVars
  <2>2. ~Filling
    BY <1>1, <1>2, <1>3, <2>1
  <2>3. \A s \in Streams : at'[s] = "filling" <=> lock' = s
    BY <1>1, <1>3, <2>1
  <2>4. poll'.at = "reading" => log # <<>>
    BY <1>1, <1>2, <2>1
  <2>5. old > 0 => Begun'
    BY <1>1, <1>2, <2>1, <2>2, <2>4
  <2> QED
    BY <1>1, <1>2, <2>1, <2>3, <2>5 DEF Locks
<1>12. CASE PollFilled
  <2>1. /\ poll.at = "filling" /\ Len(log) >= old
        /\ poll'.at = "reading" /\ poll'.since = poll.since
        /\ lock' = lock /\ log' = log /\ at' = at
    BY <1>12, Facts DEF PollFilled, Filled, streamVars
  <2>2. old > 0 => Begun'
    BY <1>1, <1>2, <2>1
  <2> QED
    BY <1>1, <1>2, <2>1, <2>2 DEF Locks
<1>13. CASE PollReads
  <2>1. /\ poll.at = "reading" /\ poll'.at \in {"stopped", "idle"}
        /\ poll'.since = PageEnd(poll.since)
        /\ lock' = Free /\ log' = log /\ at' = at
    BY <1>13, Facts DEF PollReads, streamVars
  <2>2. lock = "poll"
    BY <1>1, <2>1
  <2>3. \A s \in Streams : at'[s] = "filling" <=> lock' = s
    BY <1>1, <1>3, <2>1, <2>2
  <2>4. PageEnd(poll.since) <= Len(log)
    BY <1>1, <1>2, PageIs
  <2>5. ~Filling
    BY <1>1, <1>2, <1>3, <2>1, <2>2
  <2>6. old > 0 => Begun'
    BY <1>1, <1>2, <2>1, <2>5
  <2> QED
    BY <1>2, <1>3, <2>1, <2>3, <2>4, <2>6 DEF Locks
<1>14. EmitInState \/ RunFinishes \/ (\E p \in Appenders : Publish(p))
          \/ UNCHANGED vars => UNCHANGED <<log, lock, at, poll>>
  BY DEF EmitInState, RunFinishes, Publish, vars, streamVars
<1> HIDE DEF Begun
<1>15. Streaming => Locks'
  BY <1>6, <1>7, <1>9, <1>10 DEF Streaming, Stream
<1>16. Poll => Locks'
  BY <1>11, <1>12, <1>13 DEF Poll
<1> QED
  BY <1>4, <1>5, <1>14, <1>15, <1>16, Steps

\* A stream or a poll that is told the end stands at the end.
LEMMA EndingStep == Inv /\ [Next]_vars => Ending'
<1> SUFFICES ASSUME Inv, [Next]_vars PROVE Ending'
  OBVIOUS
<1>1. /\ old > 0 => finished /\ atFinish = old
      /\ old = 0 /\ finished => atFinish <= Len(log)
      /\ ~finished => atFinish = 0
      /\ finished => node = <<>>
      /\ poll.complete => finished
      /\ poll.at = "stopped" => poll.complete /\ poll.since >= atFinish
      /\ \A s \in Streams :
            /\ at[s] = "checking" /\ s \notin grew => cursor[s] >= Len(log)
            /\ at[s] = "done" => finished
            /\ at[s] = "done" /\ s \notin grew => cursor[s] >= atFinish
  BY DEF Inv, Ending
<1>2. /\ old' = old /\ old \in Nat /\ Len(log) \in Nat /\ Len(log') \in Nat
      /\ Len(log) <= Len(log') /\ atFinish \in Nat
      /\ finished \in BOOLEAN /\ DOMAIN at = Streams
  BY Facts, RunType
\* Who may look has a table that holds at least the run's timeline.
<1>3. /\ \A s \in Streams : at[s] = "checking" /\ finished /\ ~Filling =>
            atFinish <= Len(log)
      /\ poll.at = "reading" /\ finished => atFinish <= Len(log)
  <2>1. old > 0 => /\ Filling \/ log = <<>> \/ Len(log) = old
                   /\ poll.at = "reading" => log # <<>>
                   /\ \A s \in Streams : at[s] = "checking" => log # <<>>
    BY DEF Inv, Locks, Open
  <2>2. poll.at = "reading" => ~Filling
    <3>1. lock = "poll" <=> poll.at \in {"filling", "reading"}
      BY Facts
    <3> QED
      BY <3>1, Facts, Parties
  <2> QED
    BY <1>1, <1>2, <2>1, <2>2
<1>4. CASE finished' = finished /\ atFinish' = atFinish
  <2>1. finished => node' = <<>>
    <3>1. EmitInState \/ RunFinishes => ~finished
      BY DEF EmitInState, RunFinishes
    <3>2. UNCHANGED runVars => UNCHANGED node
      BY DEF runVars
    <3> QED
      BY <1>1, <3>1, <3>2, AppendKeeps, Steps
  <2>2. /\ poll'.complete => finished
        /\ poll'.at = "stopped" => poll'.complete /\ poll'.since >= atFinish
    <3>1. CASE PollStarts
      <4>1. poll'.complete = finished /\ poll'.at # "stopped"
        BY <3>1, Facts DEF PollStarts
      <4> QED
        BY <4>1
    <3>2. CASE PollFilled
      <4>1. poll'.complete = poll.complete /\ poll'.at # "stopped"
        BY <3>2, Facts DEF PollFilled
      <4> QED
        BY <1>1, <4>1
    <3>3. CASE PollReads
      <4>1. /\ poll'.complete = poll.complete /\ poll.at = "reading"
            /\ poll'.since = PageEnd(poll.since)
            /\ poll'.at = "stopped" =>
                  PageEnd(poll.since) = poll.since /\ poll.complete
        BY <3>3, Facts DEF PollReads
      <4>2. PageEnd(poll.since) = poll.since => poll.since = Len(log)
        BY Facts, PageIs DEF Inv, Locks
      <4> QED
        BY <1>1, <1>2, <1>3, <4>1, <4>2
    <3>4. CASE poll' = poll
      BY <1>1, <3>4
    <3>5. Streaming => poll' = poll
      BY DEF Streaming, Stream, TakeLock, FillDone, Subscribe, ReadBatch,
         Replay, Take, Heartbeat, CheckComplete, Connect, Disconnect
    <3>6. EmitInState \/ RunFinishes \/ (\E p \in Appenders : Publish(p))
             \/ UNCHANGED vars => poll' = poll
      BY DEF EmitInState, RunFinishes, Publish, vars
    <3> QED
      BY <3>1, <3>2, <3>3, <3>4, <3>5, <3>6, Steps, AppendKeeps DEF Poll
  <2>3. ASSUME NEW s \in Streams
        PROVE  /\ at'[s] = "checking" /\ s \notin grew' =>
                     cursor'[s] >= Len(log')
               /\ at'[s] = "done" => finished
               /\ at'[s] = "done" /\ s \notin grew' => cursor'[s] >= atFinish
    <3>1. cursor[s] \in Nat
      BY StreamIs
    <3>2. CASE Stream(s) \/ Connect(s) \/ Disconnect(s)
      <4>1. log' = log
        <5>1. Streaming
          BY <3>2 DEF Streaming
        <5> QED
          BY <5>1, Steps
      <4>2. CASE Heartbeat(s)
        BY <1>2, <4>1, <4>2 DEF Heartbeat, Moves
      <4>3. CASE CheckComplete(s)
        <5>1. /\ at[s] = "checking" /\ cursor' = cursor
              /\ at'[s] = IF finished THEN "done" ELSE "live"
              /\ s \notin grew' /\ finished => s \notin grew /\ ~Filling
          BY <1>2, <4>3 DEF CheckComplete, Moves
        <5> QED
          BY <1>1, <1>2, <1>3, <3>1, <5>1
      <4>4. CASE TakeLock(s) \/ FillDone(s) \/ Subscribe(s) \/ Connect(s)
                 \/ Disconnect(s)
        <5>1. at'[s] \in {"filling", "fresh", "replay", "waiting", "off"}
          BY <1>2, <4>4
             DEF TakeLock, FillDone, Subscribe, Connect, Disconnect, Moves
        <5> QED
          BY <5>1
      <4>5. CASE ReadBatch(s) \/ Replay(s) \/ Take(s)
        <5>1. at'[s] \in {"replay", "live"}
          BY <1>2, <4>5 DEF ReadBatch, Replay, Take, Moves
        <5> QED
          BY <5>1
      <4> QED
        BY <3>2, <4>2, <4>3, <4>4, <4>5 DEF Stream
    <3>3. CASE ~(Stream(s) \/ Connect(s) \/ Disconnect(s))
      <4>1. at'[s] = at[s] /\ cursor'[s] = cursor[s]
        BY <3>3, Still
      <4>2. s \in grew => s \in grew'
        <5>1. \A t \in Streams : t # s /\
                 (Stream(t) \/ Connect(t) \/ Disconnect(t)) =>
                    (s \in grew <=> s \in grew')
          BY DEF Stream, TakeLock, FillDone, Subscribe, ReadBatch, Replay,
             Take, Heartbeat, CheckComplete, Connect, Disconnect
        <5>2. Streaming => (s \in grew <=> s \in grew')
          BY <3>3, <5>1 DEF Streaming
        <5>3. EmitInState \/ RunFinishes \/ (\E p \in Appenders : Publish(p))
                 \/ Poll \/ UNCHANGED vars => grew' = grew
          BY DEF EmitInState, RunFinishes, Publish, Poll, PollStarts,
             PollFilled, PollReads, vars
        <5> QED
          BY <5>2, <5>3, Steps, AppendKeeps
      <4>3. CASE Appending
        <5>1. at[s] = "checking" => s \in grew'
          BY <4>3, AppendKeeps
        <5> QED
          BY <1>1, <4>1, <4>2, <5>1
      <4>4. CASE log' = log
        BY <1>1, <4>1, <4>2, <4>4
      <4> QED
        BY <4>3, <4>4, Steps DEF EmitInState, RunFinishes
    <3> QED
      BY <3>2, <3>3
  <2> QED
    BY <1>1, <1>2, <1>4, <2>1, <2>2, <2>3 DEF Ending
<1>5. CASE RunFinishes
  <2>1. /\ ~finished /\ finished' = TRUE /\ node' = <<>>
        /\ atFinish' = Len(log)
        /\ UNCHANGED <<log, grew, old, poll, at, cursor>>
    BY <1>5 DEF RunFinishes, streamVars
  <2> QED
    BY <1>1, <1>2, <2>1 DEF Ending
<1>6. RunFinishes \/ (finished' = finished /\ atFinish' = atFinish)
  BY Steps, AppendKeeps DEF EmitInState, runVars
<1> QED
  BY <1>4, <1>5, <1>6

-----------------------------------------------------------------------------
(* The theorems *)

\* Every reachable state satisfies the inductive invariant.
THEOREM Invariance == Spec => []Inv
<1>1. Inv /\ [Next]_vars => Inv'
  BY TypeStep, TimelineStep, CountsStep, BusStep, ReplaysStep, CoveredStep,
     SentStep, LocksStep, EndingStep DEF Inv
<1> QED
  BY <1>1, InitInv, PTL DEF Spec

\* Every variable of the timeline keeps its type, and no number runs out of
\* the table: for any streams, requests, page and queue size.
THEOREM Typing == Spec => []TypeOK
<1>1. Inv => TypeOK
  BY DEF Inv
<1> QED
  BY <1>1, Invariance, PTL

\* Neither the live emission and the end of its node nor two backfills append
\* an event twice (event_log.append_many, _persist_progress, _backfill_events).
THEOREM StoredOnce == Spec => []OnceEach
<1>1. Inv => OnceEach
  BY DEF Inv
<1> QED
  BY <1>1, Invariance, PTL

\* Over all its connections a client gets every event up to its cursor once
\* and in order, except what was overtaken (stream_console_events).
THEOREM StreamsAreGapless == Spec => []NoGapNoDuplicate
<1>1. Inv => NoGapNoDuplicate
  BY DEF Inv, Sent, NoGapNoDuplicate
<1> QED
  BY <1>1, Invariance, PTL

\* A poll that stops at an empty page marked complete has seen the whole
\* timeline of the run (get_console_events).
THEOREM PollsAreComplete == Spec => []PollSeesAll
<1>1. Inv => PollSeesAll
  BY DEF Inv, Ending, PollSeesAll
<1> QED
  BY <1>1, Invariance, PTL

\* The done frame comes after the run's last event, unless the table grew
\* between the reading of the tail and of the status (_stream_is_complete).
THEOREM DoneIsLast == Spec => []DoneMeansAll
<1>1. Inv => DoneMeansAll
  <2> SUFFICES ASSUME Inv, NEW s \in Streams, at[s] = "done", s \notin grew
               PROVE  1..atFinish \subseteq ToSet(frames[s]) \cup overtaken
    BY DEF DoneMeansAll
  <2>1. cursor[s] >= atFinish /\ cursor[s] \in Nat /\ atFinish \in Nat
    BY Facts, StreamIs DEF Inv, Ending
  <2>2. 1..cursor[s] \subseteq ToSet(frames[s]) \cup overtaken
    BY DEF Inv, Sent
  <2> QED
    BY <2>1, <2>2
<1> QED
  BY <1>1, Invariance, PTL


=============================================================================
