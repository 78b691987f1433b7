------------------------------ MODULE RunLanes ------------------------------
(***************************************************************************)
(* graph/lanes.py under the run registry: the bodies of admitted runs load *)
(* and drop the two model lanes, teardown stops whatever is up.            *)
(*                                                                         *)
(* ensure_lane and stop_lane probe, spawn a lane-ctl script, wait for it   *)
(* and poll; each of these is a step of its own.  A script is an operating *)
(* system process: it lands when it lands, whether or not the task that    *)
(* spawned it still waits.  Docker itself is assumed to work: a script     *)
(* does what it says and a container that runs becomes healthy or stays    *)
(* loading.                                                                *)
(***************************************************************************)
EXTENDS RunRegistry

VARIABLES
    lane,     \* down, loading (container runs, not healthy) or ready
    job,      \* what the body of each run is doing with which lane
    scripts,  \* lane-ctl processes in flight
    cursor,   \* teardown of each run: even, about to probe a lane; odd, waiting
    cut       \* history: a hard cancel left a script behind

laneVars == <<lane, job, scripts, cursor, cut>>
allVars  == <<vars, laneVars>>

Lanes == {"coder", "work"}
Other(l) == IF l = "coder" THEN "work" ELSE "coder"

\* idle; clearing: about to stop the other lane; swapping: waiting for it to
\* be down; starting: the start script is in flight; polling: waiting for
\* health; using: calling the model; dropping: waiting for lane to be down.
Ops == {"idle", "clearing", "swapping", "starting", "polling", "using",
        "dropping"}
Job(op, l) == [op |-> op, lane |-> l]
Idle == Job("idle", "coder")

Script(r, who, cmd, l) == [run |-> r, who |-> who, cmd |-> cmd, lane |-> l]

LanesTypeOK ==
    /\ lane \in [Lanes -> {"down", "loading", "ready"}]
    /\ job \in [Runs -> [op : Ops, lane : Lanes]]
    /\ scripts \subseteq [run : Runs, who : {"body", "teardown"},
                          cmd : {"start", "stop"}, lane : Lanes]
    /\ cursor \in [Runs -> 0..4]
    /\ cut \in BOOLEAN

LanesInit ==
    /\ Init
    /\ lane = [l \in Lanes |-> "down"]
    /\ job = [r \in Runs |-> Idle]
    /\ scripts = {}
    /\ cursor = [r \in Runs |-> 0]
    /\ cut = FALSE

-----------------------------------------------------------------------------
(* The body of run r *)

Acts(r, op) == body[r] = "running" /\ job[r].op = op

InFlight(r) == \E s \in scripts : s.run = r /\ s.who = "body"

Becomes(r, op, l) == job' = [job EXCEPT ![r] = Job(op, l)]

\* ensure_lane's probe: a healthy lane is used as it is.  An ask only ever
\* wants the Work lane.
Ensure(r, l) ==
    /\ Acts(r, "idle")
    /\ r \in Torn \/ l = "work"
    /\ Becomes(r, IF lane[l] = "ready" THEN "using" ELSE "clearing", l)
    /\ UNCHANGED <<vars, lane, scripts, cursor, cut>>

\* Mutant of Clear: the other lane is not looked at.
ClearNothing(r) ==
    /\ Acts(r, "clearing")
    /\ Becomes(r, "starting", job[r].lane)
    /\ scripts' = scripts \cup {Script(r, "body", "start", job[r].lane)}
    /\ UNCHANGED <<vars, lane, cursor, cut>>

\* ensure_lane calls stop_lane on the other lane: skipped when it is down.
Clear(r) ==
    /\ Acts(r, "clearing")
    /\ LET l == job[r].lane
       IN  IF lane[Other(l)] = "down"
           THEN /\ Becomes(r, "starting", l)
                /\ scripts' = scripts \cup {Script(r, "body", "start", l)}
           ELSE /\ Becomes(r, "swapping", l)
                /\ scripts' = scripts \cup {Script(r, "body", "stop", Other(l))}
    /\ UNCHANGED <<vars, lane, cursor, cut>>

\* The stop script returned and wait_lane_stopped saw the lane down.
Swapped(r) ==
    /\ Acts(r, "swapping")
    /\ LET l == job[r].lane
       IN  /\ Script(r, "body", "stop", Other(l)) \notin scripts
           /\ lane[Other(l)] = "down"
           /\ Becomes(r, "starting", l)
           /\ scripts' = scripts \cup {Script(r, "body", "start", l)}
    /\ UNCHANGED <<vars, lane, cursor, cut>>

Started(r) ==
    /\ Acts(r, "starting")
    /\ Script(r, "body", "start", job[r].lane) \notin scripts
    /\ Becomes(r, "polling", job[r].lane)
    /\ UNCHANGED <<vars, lane, scripts, cursor, cut>>

Healthy(r) ==
    /\ Acts(r, "polling") /\ lane[job[r].lane] = "ready"
    /\ Becomes(r, "using", job[r].lane)
    /\ UNCHANGED <<vars, lane, scripts, cursor, cut>>

\* The agent's turn is over; the lane stays up for the next one.
Used(r) ==
    /\ Acts(r, "using")
    /\ Becomes(r, "idle", "coder")
    /\ UNCHANGED <<vars, lane, scripts, cursor, cut>>

\* stop_lane, from the nodes and from the body's own stop_all_lanes.
Drop(r, l) ==
    /\ Acts(r, "idle") /\ r \in Torn
    /\ lane[l] # "down"
    /\ Becomes(r, "dropping", l)
    /\ scripts' = scripts \cup {Script(r, "body", "stop", l)}
    /\ UNCHANGED <<vars, lane, cursor, cut>>

Dropped(r) ==
    /\ Acts(r, "dropping")
    /\ Script(r, "body", "stop", job[r].lane) \notin scripts
    /\ lane[job[r].lane] = "down"
    /\ Becomes(r, "idle", "coder")
    /\ UNCHANGED <<vars, lane, scripts, cursor, cut>>

\* The body ends: on its own, on a failed or timed out lane operation, or on
\* the token.  No script of its own is in flight: communicate() returned.
BodyEnds(r) ==
    /\ BodyReturns(r) \/ BodyHonoursToken(r)
    /\ ~InFlight(r)
    /\ job[r].op # "clearing"
    /\ Becomes(r, "idle", "coder")
    /\ UNCHANGED <<lane, scripts, cursor, cut>>

\* The hard cancel unwinds communicate() but does not reach the script.
BodyUnwinds(r) ==
    /\ BodyHardCancelled(r)
    /\ Becomes(r, "idle", "coder")
    /\ cut' = (cut \/ InFlight(r))
    /\ UNCHANGED <<lane, scripts, cursor>>

-----------------------------------------------------------------------------
(* teardown = stop_all_lanes, in Role order; an ask has none *)

Tearing(r) == IF cursor[r] < 2 THEN "coder" ELSE "work"
Stopping(r) == Script(r, "teardown", "stop", Tearing(r))
Advance(r, n) == cursor' = [cursor EXCEPT ![r] = @ + n]

\* Mutant of TeardownProbes: only a lane that answers its probe is stopped.
TeardownStopsHealthy(r) ==
    /\ pc[r] = "teardown" /\ cursor[r] \in {0, 2}
    /\ IF lane[Tearing(r)] # "ready"
       THEN Advance(r, 2) /\ UNCHANGED scripts
       ELSE Advance(r, 1) /\ scripts' = scripts \cup {Stopping(r)}
    /\ UNCHANGED <<vars, lane, job, cut>>

\* stop_lane's probe: a lane that is down is skipped.
TeardownProbes(r) ==
    /\ pc[r] = "teardown" /\ cursor[r] \in {0, 2}
    /\ IF lane[Tearing(r)] = "down"
       THEN Advance(r, 2) /\ UNCHANGED scripts
       ELSE Advance(r, 1) /\ scripts' = scripts \cup {Stopping(r)}
    /\ UNCHANGED <<vars, lane, job, cut>>

\* The script returned; wait_lane_stopped sees the lane down, or times out on
\* a lane that came up again, which stop_all_lanes only logs.
TeardownWaits(r) ==
    /\ pc[r] = "teardown" /\ cursor[r] \in {1, 3}
    /\ Stopping(r) \notin scripts
    /\ Advance(r, 1)
    /\ UNCHANGED <<vars, lane, job, scripts, cut>>

TeardownDone(r) ==
    /\ cursor[r] = 4
    /\ TeardownEnds(r)
    /\ UNCHANGED laneVars

-----------------------------------------------------------------------------
(* The scripts and the containers *)

ScriptLands(s) ==
    /\ scripts' = scripts \ {s}
    /\ lane' = [lane EXCEPT ![s.lane] =
                  IF s.cmd = "stop" THEN "down"
                  ELSE IF @ = "down" THEN "loading" ELSE @]
    /\ UNCHANGED <<vars, job, cursor, cut>>

ModelLoaded(l) ==
    /\ lane[l] = "loading"
    /\ lane' = [lane EXCEPT ![l] = "ready"]
    /\ UNCHANGED <<vars, job, scripts, cursor, cut>>

-----------------------------------------------------------------------------

Registry(r) ==
    /\ Submit(r) \/ Wrapper(r) \/ Admission(r) \/ Cancel(r) \/ WatchdogFires(r)
    /\ UNCHANGED laneVars

BodySteps(r) ==
    \/ \E l \in Lanes : Ensure(r, l) \/ Drop(r, l)
    \/ Clear(r) \/ Swapped(r) \/ Started(r) \/ Healthy(r) \/ Used(r)
    \/ Dropped(r) \/ BodyEnds(r) \/ BodyUnwinds(r)

Teardown(r) == TeardownProbes(r) \/ TeardownWaits(r) \/ TeardownDone(r)

LanesNext ==
    \/ \E r \in Runs : Registry(r) \/ BodySteps(r) \/ Teardown(r)
    \/ \E s \in scripts : ScriptLands(s)
    \/ \E l \in Lanes : ModelLoaded(l)

LanesSpec == LanesInit /\ [][LanesNext]_allVars

-----------------------------------------------------------------------------
(* What the lanes promise *)

\* "One lane loaded at a time -- the queue enforces that": the two models
\* are never in memory together, as long as no hard cancel left a script
\* behind.
OneLaneUp == cut \/ \E l \in Lanes : lane[l] = "down"

\* "Two runs would thrash lane swaps against each other": no two bodies are
\* ever inside a lane operation or an agent turn, hard cancels included.
OneSwapper ==
    \A r, q \in Runs : job[r].op # "idle" /\ job[q].op # "idle" => r = q

\* Once nothing runs and nothing is queued, no model stays resident and no
\* script is about to bring one back, under the same condition.
NoLaneLeftLoaded ==
    ~cut /\ (\A r \in Runs : pc[r] \in {"unborn", "stillborn", "gone"})
        => /\ \A l \in Lanes : lane[l] = "down"
           /\ \A s \in scripts : s.cmd # "start"

\* Holding the permit keeps the lane: while the body of r waits for a lane
\* or calls it, nobody else takes it down.
LaneKept ==
    [][\A r \in Runs :
          Acts(r, "polling") \/ Acts(r, "using")
          => ~(lane[job[r].lane] # "down" /\ lane'[job[r].lane] = "down")]_allVars
=============================================================================
