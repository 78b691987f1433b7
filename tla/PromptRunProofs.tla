---------------------------- MODULE PromptRunProofs ----------------------------
(***************************************************************************)
(* A prompt run: what its records say (RunRecords), for any number of      *)
(* stories, restarts and tickets beside it, and the order its stories are  *)
(* worked in (BacklogOrder), for any plan and any cap.  The two share no   *)
(* variable: the records number the stories of the plan in its order.      *)
(*                                                                         *)
(* Records: the three agree on what shipped, the console session tells the *)
(* truth about its run, and no outcome is rewritten.                       *)
(*                                                                         *)
(* Order: the loop of sort_stories has released exactly the stories that   *)
(* wait for ordered ones only.  So each is appended after all it waits     *)
(* for, and what is left when the queue is empty is on or behind a cycle.  *)
(***************************************************************************)
EXTENDS RunRecords, BacklogOrder, SequenceTheorems, FiniteSetTheorems,
        WellFoundedInduction, TLAPS

(* The records. *)


\* The one admission slot: a cycle belongs to the run that is in it, and a
\* process that is starting up has none.
Slot ==
    /\ ticket = "cycle" => run \notin Admitted
    /\ cycle # "idle" => run = "cycle" \/ ticket = "cycle"
    /\ run = "cycle" => cycle # "idle"
    /\ ticket = "cycle" => cycle # "idle"
    /\ boot # "serving" => /\ run \in {"none", "gone"}
                           /\ ticket \in {"none", "gone"}
                           /\ handler = Idle
                           /\ crashes # 0

\* What the backlog row says at each point of the body.
Backlog ==
    /\ run = "none" => backlog = "absent"
    /\ run \in {"queued", "admitting"} => backlog = "pending"
    /\ run \in {"planning", "batch", "cycle"} => backlog = "running"
    /\ run \in {"leaving", "gone"} => backlog # "absent"
    /\ backlog \in {"pending", "running"} => run # "none"

\* How far the batch loop is: the stories before this one shipped and are
\* listed, those after it have no row.
Progress ==
    /\ run \in {"none", "queued", "admitting", "planning"}
          => story = 0 /\ done = {} /\ completed = {}
    /\ run = "batch" => done = 1..story /\ completed = done
    /\ run = "cycle" => /\ story # 0 /\ completed = done
                        /\ done = 1..(story - 1)
    /\ backlog = "completed" => completed = Stories
    /\ \A s \in Stories : s > story => sprint[s] = "absent"

\* What shipped, as the session rows and the backlog row have it.
Shipping ==
    /\ completed \subseteq pushed
    /\ cycle \in {"pushing", "marked", "completed"} => Current \in pushed
    /\ (crashes = 0 /\ run # "cycle")
          => \A s \in Stories : s \in completed <=> sprint[s] \in Shipped
    /\ run = "cycle" =>
          /\ \A s \in Stories : s < story => sprint[s] \in Shipped
          /\ cycle \in {"working", "pushing"} => sprint[story] = "running"
          /\ cycle \in {"marked", "completed"} => sprint[story] \in Shipped
          /\ cycle \in {"failed", "cancelled"} => sprint[story] = cycle
    /\ run = "batch" => \A s \in 1..story : sprint[s] \in Shipped

\* What the copy of a request inside the lock may still write.  Whoever finds
\* the lock free and no end stored has the reference of the run, if it is live.
Handler ==
    /\ handler.at # "none" => console \notin RunEnds
    /\ handler.at = "starting" =>
          handler.status \in {"queued", "running", "failed"}
    /\ handler.at \in {"polled", "mirrored", "accepted"} => ref
    /\ (handler = Idle /\ console \notin RunEnds /\ run \in Registered) => ref
    /\ handler.at = "polled" => handler.status \notin RunEnds
    /\ handler.at = "mirrored" =>
          handler.status \notin RunEnds \/ handler.status = backlog
    /\ handler.at = "accepted" => handler.status \notin RunEnds
    /\ handler.at \in {"withdrawn", "dead"} =>
          /\ handler.status = "cancelled"
          /\ run \in {"none", "gone"}
    /\ handler.at = "withdrawn" => run = "gone" /\ backlog = "pending"

Inv == /\ TypeOK /\ Slot /\ Backlog /\ Progress /\ Shipping /\ Handler
       /\ ConsoleIsHonest

OutcomeKept ==
    /\ backlog \in RunEnds => backlog' = backlog
    /\ console \in RunEnds => console' = console

-----------------------------------------------------------------------------
(* The initial state *)

\* The initial states satisfy the invariant.
LEMMA InitInv == Init => Inv
<1> SUFFICES ASSUME Init PROVE Inv
  OBVIOUS
<1> USE StoriesAssumption, CrashAssumption
    DEF Init, Stories, Sessions, RunEnds, Shipped, Idle
<1>1. TypeOK
  <2>1. handler \in [at : {"none", "starting", "polled", "mirrored",
                          "accepted", "withdrawn", "dead"},
                    status : ConsoleStatus]
    BY DEF ConsoleStatus
  <2>2. sprint \in [Sessions -> {"absent", "pending", "running", "failed",
                                "cancelled"} \cup Shipped]
    OBVIOUS
  <2>3. /\ crashes \in 0..MaxCrashes /\ story \in 0..N
        /\ done \subseteq Stories /\ completed \subseteq Stories
        /\ pushed \subseteq Sessions
    OBVIOUS
  <2> QED
    BY <2>1, <2>2, <2>3 DEF TypeOK, Admitted, Registered, ConsoleStatus
<1>2. Slot /\ Backlog
  BY DEF Slot, Backlog, Admitted
<1>3. Progress
  BY DEF Progress
<1>4. Shipping
  BY DEF Shipping, Current
<1>5. Handler /\ ConsoleIsHonest
  BY DEF Handler, ConsoleIsHonest, StartFailed, Working, Registered, Admitted
<1> QED
  BY <1>1, <1>2, <1>3, <1>4, <1>5 DEF Inv

\* Types are kept.
LEMMA TypeStep == Inv /\ [Next]_vars => TypeOK'
<1> SUFFICES ASSUME Inv, [Next]_vars PROVE TypeOK'
  OBVIOUS
<1> USE StoriesAssumption, CrashAssumption
    DEF Inv, TypeOK, Stories, Sessions, RunEnds, Admitted, Registered,
        Working, Shipped, Idle, ConsoleStatus, SlotBusy, Serving, Current,
        Behind, bootVars, slotVars, rowVars, webVars, Slot, Progress
<1>1. CASE StartRun
  BY <1>1 DEF StartRun
<1>2. CASE StartFails
  BY <1>2 DEF StartFails
<1>3. CASE StartSaved
  BY <1>3 DEF StartSaved
<1>4. CASE StartTicket
  BY <1>4 DEF StartTicket
<1>5. CASE Admit
  BY <1>5 DEF Admit
<1>6. CASE OnAdmit
  BY <1>6 DEF OnAdmit
<1>7. CASE PlanFails
  BY <1>7 DEF PlanFails
<1>8. CASE BatchStarts
  BY <1>8 DEF BatchStarts
<1>9. CASE BeginStory
  BY <1>9 DEF BeginStory
<1>10. CASE StopBetweenStories
  BY <1>10 DEF StopBetweenStories, SaveOutcome
<1>11. CASE BatchFails
  BY <1>11 DEF BatchFails, SaveOutcome
<1>12. CASE BatchCompletes
  BY <1>12 DEF BatchCompletes, SaveOutcome
<1>13. CASE RecordCompleted
  BY <1>13 DEF RecordCompleted
<1>14. CASE RecordFailed
  BY <1>14 DEF RecordFailed, SaveOutcome
<1>15. CASE Leave
  BY <1>15 DEF Leave
<1>16. CASE AdmitTicket
  BY <1>16 DEF AdmitTicket
<1>17. CASE TicketEnds
  BY <1>17 DEF TicketEnds
<1>18. CASE CycleFails
  BY <1>18 DEF CycleFails, Return
<1>19. CASE CycleStopped
  BY <1>19 DEF CycleStopped, Return
<1>20. CASE OpenPullRequest
  BY <1>20 DEF OpenPullRequest
<1>21. CASE ShipFails
  BY <1>21 DEF ShipFails, Return
<1>22. CASE MarkShipped
  BY <1>22 DEF MarkShipped
<1>23. CASE PersistProgress
  BY <1>23 DEF PersistProgress
<1>24. CASE CycleCompletes
  BY <1>24 DEF CycleCompletes, Return
<1>25. CASE Approve
  BY <1>25 DEF Approve
<1>26. CASE HardCancelCycle
  BY <1>26 DEF HardCancelCycle
<1>27. CASE Poll
  BY <1>27 DEF Poll
<1>28. CASE Mirror
  BY <1>28 DEF Mirror
<1>29. CASE PollSaved
  BY <1>29 DEF PollSaved
<1>30. CASE StopDead
  BY <1>30 DEF StopDead
<1>31. CASE StopQueued
  BY <1>31 DEF StopQueued
<1>32. CASE StopAdmitted
  BY <1>32 DEF StopAdmitted
<1>33. CASE CancelBacklogRun
  BY <1>33 DEF CancelBacklogRun
<1>34. CASE StopSaved
  BY <1>34 DEF StopSaved
<1>35. CASE Crash
  <2>1. crashes' \in 0..MaxCrashes
    BY <1>35 DEF Crash
  <2>2. handler' \in [at : {"none", "starting", "polled", "mirrored",
                          "accepted", "withdrawn", "dead"},
                     status : ConsoleStatus]
    BY <1>35 DEF Crash
  <2> QED
    BY <1>35, <2>1, <2>2 DEF Crash
<1>36. CASE SweepRuns
  BY <1>36 DEF SweepRuns
<1>37. CASE SweepSprints
  BY <1>37 DEF SweepSprints
<1>38. CASE SweepConsoles
  BY <1>38 DEF SweepConsoles
<1>39. CASE UNCHANGED vars
  BY <1>39 DEF vars
<1> QED
  BY <1>1, <1>2, <1>3, <1>4, <1>5, <1>6, <1>7, <1>8, <1>9, <1>10, <1>11,
     <1>12, <1>13, <1>14, <1>15, <1>16, <1>17, <1>18, <1>19, <1>20,
     <1>21, <1>22, <1>23, <1>24, <1>25, <1>26, <1>27, <1>28, <1>29,
     <1>30, <1>31, <1>32, <1>33, <1>34, <1>35, <1>36, <1>37, <1>38, <1>39
  DEF Next, Batch, Cycle, Finish, Sweep

\* The slot has one owner.
LEMMA SlotStep == Inv /\ [Next]_vars => Slot'
<1> SUFFICES ASSUME Inv, [Next]_vars PROVE Slot'
  OBVIOUS
<1> USE StoriesAssumption, CrashAssumption
    DEF Inv, TypeOK, Stories, Sessions, RunEnds, Admitted, Registered,
        Working, Shipped, Idle, ConsoleStatus, SlotBusy, Serving, Current,
        Behind, bootVars, slotVars, rowVars, webVars, Slot
<1>1. CASE StartRun
  BY <1>1 DEF StartRun
<1>2. CASE StartFails
  BY <1>2 DEF StartFails
<1>3. CASE StartSaved
  BY <1>3 DEF StartSaved
<1>4. CASE StartTicket
  BY <1>4 DEF StartTicket
<1>5. CASE Admit
  BY <1>5 DEF Admit
<1>6. CASE OnAdmit
  BY <1>6 DEF OnAdmit
<1>7. CASE PlanFails
  BY <1>7 DEF PlanFails
<1>8. CASE BatchStarts
  BY <1>8 DEF BatchStarts
<1>9. CASE BeginStory
  BY <1>9 DEF BeginStory
<1>10. CASE StopBetweenStories
  BY <1>10 DEF StopBetweenStories, SaveOutcome
<1>11. CASE BatchFails
  BY <1>11 DEF BatchFails, SaveOutcome
<1>12. CASE BatchCompletes
  BY <1>12 DEF BatchCompletes, SaveOutcome
<1>13. CASE RecordCompleted
  BY <1>13 DEF RecordCompleted
<1>14. CASE RecordFailed
  BY <1>14 DEF RecordFailed, SaveOutcome
<1>15. CASE Leave
  BY <1>15 DEF Leave
<1>16. CASE AdmitTicket
  BY <1>16 DEF AdmitTicket
<1>17. CASE TicketEnds
  BY <1>17 DEF TicketEnds
<1>18. CASE CycleFails
  BY <1>18 DEF CycleFails, Return
<1>19. CASE CycleStopped
  BY <1>19 DEF CycleStopped, Return
<1>20. CASE OpenPullRequest
  BY <1>20 DEF OpenPullRequest
<1>21. CASE ShipFails
  BY <1>21 DEF ShipFails, Return
<1>22. CASE MarkShipped
  BY <1>22 DEF MarkShipped
<1>23. CASE PersistProgress
  BY <1>23 DEF PersistProgress
<1>24. CASE CycleCompletes
  BY <1>24 DEF CycleCompletes, Return
<1>25. CASE Approve
  BY <1>25 DEF Approve
<1>26. CASE HardCancelCycle
  BY <1>26 DEF HardCancelCycle
<1>27. CASE Poll
  BY <1>27 DEF Poll
<1>28. CASE Mirror
  BY <1>28 DEF Mirror
<1>29. CASE PollSaved
  BY <1>29 DEF PollSaved
<1>30. CASE StopDead
  BY <1>30 DEF StopDead
<1>31. CASE StopQueued
  BY <1>31 DEF StopQueued
<1>32. CASE StopAdmitted
  BY <1>32 DEF StopAdmitted
<1>33. CASE CancelBacklogRun
  BY <1>33 DEF CancelBacklogRun
<1>34. CASE StopSaved
  BY <1>34 DEF StopSaved
<1>35. CASE Crash
  BY <1>35 DEF Crash
<1>36. CASE SweepRuns
  BY <1>36 DEF SweepRuns
<1>37. CASE SweepSprints
  BY <1>37 DEF SweepSprints
<1>38. CASE SweepConsoles
  BY <1>38 DEF SweepConsoles
<1>39. CASE UNCHANGED vars
  BY <1>39 DEF vars
<1> QED
  BY <1>1, <1>2, <1>3, <1>4, <1>5, <1>6, <1>7, <1>8, <1>9, <1>10, <1>11,
     <1>12, <1>13, <1>14, <1>15, <1>16, <1>17, <1>18, <1>19, <1>20,
     <1>21, <1>22, <1>23, <1>24, <1>25, <1>26, <1>27, <1>28, <1>29,
     <1>30, <1>31, <1>32, <1>33, <1>34, <1>35, <1>36, <1>37, <1>38, <1>39
  DEF Next, Batch, Cycle, Finish, Sweep

\* The backlog row keeps up with the body.
LEMMA BacklogStep == Inv /\ [Next]_vars => Backlog'
<1> SUFFICES ASSUME Inv, [Next]_vars PROVE Backlog'
  OBVIOUS
<1> USE StoriesAssumption, CrashAssumption
    DEF Inv, TypeOK, Stories, Sessions, RunEnds, Admitted, Registered,
        Working, Shipped, Idle, ConsoleStatus, SlotBusy, Serving, Current,
        Behind, Live, bootVars, slotVars, rowVars, webVars, Slot, Backlog,
        Handler
<1>1. CASE StartRun
  BY <1>1 DEF StartRun
<1>2. CASE StartFails
  BY <1>2 DEF StartFails
<1>3. CASE StartSaved
  BY <1>3 DEF StartSaved
<1>4. CASE StartTicket
  BY <1>4 DEF StartTicket
<1>5. CASE Admit
  BY <1>5 DEF Admit
<1>6. CASE OnAdmit
  BY <1>6 DEF OnAdmit
<1>7. CASE PlanFails
  BY <1>7 DEF PlanFails
<1>8. CASE BatchStarts
  BY <1>8 DEF BatchStarts
<1>9. CASE BeginStory
  BY <1>9 DEF BeginStory
<1>10. CASE StopBetweenStories
  BY <1>10 DEF StopBetweenStories, SaveOutcome
<1>11. CASE BatchFails
  BY <1>11 DEF BatchFails, SaveOutcome
<1>12. CASE BatchCompletes
  BY <1>12 DEF BatchCompletes, SaveOutcome
<1>13. CASE RecordCompleted
  BY <1>13 DEF RecordCompleted
<1>14. CASE RecordFailed
  BY <1>14 DEF RecordFailed, SaveOutcome
<1>15. CASE Leave
  BY <1>15 DEF Leave
<1>16. CASE AdmitTicket
  BY <1>16 DEF AdmitTicket
<1>17. CASE TicketEnds
  BY <1>17 DEF TicketEnds
<1>18. CASE CycleFails
  BY <1>18 DEF CycleFails, Return
<1>19. CASE CycleStopped
  BY <1>19 DEF CycleStopped, Return
<1>20. CASE OpenPullRequest
  BY <1>20 DEF OpenPullRequest
<1>21. CASE ShipFails
  BY <1>21 DEF ShipFails, Return
<1>22. CASE MarkShipped
  BY <1>22 DEF MarkShipped
<1>23. CASE PersistProgress
  BY <1>23 DEF PersistProgress
<1>24. CASE CycleCompletes
  BY <1>24 DEF CycleCompletes, Return
<1>25. CASE Approve
  BY <1>25 DEF Approve
<1>26. CASE HardCancelCycle
  BY <1>26 DEF HardCancelCycle
<1>27. CASE Poll
  BY <1>27 DEF Poll
<1>28. CASE Mirror
  BY <1>28 DEF Mirror
<1>29. CASE PollSaved
  BY <1>29 DEF PollSaved
<1>30. CASE StopDead
  BY <1>30 DEF StopDead
<1>31. CASE StopQueued
  BY <1>31 DEF StopQueued
<1>32. CASE StopAdmitted
  BY <1>32 DEF StopAdmitted
<1>33. CASE CancelBacklogRun
  BY <1>33 DEF CancelBacklogRun
<1>34. CASE StopSaved
  BY <1>34 DEF StopSaved
<1>35. CASE Crash
  BY <1>35 DEF Crash
<1>36. CASE SweepRuns
  BY <1>36 DEF SweepRuns
<1>37. CASE SweepSprints
  BY <1>37 DEF SweepSprints
<1>38. CASE SweepConsoles
  BY <1>38 DEF SweepConsoles
<1>39. CASE UNCHANGED vars
  BY <1>39 DEF vars
<1> QED
  BY <1>1, <1>2, <1>3, <1>4, <1>5, <1>6, <1>7, <1>8, <1>9, <1>10, <1>11,
     <1>12, <1>13, <1>14, <1>15, <1>16, <1>17, <1>18, <1>19, <1>20,
     <1>21, <1>22, <1>23, <1>24, <1>25, <1>26, <1>27, <1>28, <1>29,
     <1>30, <1>31, <1>32, <1>33, <1>34, <1>35, <1>36, <1>37, <1>38, <1>39
  DEF Next, Batch, Cycle, Finish, Sweep

\* The loop lists what it finished.
LEMMA ProgressStep == Inv /\ [Next]_vars => Progress'
<1> SUFFICES ASSUME Inv, [Next]_vars PROVE Progress'
  OBVIOUS
<1> USE StoriesAssumption, CrashAssumption
    DEF Inv, TypeOK, Stories, Sessions, RunEnds, Admitted, Registered,
        Working, Shipped, Idle, ConsoleStatus, SlotBusy, Serving, Current,
        Behind, bootVars, slotVars, rowVars, webVars, Slot, Backlog, Progress,
        Handler
<1>1. CASE StartRun
  BY <1>1 DEF StartRun
<1>2. CASE StartFails
  BY <1>2 DEF StartFails
<1>3. CASE StartSaved
  BY <1>3 DEF StartSaved
<1>4. CASE StartTicket
  BY <1>4 DEF StartTicket
<1>5. CASE Admit
  BY <1>5 DEF Admit
<1>6. CASE OnAdmit
  BY <1>6 DEF OnAdmit
<1>7. CASE PlanFails
  BY <1>7 DEF PlanFails
<1>8. CASE BatchStarts
  BY <1>8 DEF BatchStarts
<1>9. CASE BeginStory
  BY <1>9 DEF BeginStory
<1>10. CASE StopBetweenStories
  BY <1>10 DEF StopBetweenStories, SaveOutcome
<1>11. CASE BatchFails
  BY <1>11 DEF BatchFails, SaveOutcome
<1>12. CASE BatchCompletes
  BY <1>12 DEF BatchCompletes, SaveOutcome
<1>13. CASE RecordCompleted
  BY <1>13 DEF RecordCompleted
<1>14. CASE RecordFailed
  BY <1>14 DEF RecordFailed, SaveOutcome
<1>15. CASE Leave
  BY <1>15 DEF Leave
<1>16. CASE AdmitTicket
  BY <1>16 DEF AdmitTicket
<1>17. CASE TicketEnds
  BY <1>17 DEF TicketEnds
<1>18. CASE CycleFails
  BY <1>18 DEF CycleFails, Return
<1>19. CASE CycleStopped
  BY <1>19 DEF CycleStopped, Return
<1>20. CASE OpenPullRequest
  BY <1>20 DEF OpenPullRequest
<1>21. CASE ShipFails
  BY <1>21 DEF ShipFails, Return
<1>22. CASE MarkShipped
  BY <1>22 DEF MarkShipped
<1>23. CASE PersistProgress
  BY <1>23 DEF PersistProgress
<1>24. CASE CycleCompletes
  BY <1>24 DEF CycleCompletes, Return
<1>25. CASE Approve
  BY <1>25 DEF Approve
<1>26. CASE HardCancelCycle
  BY <1>26 DEF HardCancelCycle
<1>27. CASE Poll
  BY <1>27 DEF Poll
<1>28. CASE Mirror
  BY <1>28 DEF Mirror
<1>29. CASE PollSaved
  BY <1>29 DEF PollSaved
<1>30. CASE StopDead
  BY <1>30 DEF StopDead
<1>31. CASE StopQueued
  BY <1>31 DEF StopQueued
<1>32. CASE StopAdmitted
  BY <1>32 DEF StopAdmitted
<1>33. CASE CancelBacklogRun
  BY <1>33 DEF CancelBacklogRun
<1>34. CASE StopSaved
  BY <1>34 DEF StopSaved
<1>35. CASE Crash
  BY <1>35 DEF Crash
<1>36. CASE SweepRuns
  BY <1>36 DEF SweepRuns
<1>37. CASE SweepSprints
  BY <1>37 DEF SweepSprints
<1>38. CASE SweepConsoles
  BY <1>38 DEF SweepConsoles
<1>39. CASE UNCHANGED vars
  BY <1>39 DEF vars
<1> QED
  BY <1>1, <1>2, <1>3, <1>4, <1>5, <1>6, <1>7, <1>8, <1>9, <1>10, <1>11,
     <1>12, <1>13, <1>14, <1>15, <1>16, <1>17, <1>18, <1>19, <1>20,
     <1>21, <1>22, <1>23, <1>24, <1>25, <1>26, <1>27, <1>28, <1>29,
     <1>30, <1>31, <1>32, <1>33, <1>34, <1>35, <1>36, <1>37, <1>38, <1>39
  DEF Next, Batch, Cycle, Finish, Sweep

\* The rows agree on what shipped.
LEMMA ShippingStep == Inv /\ [Next]_vars => Shipping'
<1> SUFFICES ASSUME Inv, [Next]_vars PROVE Shipping'
  OBVIOUS
<1> USE StoriesAssumption, CrashAssumption
    DEF Inv, TypeOK, Stories, Sessions, RunEnds, Admitted, Registered,
        Working, Shipped, Idle, ConsoleStatus, SlotBusy, Serving, Current,
        Behind, bootVars, slotVars, rowVars, webVars, Slot, Backlog, Progress,
        Shipping, Handler
<1>1. CASE StartRun
  BY <1>1 DEF StartRun
<1>2. CASE StartFails
  BY <1>2 DEF StartFails
<1>3. CASE StartSaved
  BY <1>3 DEF StartSaved
<1>4. CASE StartTicket
  BY <1>4 DEF StartTicket
<1>5. CASE Admit
  BY <1>5 DEF Admit
<1>6. CASE OnAdmit
  BY <1>6 DEF OnAdmit
<1>7. CASE PlanFails
  BY <1>7 DEF PlanFails
<1>8. CASE BatchStarts
  BY <1>8 DEF BatchStarts
<1>9. CASE BeginStory
  BY <1>9 DEF BeginStory
<1>10. CASE StopBetweenStories
  BY <1>10 DEF StopBetweenStories, SaveOutcome
<1>11. CASE BatchFails
  BY <1>11 DEF BatchFails, SaveOutcome
<1>12. CASE BatchCompletes
  BY <1>12 DEF BatchCompletes, SaveOutcome
<1>13. CASE RecordCompleted
  BY <1>13 DEF RecordCompleted
<1>14. CASE RecordFailed
  BY <1>14 DEF RecordFailed, SaveOutcome
<1>15. CASE Leave
  BY <1>15 DEF Leave
<1>16. CASE AdmitTicket
  BY <1>16 DEF AdmitTicket
<1>17. CASE TicketEnds
  BY <1>17 DEF TicketEnds
<1>18. CASE CycleFails
  BY <1>18 DEF CycleFails, Return
<1>19. CASE CycleStopped
  BY <1>19 DEF CycleStopped, Return
<1>20. CASE OpenPullRequest
  BY <1>20 DEF OpenPullRequest
<1>21. CASE ShipFails
  BY <1>21 DEF ShipFails, Return
<1>22. CASE MarkShipped
  BY <1>22 DEF MarkShipped
<1>23. CASE PersistProgress
  BY <1>23 DEF PersistProgress
<1>24. CASE CycleCompletes
  BY <1>24 DEF CycleCompletes, Return
<1>25. CASE Approve
  BY <1>25 DEF Approve
<1>26. CASE HardCancelCycle
  BY <1>26 DEF HardCancelCycle
<1>27. CASE Poll
  BY <1>27 DEF Poll
<1>28. CASE Mirror
  BY <1>28 DEF Mirror
<1>29. CASE PollSaved
  BY <1>29 DEF PollSaved
<1>30. CASE StopDead
  BY <1>30 DEF StopDead
<1>31. CASE StopQueued
  BY <1>31 DEF StopQueued
<1>32. CASE StopAdmitted
  BY <1>32 DEF StopAdmitted
<1>33. CASE CancelBacklogRun
  BY <1>33 DEF CancelBacklogRun
<1>34. CASE StopSaved
  BY <1>34 DEF StopSaved
<1>35. CASE Crash
  BY <1>35 DEF Crash
<1>36. CASE SweepRuns
  BY <1>36 DEF SweepRuns
<1>37. CASE SweepSprints
  BY <1>37 DEF SweepSprints
<1>38. CASE SweepConsoles
  BY <1>38 DEF SweepConsoles
<1>39. CASE UNCHANGED vars
  BY <1>39 DEF vars
<1> QED
  BY <1>1, <1>2, <1>3, <1>4, <1>5, <1>6, <1>7, <1>8, <1>9, <1>10, <1>11,
     <1>12, <1>13, <1>14, <1>15, <1>16, <1>17, <1>18, <1>19, <1>20,
     <1>21, <1>22, <1>23, <1>24, <1>25, <1>26, <1>27, <1>28, <1>29,
     <1>30, <1>31, <1>32, <1>33, <1>34, <1>35, <1>36, <1>37, <1>38, <1>39
  DEF Next, Batch, Cycle, Finish, Sweep

\* A copy inside the lock stays fit to be saved.
LEMMA HandlerStep == Inv /\ [Next]_vars => Handler'
<1> SUFFICES ASSUME Inv, [Next]_vars PROVE Handler'
  OBVIOUS
<1> USE StoriesAssumption, CrashAssumption
    DEF Inv, TypeOK, Stories, Sessions, RunEnds, Admitted, Registered,
        Working, Shipped, Idle, ConsoleStatus, SlotBusy, Serving, Current,
        Behind, Live, bootVars, slotVars, rowVars, webVars, Slot, Backlog,
        Handler
<1>1. CASE StartRun
  BY <1>1 DEF StartRun
<1>2. CASE StartFails
  BY <1>2 DEF StartFails
<1>3. CASE StartSaved
  BY <1>3 DEF StartSaved
<1>4. CASE StartTicket
  BY <1>4 DEF StartTicket
<1>5. CASE Admit
  BY <1>5 DEF Admit
<1>6. CASE OnAdmit
  BY <1>6 DEF OnAdmit
<1>7. CASE PlanFails
  BY <1>7 DEF PlanFails
<1>8. CASE BatchStarts
  BY <1>8 DEF BatchStarts
<1>9. CASE BeginStory
  BY <1>9 DEF BeginStory
<1>10. CASE StopBetweenStories
  BY <1>10 DEF StopBetweenStories, SaveOutcome
<1>11. CASE BatchFails
  BY <1>11 DEF BatchFails, SaveOutcome
<1>12. CASE BatchCompletes
  BY <1>12 DEF BatchCompletes, SaveOutcome
<1>13. CASE RecordCompleted
  BY <1>13 DEF RecordCompleted
<1>14. CASE RecordFailed
  BY <1>14 DEF RecordFailed, SaveOutcome
<1>15. CASE Leave
  BY <1>15 DEF Leave
<1>16. CASE AdmitTicket
  BY <1>16 DEF AdmitTicket
<1>17. CASE TicketEnds
  BY <1>17 DEF TicketEnds
<1>18. CASE CycleFails
  BY <1>18 DEF CycleFails, Return
<1>19. CASE CycleStopped
  BY <1>19 DEF CycleStopped, Return
<1>20. CASE OpenPullRequest
  BY <1>20 DEF OpenPullRequest
<1>21. CASE ShipFails
  BY <1>21 DEF ShipFails, Return
<1>22. CASE MarkShipped
  BY <1>22 DEF MarkShipped
<1>23. CASE PersistProgress
  BY <1>23 DEF PersistProgress
<1>24. CASE CycleCompletes
  BY <1>24 DEF CycleCompletes, Return
<1>25. CASE Approve
  BY <1>25 DEF Approve
<1>26. CASE HardCancelCycle
  BY <1>26 DEF HardCancelCycle
<1>27. CASE Poll
  BY <1>27 DEF Poll
<1>28. CASE Mirror
  BY <1>28 DEF Mirror
<1>29. CASE PollSaved
  BY <1>29 DEF PollSaved
<1>30. CASE StopDead
  BY <1>30 DEF StopDead
<1>31. CASE StopQueued
  BY <1>31 DEF StopQueued
<1>32. CASE StopAdmitted
  BY <1>32 DEF StopAdmitted
<1>33. CASE CancelBacklogRun
  BY <1>33 DEF CancelBacklogRun
<1>34. CASE StopSaved
  BY <1>34 DEF StopSaved
<1>35. CASE Crash
  BY <1>35 DEF Crash
<1>36. CASE SweepRuns
  BY <1>36 DEF SweepRuns
<1>37. CASE SweepSprints
  BY <1>37 DEF SweepSprints
<1>38. CASE SweepConsoles
  BY <1>38 DEF SweepConsoles
<1>39. CASE UNCHANGED vars
  BY <1>39 DEF vars
<1> QED
  BY <1>1, <1>2, <1>3, <1>4, <1>5, <1>6, <1>7, <1>8, <1>9, <1>10, <1>11,
     <1>12, <1>13, <1>14, <1>15, <1>16, <1>17, <1>18, <1>19, <1>20,
     <1>21, <1>22, <1>23, <1>24, <1>25, <1>26, <1>27, <1>28, <1>29,
     <1>30, <1>31, <1>32, <1>33, <1>34, <1>35, <1>36, <1>37, <1>38, <1>39
  DEF Next, Batch, Cycle, Finish, Sweep

\* What the console session says of its run stays true.
LEMMA ConsoleStep == Inv /\ [Next]_vars => ConsoleIsHonest'
<1> SUFFICES ASSUME Inv, [Next]_vars PROVE ConsoleIsHonest'
  OBVIOUS
<1> USE StoriesAssumption, CrashAssumption
    DEF Inv, TypeOK, Stories, Sessions, RunEnds, Admitted, Registered,
        Working, Shipped, Idle, ConsoleStatus, SlotBusy, Serving, Current,
        Behind, Live, bootVars, slotVars, rowVars, webVars, Slot, Backlog,
        Handler,
        StartFailed, ConsoleIsHonest
<1>1. CASE StartRun
  BY <1>1 DEF StartRun
<1>2. CASE StartFails
  BY <1>2 DEF StartFails
<1>3. CASE StartSaved
  BY <1>3 DEF StartSaved
<1>4. CASE StartTicket
  BY <1>4 DEF StartTicket
<1>5. CASE Admit
  BY <1>5 DEF Admit
<1>6. CASE OnAdmit
  BY <1>6 DEF OnAdmit
<1>7. CASE PlanFails
  BY <1>7 DEF PlanFails
<1>8. CASE BatchStarts
  BY <1>8 DEF BatchStarts
<1>9. CASE BeginStory
  BY <1>9 DEF BeginStory
<1>10. CASE StopBetweenStories
  BY <1>10 DEF StopBetweenStories, SaveOutcome
<1>11. CASE BatchFails
  BY <1>11 DEF BatchFails, SaveOutcome
<1>12. CASE BatchCompletes
  BY <1>12 DEF BatchCompletes, SaveOutcome
<1>13. CASE RecordCompleted
  BY <1>13 DEF RecordCompleted
<1>14. CASE RecordFailed
  BY <1>14 DEF RecordFailed, SaveOutcome
<1>15. CASE Leave
  BY <1>15 DEF Leave
<1>16. CASE AdmitTicket
  BY <1>16 DEF AdmitTicket
<1>17. CASE TicketEnds
  BY <1>17 DEF TicketEnds
<1>18. CASE CycleFails
  BY <1>18 DEF CycleFails, Return
<1>19. CASE CycleStopped
  BY <1>19 DEF CycleStopped, Return
<1>20. CASE OpenPullRequest
  BY <1>20 DEF OpenPullRequest
<1>21. CASE ShipFails
  BY <1>21 DEF ShipFails, Return
<1>22. CASE MarkShipped
  BY <1>22 DEF MarkShipped
<1>23. CASE PersistProgress
  BY <1>23 DEF PersistProgress
<1>24. CASE CycleCompletes
  BY <1>24 DEF CycleCompletes, Return
<1>25. CASE Approve
  BY <1>25 DEF Approve
<1>26. CASE HardCancelCycle
  BY <1>26 DEF HardCancelCycle
<1>27. CASE Poll
  BY <1>27 DEF Poll
<1>28. CASE Mirror
  BY <1>28 DEF Mirror
<1>29. CASE PollSaved
  BY <1>29 DEF PollSaved
<1>30. CASE StopDead
  BY <1>30 DEF StopDead
<1>31. CASE StopQueued
  BY <1>31 DEF StopQueued
<1>32. CASE StopAdmitted
  BY <1>32 DEF StopAdmitted
<1>33. CASE CancelBacklogRun
  BY <1>33 DEF CancelBacklogRun
<1>34. CASE StopSaved
  BY <1>34 DEF StopSaved
<1>35. CASE Crash
  BY <1>35 DEF Crash
<1>36. CASE SweepRuns
  BY <1>36 DEF SweepRuns
<1>37. CASE SweepSprints
  BY <1>37 DEF SweepSprints
<1>38. CASE SweepConsoles
  BY <1>38 DEF SweepConsoles
<1>39. CASE UNCHANGED vars
  BY <1>39 DEF vars
<1> QED
  BY <1>1, <1>2, <1>3, <1>4, <1>5, <1>6, <1>7, <1>8, <1>9, <1>10, <1>11,
     <1>12, <1>13, <1>14, <1>15, <1>16, <1>17, <1>18, <1>19, <1>20,
     <1>21, <1>22, <1>23, <1>24, <1>25, <1>26, <1>27, <1>28, <1>29,
     <1>30, <1>31, <1>32, <1>33, <1>34, <1>35, <1>36, <1>37, <1>38, <1>39
  DEF Next, Batch, Cycle, Finish, Sweep

-----------------------------------------------------------------------------
(* The theorems *)

\* Every reachable state satisfies the inductive invariant.
THEOREM Invariance == Spec => []Inv
<1>1. Inv /\ [Next]_vars => Inv'
  BY TypeStep, SlotStep, BacklogStep, ProgressStep, ShippingStep, HandlerStep,
     ConsoleStep DEF Inv
<1> QED
  BY InitInv, <1>1, PTL DEF Spec

\* The rows, the batch loop and the copies of requests stay well typed.
THEOREM Typing == Spec => []TypeOK
BY Invariance, PTL DEF Inv

\* A story listed as completed has its pull request open, a completed run lists
\* every story, and what an ended run lists is what the session rows call
\* shipped, whatever failed, was stopped or was approved on the way.
THEOREM RowsAlwaysAgree == Spec => []RowsAgree
<1>1. Inv => RowsAgree
  BY DEF Inv, TypeOK, Progress, Shipping, RowsAgree
<1> QED
  BY Invariance, <1>1, PTL

\* A console session that reports an end has no run executing or waiting, and
\* reports the outcome its backlog row has, unless its own start failed it.
THEOREM ConsoleNeverLies == Spec => []ConsoleIsHonest
BY Invariance, PTL DEF Inv

\* No step rewrites an outcome.
LEMMA OutcomeStep == Inv /\ [Next]_vars => OutcomeKept
<1> SUFFICES ASSUME Inv, [Next]_vars PROVE OutcomeKept
  OBVIOUS
<1> USE StoriesAssumption, CrashAssumption
    DEF Inv, TypeOK, Stories, Sessions, RunEnds, Admitted, Registered,
        Working, Shipped, Idle, ConsoleStatus, SlotBusy, Serving, Current,
        Behind, Live, bootVars, slotVars, rowVars, webVars, Slot, Backlog,
        Handler,
        OutcomeKept
<1>1. CASE StartRun
  BY <1>1 DEF StartRun
<1>2. CASE StartFails
  BY <1>2 DEF StartFails
<1>3. CASE StartSaved
  BY <1>3 DEF StartSaved
<1>4. CASE StartTicket
  BY <1>4 DEF StartTicket
<1>5. CASE Admit
  BY <1>5 DEF Admit
<1>6. CASE OnAdmit
  BY <1>6 DEF OnAdmit
<1>7. CASE PlanFails
  BY <1>7 DEF PlanFails
<1>8. CASE BatchStarts
  BY <1>8 DEF BatchStarts
<1>9. CASE BeginStory
  BY <1>9 DEF BeginStory
<1>10. CASE StopBetweenStories
  BY <1>10 DEF StopBetweenStories, SaveOutcome
<1>11. CASE BatchFails
  BY <1>11 DEF BatchFails, SaveOutcome
<1>12. CASE BatchCompletes
  BY <1>12 DEF BatchCompletes, SaveOutcome
<1>13. CASE RecordCompleted
  BY <1>13 DEF RecordCompleted
<1>14. CASE RecordFailed
  BY <1>14 DEF RecordFailed, SaveOutcome
<1>15. CASE Leave
  BY <1>15 DEF Leave
<1>16. CASE AdmitTicket
  BY <1>16 DEF AdmitTicket
<1>17. CASE TicketEnds
  BY <1>17 DEF TicketEnds
<1>18. CASE CycleFails
  BY <1>18 DEF CycleFails, Return
<1>19. CASE CycleStopped
  BY <1>19 DEF CycleStopped, Return
<1>20. CASE OpenPullRequest
  BY <1>20 DEF OpenPullRequest
<1>21. CASE ShipFails
  BY <1>21 DEF ShipFails, Return
<1>22. CASE MarkShipped
  BY <1>22 DEF MarkShipped
<1>23. CASE PersistProgress
  BY <1>23 DEF PersistProgress
<1>24. CASE CycleCompletes
  BY <1>24 DEF CycleCompletes, Return
<1>25. CASE Approve
  BY <1>25 DEF Approve
<1>26. CASE HardCancelCycle
  BY <1>26 DEF HardCancelCycle
<1>27. CASE Poll
  BY <1>27 DEF Poll
<1>28. CASE Mirror
  BY <1>28 DEF Mirror
<1>29. CASE PollSaved
  BY <1>29 DEF PollSaved
<1>30. CASE StopDead
  BY <1>30 DEF StopDead
<1>31. CASE StopQueued
  BY <1>31 DEF StopQueued
<1>32. CASE StopAdmitted
  BY <1>32 DEF StopAdmitted
<1>33. CASE CancelBacklogRun
  BY <1>33 DEF CancelBacklogRun
<1>34. CASE StopSaved
  BY <1>34 DEF StopSaved
<1>35. CASE Crash
  BY <1>35 DEF Crash
<1>36. CASE SweepRuns
  BY <1>36 DEF SweepRuns
<1>37. CASE SweepSprints
  BY <1>37 DEF SweepSprints
<1>38. CASE SweepConsoles
  BY <1>38 DEF SweepConsoles
<1>39. CASE UNCHANGED vars
  BY <1>39 DEF vars
<1> QED
  BY <1>1, <1>2, <1>3, <1>4, <1>5, <1>6, <1>7, <1>8, <1>9, <1>10, <1>11,
     <1>12, <1>13, <1>14, <1>15, <1>16, <1>17, <1>18, <1>19, <1>20,
     <1>21, <1>22, <1>23, <1>24, <1>25, <1>26, <1>27, <1>28, <1>29,
     <1>30, <1>31, <1>32, <1>33, <1>34, <1>35, <1>36, <1>37, <1>38, <1>39
  DEF Next, Batch, Cycle, Finish, Sweep

\* An outcome that was stored, of a run or of its session, is never replaced:
\* not by the admission hook, the Stop route, a poll's older copy or the sweep.
THEOREM OutcomesNeverRewritten == Spec => OutcomesStand
<1>1. Inv /\ [Next]_vars =>
        [/\ backlog \in RunEnds => backlog' = backlog
         /\ console \in RunEnds => console' = console]_vars
  BY OutcomeStep DEF OutcomeKept
<1> QED
  BY <1>1, Invariance, PTL DEF Spec, OutcomesStand

-----------------------------------------------------------------------------
(* The order of the stories. *)

NoRepeat(q) == \A i, j \in 1..Len(q) : q[i] = q[j] => i = j

\* A sequence lists a set: each element once.
Lists(q, set) == q \in Seq(Items) /\ ToSet(q) = set /\ NoRepeat(q)

\* The plan in hand, and what of it the cut has seen.
Planning ==
    /\ plan # <<>> /\ NoRepeat(plan)
    /\ at \in {"sort", "loop", "cutting"} /\ ~cut => whole = plan
    /\ at \in {"merge", "drop", "cutting"} => ~cut
    /\ at = "batch" => cut

\* The loop: what is ordered or queued is what waits for nothing but ordered
\* stories, and each was ordered after all it waits for.
Released ==
    at = "loop" =>
        /\ NoRepeat(ordered) /\ NoRepeat(queue)
        /\ ToSet(ordered) \cap ToSet(queue) = {}
        /\ ToSet(ordered) \cup ToSet(queue) =
              {s \in Present : Deps(s) \subseteq ToSet(ordered)}
        /\ \A s \in Present : degree[s] = Cardinality(Deps(s) \ ToSet(ordered))
        /\ \A s \in ToSet(ordered) : \A d \in Deps(s) : Before(ordered, d, s)
        /\ ToSet(ordered) \cap Stuck(Present) = {}

\* What is sorted is the plan, and the order is as it should be.
Sorted ==
    at \in {"cutting", "batch"} => Lists(ordered, Present) /\ DependenciesFirst

OrderInv == /\ OrderTypeOK /\ Planning /\ Released /\ Sorted
            /\ CutKeepsDependencies

-----------------------------------------------------------------------------
(* Sequences without repetition *)

LEMMA Finite ==
    ASSUME NEW S \in SUBSET Items
    PROVE  IsFiniteSet(S) /\ Cardinality(S) \in 0..Size
<1>1. IsFiniteSet(Items) /\ Cardinality(Items) = Size
  BY BacklogAssumption, FS_Interval DEF Items
<1>2. IsFiniteSet(S) /\ Cardinality(S) <= Size
  BY <1>1, FS_Subset
<1> QED  BY <1>2, FS_CardinalityType, BacklogAssumption

LEMMA Span ==
    ASSUME NEW n \in Nat PROVE IsFiniteSet(1..n) /\ Cardinality(1..n) = n
  BY FS_Interval

LEMMA Listed ==
    ASSUME NEW S \in SUBSET Items, NEW place, NEW D, S \subseteq D,
           place \in [D -> Nat], NEW q \in InOrder(S, place)
    PROVE  Lists(q, S) /\ Len(q) = Cardinality(S)
<1> DEFINE n == Cardinality(S)
<1>1. n \in Nat /\ IsFiniteSet(S)
  BY Finite, BacklogAssumption
<1>2. q \in [1..n -> S] /\ \A i, j \in 1..n : i < j => place[q[i]] < place[q[j]]
  BY DEF InOrder
<1>3. q \in Seq(Items) /\ Len(q) = n
  <2>1. q \in Seq(S) /\ Len(q) = n
    BY <1>1, <1>2, IsASeq
  <2> QED  BY <2>1
<1> HIDE DEF n
<1>4. NoRepeat(q)
  <2> SUFFICES ASSUME NEW i \in 1..n, NEW j \in 1..n, q[i] = q[j], i < j
               PROVE  FALSE
    BY <1>1, <1>3 DEF NoRepeat
  <2>1. place[q[i]] \in Nat
    BY <1>2
  <2> QED  BY <1>2, <2>1
<1>5. ToSet(q) = S
  <2>1. q \in Injection(1..n, S)
    BY <1>2, <1>3, <1>4 DEF Injection, IsInjective, NoRepeat
  <2>2. Cardinality(1..n) = n
    BY <1>1, FS_Interval
  <2>3. q \in Surjection(1..n, S)
    BY <1>1, <2>1, <2>2, FS_Injection DEF n
  <2> QED  BY <1>3, <2>3 DEF Surjection, ToSet
<1> QED  BY <1>3, <1>4, <1>5 DEF Lists, n

LEMMA Counted ==
    ASSUME NEW q, NEW S \in SUBSET Items, Lists(q, S)
    PROVE  Len(q) = Cardinality(S)
<1>1. q \in Bijection(1..Len(q), S)
  BY DEF Lists, NoRepeat, ToSet, Bijection, Injection, Surjection, IsInjective
<1>2. /\ Len(q) \in Nat
      /\ IsFiniteSet(1..Len(q)) /\ Cardinality(1..Len(q)) = Len(q)
  <2>1. Len(q) \in Nat
    BY DEF Lists
  <2> QED  BY <2>1, Span
<1> QED  BY <1>1, <1>2, FS_Bijection DEF ExistsBijection

LEMMA Joined ==
    ASSUME NEW p, NEW q, NEW S, NEW T, Lists(p, S), Lists(q, T), S \cap T = {}
    PROVE  /\ Lists(p \o q, S \cup T)
           /\ \A a, b \in Items : Before(p, a, b) => Before(p \o q, a, b)
           /\ \A a \in S, b \in T : Before(p \o q, a, b)
<1> DEFINE r == p \o q
<1>1. p \in Seq(Items) /\ q \in Seq(Items) /\ r \in Seq(Items)
  BY DEF Lists
<1>2. Len(p) \in Nat /\ Len(q) \in Nat /\ Len(r) = Len(p) + Len(q)
  BY <1>1
<1>3. /\ \A i \in 1..Len(p) : r[i] = p[i]
      /\ \A i \in 1..Len(q) : r[i + Len(p)] = q[i]
      /\ \A i \in 1..Len(r) : i \in 1..Len(p) \/ (i - Len(p)) \in 1..Len(q)
      /\ \A i \in 1..Len(r) : i \notin 1..Len(p) => r[i] = q[i - Len(p)]
  BY <1>1, <1>2
<1> HIDE DEF r
<1>4. ToSet(r) = S \cup T
  <2>1. S = {p[i] : i \in 1..Len(p)} /\ T = {q[i] : i \in 1..Len(q)}
        /\ ToSet(r) = {r[i] : i \in 1..Len(r)}
    BY <1>1 DEF Lists, ToSet
  <2>2. \A i \in 1..Len(q) : i + Len(p) \in 1..Len(r)
    BY <1>2
  <2>3. \A i \in 1..Len(p) : i \in 1..Len(r)
    BY <1>2
  <2> QED  BY <1>3, <2>1, <2>2, <2>3
<1>5. /\ \A i \in 1..Len(p) : p[i] \in S
      /\ \A i \in 1..Len(q) : q[i] \in T
  BY <1>1 DEF Lists, ToSet
<1>6. NoRepeat(r)
  <2> SUFFICES ASSUME NEW i \in 1..Len(r), NEW j \in 1..Len(r), r[i] = r[j]
               PROVE  i = j
    BY DEF NoRepeat
  <2>1. CASE i \in 1..Len(p) /\ j \in 1..Len(p)
    BY <1>3, <2>1 DEF Lists, NoRepeat
  <2>2. CASE i \notin 1..Len(p) /\ j \notin 1..Len(p)
    <3>1. PICK x, y \in 1..Len(q) : x = i - Len(p) /\ y = j - Len(p)
      BY <1>3, <2>2
    <3>2. q[x] = q[y]
      BY <1>3, <2>2, <3>1
    <3>3. x = y
      BY <3>2 DEF Lists, NoRepeat
    <3> QED  BY <1>2, <3>1, <3>3
  <2>3. CASE i \in 1..Len(p) /\ j \notin 1..Len(p)
    BY <1>3, <1>5, <2>3
  <2>4. CASE i \notin 1..Len(p) /\ j \in 1..Len(p)
    BY <1>3, <1>5, <2>4
  <2> QED  BY <2>1, <2>2, <2>3, <2>4
<1>7. ASSUME NEW a \in Items, NEW b \in Items, Before(p, a, b)
      PROVE  Before(r, a, b)
  <2>1. PICK i, j \in 1..Len(p) : i < j /\ p[i] = a /\ p[j] = b
    BY <1>1, <1>7 DEF Before
  <2>2. i \in 1..Len(r) /\ j \in 1..Len(r)
    BY <1>2
  <2> QED  BY <1>1, <1>3, <2>1, <2>2 DEF Before
<1>8. ASSUME NEW a \in S, NEW b \in T PROVE Before(r, a, b)
  <2>1. PICK i \in 1..Len(p) : p[i] = a
    BY <1>1 DEF Lists, ToSet
  <2>2. PICK j \in 1..Len(q) : q[j] = b
    BY <1>1 DEF Lists, ToSet
  <2>3. i \in 1..Len(r) /\ j + Len(p) \in 1..Len(r) /\ i < j + Len(p)
    BY <1>2
  <2>4. r[i] = a /\ r[j + Len(p)] = b
    BY <1>3, <2>1, <2>2
  <2>5. DOMAIN r = 1..Len(r)
    BY <1>1
  <2> QED  BY <2>3, <2>4, <2>5 DEF Before
<1> QED  BY <1>1, <1>4, <1>6, <1>7, <1>8 DEF Lists, r

LEMMA Tailed ==
    ASSUME NEW q, NEW S, Lists(q, S), q # <<>>
    PROVE  /\ Head(q) \in S /\ Lists(Tail(q), S \ {Head(q)})
<1>1. q \in Seq(Items) /\ Len(q) \in Nat \ {0} /\ Tail(q) \in Seq(Items)
      /\ Head(q) = q[1] /\ Len(Tail(q)) = Len(q) - 1
      /\ \A i \in 1..(Len(q) - 1) : Tail(q)[i] = q[i + 1]
  BY HeadTailProperties, EmptySeq DEF Lists
<1>2. Head(q) \in S
  BY <1>1 DEF Lists, ToSet
<1>3. NoRepeat(Tail(q))
  <2> SUFFICES ASSUME NEW i \in 1..(Len(q) - 1), NEW j \in 1..(Len(q) - 1),
                      Tail(q)[i] = Tail(q)[j]
               PROVE  i = j
    BY <1>1 DEF NoRepeat
  <2>1. i + 1 \in 1..Len(q) /\ j + 1 \in 1..Len(q) /\ q[i + 1] = q[j + 1]
    BY <1>1
  <2>2. i + 1 = j + 1
    BY <2>1 DEF Lists, NoRepeat
  <2> QED  BY <2>2
<1>4. ToSet(Tail(q)) = S \ {Head(q)}
  <2>1. S = {q[i] : i \in 1..Len(q)}
        /\ ToSet(Tail(q)) = {Tail(q)[i] : i \in 1..(Len(q) - 1)}
    <3>1. DOMAIN q = 1..Len(q) /\ DOMAIN Tail(q) = 1..(Len(q) - 1)
      BY <1>1
    <3> QED  BY <3>1 DEF Lists, ToSet
  <2>2. \A i \in 1..(Len(q) - 1) :
           i + 1 \in 1..Len(q) /\ i + 1 # 1 /\ 1 \in 1..Len(q)
    BY <1>1
  <2>3. \A i \in 1..Len(q) :
           i = 1 \/ ((i - 1) \in 1..(Len(q) - 1) /\ (i - 1) + 1 = i)
    BY <1>1
  <2>4. \A i \in 1..(Len(q) - 1) : Tail(q)[i] \in S \ {Head(q)}
    BY <1>1, <2>1, <2>2 DEF Lists, NoRepeat
  <2>5. ASSUME NEW a \in S \ {Head(q)} PROVE a \in ToSet(Tail(q))
    <3>1. PICK i \in 1..Len(q) : q[i] = a
      BY <2>1
    <3>2. Tail(q)[i - 1] = a /\ i - 1 \in 1..(Len(q) - 1)
      BY <1>1, <2>3, <2>5, <3>1
    <3> QED  BY <2>1, <3>2
  <2> QED  BY <2>1, <2>4, <2>5
<1> QED  BY <1>1, <1>2, <1>3, <1>4 DEF Lists

LEMMA Shortened ==
    ASSUME NEW q, NEW S, Lists(q, S), NEW n \in Nat, n <= Len(q)
    PROVE  LET p == SubSeq(q, 1, n)
           IN  /\ Lists(p, ToSet(p)) /\ ToSet(p) \subseteq S /\ Len(p) = n
               /\ \A a, b : Before(q, a, b) /\ b \in ToSet(p) => a \in ToSet(p)
<1> DEFINE p == SubSeq(q, 1, n)
<1>1. q \in Seq(Items) /\ Len(q) \in Nat /\ p \in Seq(Items) /\ Len(p) = n
      /\ \A i \in 1..n : p[i] = q[i] /\ i \in 1..Len(q)
  BY SubSeqProperties DEF Lists
<1> HIDE DEF p
<1>2. ToSet(p) = {q[i] : i \in 1..n} /\ S = {q[i] : i \in 1..Len(q)}
  BY <1>1 DEF Lists, ToSet
<1>3. NoRepeat(p)
  BY <1>1 DEF Lists, NoRepeat
<1>4. ASSUME NEW a, NEW b, Before(q, a, b), b \in ToSet(p) PROVE a \in ToSet(p)
  <2>1. PICK i, j \in 1..Len(q) : i < j /\ q[i] = a /\ q[j] = b
    BY <1>1, <1>4 DEF Before
  <2>2. PICK k \in 1..n : q[k] = b
    BY <1>2, <1>4
  <2>3. k = j
    BY <1>1, <2>1, <2>2 DEF Lists, NoRepeat
  <2>4. i \in 1..n
    BY <2>1, <2>2, <2>3
  <2> QED  BY <1>2, <2>1, <2>4
<1> QED  BY <1>1, <1>2, <1>3, <1>4 DEF Lists, p

-----------------------------------------------------------------------------
(* Stories that wait for one another *)

\* A story that waits only for stories outside a cycle's reach is outside it.
LEMMA Unstuck ==
    ASSUME NEW S, NEW s \in S, deps[s] \cap S \cap Stuck(S) = {}
    PROVE  s \notin Stuck(S)
<1> SUFFICES ASSUME NEW T \in SUBSET S, s \in T,
                    \A x \in T : deps[x] \cap T # {}
             PROVE  FALSE
  BY DEF Stuck
<1>1. PICK d \in deps[s] \cap T : TRUE
  OBVIOUS
<1>2. d \in S /\ d \in Stuck(S)
  BY <1>1 DEF Stuck
<1> QED  BY <1>1, <1>2

\* What is left when nothing more is released waits for one another.
LEMMA LeftStuck ==
    ASSUME NEW S, NEW R \in SUBSET S, \A s \in R : deps[s] \cap R # {}
    PROVE  R \subseteq Stuck(S)
  BY DEF Stuck

-----------------------------------------------------------------------------
(* The steps *)

LEMMA PlanListed ==
    ASSUME OrderInv
    PROVE  /\ Lists(plan, Present) /\ Present \in SUBSET Items /\ Present # {}
           /\ Place \in [Present -> Nat] /\ Len(plan) \in Nat \ {0}
           /\ rank \in [Items -> Nat]
<1>1. plan \in Seq(Items) /\ NoRepeat(plan) /\ plan # <<>>
  BY DEF OrderInv, OrderTypeOK, Planning
<1>2. Len(plan) \in Nat \ {0} /\ Present = {plan[i] : i \in 1..Len(plan)}
  BY <1>1, EmptySeq DEF Present, ToSet
<1>3. \A i \in 1..Len(plan) : plan[i] \in Items
  BY <1>1
<1>4. ASSUME NEW s \in Present PROVE Place[s] \in Nat
  <2>1. \E i \in DOMAIN plan : plan[i] = s
    BY <1>1, <1>2
  <2>2. Place[s] \in DOMAIN plan
    BY <2>1 DEF Place
  <2> QED  BY <1>1, <2>2
<1>5. Place \in [Present -> Nat]
  BY <1>4 DEF Place
<1>6. rank \in [Items -> Nat]
  <2>1. rank \in [Items -> Items]
    BY DEF OrderInv, OrderTypeOK
  <2>2. \A x \in Items : x \in Nat
    BY DEF Items
  <2> QED  BY <2>1, <2>2
<1> QED  BY <1>1, <1>2, <1>3, <1>5, <1>6 DEF Lists, Present

LEMMA MergeKeeps ==
    ASSUME OrderInv, Merge PROVE OrderInv'
<1>1. /\ at = "merge" /\ at' = "drop" /\ ~cut /\ ~cut'
      /\ UNCHANGED <<rank, cut, degree, queue, ordered, whole>>
  BY DEF Merge, OrderInv, Planning
<1>2. /\ plan' \in Seq(Items) /\ plan' # <<>> /\ NoRepeat(plan')
      /\ deps' \in [Items -> SUBSET Items]
  <2>1. CASE UNCHANGED <<plan, deps>>
    BY <2>1 DEF OrderInv, OrderTypeOK, Planning
  <2>2. CASE plan' = <<Head(plan)>> /\ deps' = [deps EXCEPT ![Head(plan)] = {}]
    <3>1. Head(plan) \in Items
      BY PlanListed, Tailed DEF OrderInv, Planning
    <3>2. Len(plan') = 1 /\ plan' \in Seq(Items) /\ plan' # <<>>
      BY <2>2, <3>1
    <3> QED  BY <2>2, <3>2 DEF NoRepeat, OrderInv, OrderTypeOK
  <2> QED  BY <2>1, <2>2 DEF Merge
<1> QED
  BY <1>1, <1>2 DEF OrderInv, OrderTypeOK, Planning, Released, Sorted,
     CutKeepsDependencies

LEMMA DropKeeps ==
    ASSUME OrderInv, Drop PROVE OrderInv'
<1>1. PICK noise \in (SUBSET Present) \ {Present} :
        plan' \in InOrder(Present \ noise, Place)
  BY DEF Drop
<1>2. /\ at = "drop" /\ at' = "sort" /\ ~cut /\ ~cut' /\ whole' = plan'
      /\ UNCHANGED <<deps, rank, cut, degree, queue, ordered>>
  BY DEF Drop, input, OrderInv, Planning
<1>3. Lists(plan', Present \ noise) /\ Present \ noise # {}
  BY <1>1, PlanListed, Listed
<1>4. plan' \in Seq(Items) /\ plan' # <<>> /\ NoRepeat(plan')
  BY <1>3 DEF Lists, ToSet
<1> QED
  BY <1>2, <1>4 DEF OrderInv, OrderTypeOK, Planning, Released, Sorted,
     CutKeepsDependencies

LEMMA CountKeeps ==
    ASSUME OrderInv, Count PROVE OrderInv'
<1>1. /\ at = "sort" /\ at' = "loop" /\ ordered' = <<>>
      /\ UNCHANGED <<deps, rank, cut, plan, whole>>
      /\ Present' = Present /\ \A s : Deps(s)' = Deps(s)
      /\ \A S : Stuck(S)' = Stuck(S)
  BY DEF Count, input, Present, Deps, Stuck
<1>2. \A s \in Items : Cardinality(Deps(s)) \in 0..Size
  BY PlanListed, Finite DEF Deps
<1>3. /\ degree' \in [Items -> 0..Size]
      /\ \A s \in Present : degree'[s] = Cardinality(Deps(s))
  BY <1>2, PlanListed, BacklogAssumption DEF Count
<1>4. Lists(queue', {s \in Present : Deps(s) = {}})
  <2>1. {s \in Present : Deps(s) = {}} \in SUBSET Items
    BY PlanListed
  <2> QED  BY <2>1, PlanListed, Listed DEF Count
<1>5. ToSet(<<>>) = {} /\ NoRepeat(<<>>) /\ <<>> \in Seq(Items)
  BY DEF ToSet, NoRepeat
<1>6. OrderTypeOK'
  BY <1>1, <1>3, <1>4, <1>5 DEF OrderInv, OrderTypeOK, Lists
<1>7. Planning'
  BY <1>1 DEF OrderInv, Planning
<1>8. Released'
  BY <1>1, <1>3, <1>4, <1>5 DEF Released, Lists
<1>9. Sorted' /\ CutKeepsDependencies'
  BY <1>1 DEF OrderInv, Sorted, CutKeepsDependencies
<1> QED  BY <1>6, <1>7, <1>8, <1>9 DEF OrderInv

LEMMA PopKeeps ==
    ASSUME OrderInv, Pop PROVE OrderInv'
<1> DEFINE s == Head(queue)  free == {c \in Children(s) : degree'[c] = 0}
           O == ToSet(ordered)  Q == ToSet(queue)
<1>1. /\ at = "loop" /\ queue # <<>> /\ ordered' = Append(ordered, s)
      /\ degree' = [c \in Items |->
            IF c \in Children(s) THEN degree[c] - 1 ELSE degree[c]]
      /\ UNCHANGED <<deps, rank, at, cut, plan, whole>>
      /\ Present' = Present /\ \A x : Deps(x)' = Deps(x)
      /\ \A S : Stuck(S)' = Stuck(S)
  BY DEF Pop, input, Present, Deps, Stuck
<1>2. PICK ready \in InOrder(free, Place) : queue' = Tail(queue) \o ready
  BY DEF Pop
<1>3. /\ Lists(ordered, O) /\ Lists(queue, Q) /\ O \cap Q = {}
      /\ O \cup Q = {x \in Present : Deps(x) \subseteq O}
      /\ \A x \in Present : degree[x] = Cardinality(Deps(x) \ O)
      /\ \A x \in O : \A d \in Deps(x) : Before(ordered, d, x)
      /\ O \cap Stuck(Present) = {}
  BY <1>1 DEF OrderInv, OrderTypeOK, Released, Lists
<1>4. /\ s \in Q /\ s \in Present /\ Deps(s) \subseteq O /\ s \notin O
      /\ Lists(Tail(queue), Q \ {s}) /\ s \in Items
  BY <1>1, <1>3, Tailed, PlanListed
<1>5. Lists(ready, free)
  <2>1. free \subseteq Present
    BY DEF Children
  <2> QED  BY <2>1, <1>2, PlanListed, Listed
<1> HIDE DEF O, Q, s
<1>6. /\ Lists(ordered', O \cup {s})
      /\ \A a, b \in Items : Before(ordered, a, b) => Before(ordered', a, b)
      /\ \A a \in O : Before(ordered', a, s)
  <2>1. Lists(<<s>>, {s}) /\ O \cap {s} = {}
    BY <1>4 DEF Lists, ToSet, NoRepeat
  <2>2. ordered' = ordered \o <<s>>
    BY <1>1, <1>3, <1>4 DEF Lists, s
  <2> QED  BY <1>3, <2>1, <2>2, Joined
<1>7. ASSUME NEW c \in Present
      PROVE  /\ degree'[c] = Cardinality(Deps(c) \ (O \cup {s}))
             /\ degree'[c] \in 0..Size
             /\ degree'[c] = 0 <=> Deps(c) \subseteq O \cup {s}
  <2> DEFINE R == Deps(c) \ O
  <2>1. R \in SUBSET Items /\ R \ {s} \in SUBSET Items
        /\ Deps(c) \ (O \cup {s}) = R \ {s}
    BY PlanListed DEF Deps
  <2>2. s \in R <=> c \in Children(s)
    BY <1>4 DEF Children, Deps
  <2> HIDE DEF R
  <2>3. /\ IsFiniteSet(R) /\ Cardinality(R) \in 0..Size
        /\ IsFiniteSet(R \ {s}) /\ Cardinality(R \ {s}) \in 0..Size
        /\ Cardinality(R \ {s}) =
              IF s \in R THEN Cardinality(R) - 1 ELSE Cardinality(R)
    BY <2>1, Finite, FS_RemoveElement
  <2>4. degree[c] = Cardinality(R) /\ c \in Items
    BY <1>3, PlanListed DEF R
  <2>5. degree'[c] = Cardinality(R \ {s})
    BY <1>1, <2>2, <2>3, <2>4 DEF s
  <2>6. Cardinality(R \ {s}) = 0 <=> R \ {s} = {}
    BY <2>3, FS_EmptySet
  <2> QED  BY <2>1, <2>3, <2>5, <2>6
<1>8. free = {c \in Present : s \in Deps(c) /\ Deps(c) \subseteq O \cup {s}}
  <2>1. \A c : c \in Children(s) <=> c \in Present /\ s \in Deps(c)
    BY <1>4 DEF Children, Deps
  <2> QED  BY <1>7, <2>1 DEF s
<1> HIDE DEF free
<1>9. Lists(queue', (Q \ {s}) \cup free)
  <2>1. (Q \ {s}) \cap free = {}
    BY <1>3, <1>4, <1>8
  <2> QED  BY <1>2, <1>4, <1>5, <2>1, Joined
<1>10. OrderTypeOK'
  <2>1. degree' \in [Items -> 0..Size]
    <3>1. \A c \in Items : degree'[c] \in 0..Size
      BY <1>1, <1>7 DEF OrderInv, OrderTypeOK, Children, s
    <3> QED  BY <1>1, <3>1 DEF s
  <2> QED  BY <1>1, <1>6, <1>9, <2>1 DEF OrderInv, OrderTypeOK, Lists
<1>11. Planning'
  BY <1>1 DEF OrderInv, Planning
<1>12. Released'
  <2> DEFINE P == O \cup {s}
  <2>1. ToSet(ordered') = P /\ ToSet(queue') = (Q \ {s}) \cup free
        /\ NoRepeat(ordered') /\ NoRepeat(queue')
    BY <1>6, <1>9 DEF Lists
  <2>2. P \cap ((Q \ {s}) \cup free) = {}
    BY <1>3, <1>4, <1>8
  <2>3. P \cup ((Q \ {s}) \cup free) = {x \in Present : Deps(x) \subseteq P}
    BY <1>3, <1>4, <1>8
  <2>4. ASSUME NEW x \in P, NEW d \in Deps(x) PROVE Before(ordered', d, x)
    <3>1. CASE x = s
      BY <1>4, <1>6, <2>4, <3>1
    <3>2. CASE x \in O
      <4>1. d \in Items /\ x \in Items
        BY <1>3, <3>2, PlanListed DEF Deps
      <4> QED  BY <1>3, <1>6, <3>2, <4>1
    <3> QED  BY <3>1, <3>2
  <2>5. P \cap Stuck(Present) = {}
    <3>1. s \notin Stuck(Present)
      BY <1>3, <1>4, Unstuck DEF Deps
    <3> QED  BY <1>3, <3>1
  <2> HIDE DEF P
  <2>6. \A x \in Present : degree'[x] = Cardinality(Deps(x) \ P)
    BY <1>7 DEF P
  <2> QED  BY <1>1, <2>1, <2>2, <2>3, <2>4, <2>5, <2>6 DEF Released
<1>13. Sorted' /\ CutKeepsDependencies'
  BY <1>1 DEF OrderInv, Sorted, CutKeepsDependencies
<1> QED  BY <1>10, <1>11, <1>12, <1>13 DEF OrderInv

LEMMA LeftoversKeeps ==
    ASSUME OrderInv, Leftovers PROVE OrderInv'
<1> DEFINE O == ToSet(ordered)  R == Present \ O
<1>1. /\ at = "loop" /\ queue = <<>> /\ at' \in {"cutting", "batch"}
      /\ at' = "cutting" => ~cut
      /\ at' = "batch" => cut
      /\ UNCHANGED <<deps, rank, cut, plan, degree, queue, whole>>
      /\ Present' = Present /\ \A x : Deps(x)' = Deps(x)
      /\ \A S : Stuck(S)' = Stuck(S)
  BY DEF Leftovers, input, Present, Deps, Stuck, OrderInv, OrderTypeOK
<1>2. PICK rest \in InOrder(R, Place) : ordered' = ordered \o rest
  BY DEF Leftovers
<1>3. /\ Lists(ordered, O) /\ O = {x \in Present : Deps(x) \subseteq O}
      /\ \A x \in O : \A d \in Deps(x) : Before(ordered, d, x)
      /\ O \cap Stuck(Present) = {}
  <2>1. ToSet(queue) = {}
    BY <1>1 DEF ToSet
  <2> QED  BY <1>1, <2>1 DEF OrderInv, OrderTypeOK, Released, Lists
<1>4. Lists(rest, R)
  BY <1>2, PlanListed, Listed
<1>5. R = Present \cap Stuck(Present)
  <2>1. \A x \in R : deps[x] \cap R # {}
    BY <1>3 DEF Deps
  <2>2. R \subseteq Stuck(Present)
    BY <2>1, LeftStuck
  <2> QED  BY <1>3, <2>2
<1>6. O \subseteq Present /\ O \cup R = Present /\ O \cap R = {}
  BY <1>3
<1> HIDE DEF O, R
<1>7. /\ Lists(ordered', Present)
      /\ \A a, b \in Items : Before(ordered, a, b) => Before(ordered', a, b)
      /\ \A a \in O, b \in R : Before(ordered', a, b)
  <2>1. /\ Lists(ordered \o rest, O \cup R)
        /\ \A a, b \in Items :
              Before(ordered, a, b) => Before(ordered \o rest, a, b)
        /\ \A a \in O, b \in R : Before(ordered \o rest, a, b)
    <3>1. Lists(ordered, O) /\ O \cap R = {}
      BY <1>3, <1>6
    <3> QED  BY <1>4, <3>1, Joined
  <2> QED  BY <1>2, <1>6, <2>1
<1>8. Len(ordered') = Len(plan)
  BY <1>7, PlanListed, Counted
<1>9. DependenciesFirst'
  <2>1. Present \ Stuck(Present) = O
    BY <1>3, <1>5, <1>6
  <2>2. Stuck(Present) \subseteq Present
    BY DEF Stuck
  <2>3. \A x \in O : \A d \in Deps(x) : Before(ordered', d, x)
    BY <1>3, <1>6, <1>7, PlanListed DEF Deps
  <2>4. \A x \in O, t \in Stuck(Present) : Before(ordered', x, t)
    BY <1>5, <1>7, <2>2
  <2> QED
    BY <1>1, <1>7, <1>8, <2>1, <2>3, <2>4 DEF DependenciesFirst, Lists
<1>10. OrderTypeOK' /\ Planning'
  BY <1>1, <1>7 DEF OrderInv, OrderTypeOK, Planning, Lists
<1>11. Released' /\ Sorted'
  BY <1>1, <1>7, <1>9 DEF Released, Sorted
<1>12. CutKeepsDependencies'
  BY <1>1 DEF OrderInv, CutKeepsDependencies
<1> QED  BY <1>10, <1>11, <1>12 DEF OrderInv

LEMMA CutKeeps ==
    ASSUME OrderInv, Cut PROVE OrderInv'
<1>1. /\ at = "cutting" /\ at' = "sort" /\ cut' = TRUE /\ whole = plan
      /\ UNCHANGED <<deps, rank, degree, queue, ordered, whole>>
      /\ \A S : Stuck(S)' = Stuck(S)
  BY DEF Cut, input, Stuck, OrderInv, Planning
<1>2. Lists(ordered, Present) /\ DependenciesFirst
  BY <1>1 DEF OrderInv, Sorted
<1>3. /\ plan' \in Seq(Items) /\ plan' # <<>> /\ NoRepeat(plan')
      /\ \A s \in ToSet(plan') \ Stuck(Present) :
            deps[s] \cap Present \subseteq ToSet(plan')
  <2>1. CASE plan' = plan
    BY <2>1 DEF OrderInv, OrderTypeOK, Planning, Present
  <2>2. CASE Len(ordered) > Cap /\ plan' = SubSeq(ordered, 1, Cap)
    <3>1. Len(ordered) \in Nat /\ Cap \in Nat \ {0}
      BY <1>2, BacklogAssumption DEF Lists
    <3>2. /\ Lists(plan', ToSet(plan')) /\ ToSet(plan') \subseteq Present
          /\ Len(plan') = Cap
          /\ \A a, b : Before(ordered, a, b) /\ b \in ToSet(plan')
                => a \in ToSet(plan')
      BY <1>2, <2>2, <3>1, Shortened
    <3>3. \A s \in Present \ Stuck(Present) :
             \A d \in deps[s] \cap Present : Before(ordered, d, s)
      BY <1>1, <1>2 DEF DependenciesFirst, Deps
    <3>4. plan' # <<>>
      BY <3>1, <3>2
    <3> QED  BY <3>2, <3>3, <3>4 DEF Lists
  <2> QED  BY <2>1, <2>2 DEF Cut
<1>4. OrderTypeOK' /\ Planning'
  BY <1>1, <1>3 DEF OrderInv, OrderTypeOK, Planning
<1>5. Released' /\ Sorted'
  BY <1>1 DEF Released, Sorted
<1>6. CutKeepsDependencies'
  BY <1>1, <1>3 DEF CutKeepsDependencies, Present
<1> QED  BY <1>4, <1>5, <1>6 DEF OrderInv

-----------------------------------------------------------------------------
(* Every part of the plan can be put in order *)

LEMMA Least ==
    ASSUME NEW S \in SUBSET Nat, S # {}
    PROVE  \E x \in S : \A y \in S : x <= y
<1> DEFINE R == OpToRel(<, Nat)
<1>1. \A x, y \in Nat : y < x => <<y, x>> \in R
  BY Zenon DEF OpToRel
<1>2. IsWellFoundedOn(R, Nat)
  BY NatLessThanWellFounded
<1> HIDE DEF R
<1>3. PICK x \in S : \A y \in S : ~(<<y, x>> \in R)
  BY <1>2, WFMin
<1>4. ASSUME NEW y \in S PROVE x <= y
  <2>1. ~(y < x)
    BY <1>1, <1>3, Zenon
  <2> QED  BY <2>1
<1> QED  BY <1>4

\* A smallest set that cannot be ordered would have a least story, and the
\* others can be ordered behind it.
LEMMA CanOrder ==
    ASSUME NEW D \in SUBSET Items, NEW place \in [D -> Nat],
           \A x, y \in D : place[x] = place[y] => x = y
    PROVE  \A S \in SUBSET D : InOrder(S, place) # {}
<1> DEFINE Bad == {S \in SUBSET D : InOrder(S, place) = {}}
           Sizes == {Cardinality(S) : S \in Bad}
<1>1. \A S \in SUBSET D : IsFiniteSet(S) /\ Cardinality(S) \in Nat
  BY Finite, BacklogAssumption
<1> SUFFICES ASSUME Bad # {} PROVE FALSE
  OBVIOUS
<1>2. Sizes \in SUBSET Nat /\ Sizes # {}
  BY <1>1
<1>3. PICK S \in Bad : \A T \in Bad : Cardinality(S) <= Cardinality(T)
  <2>1. PICK k \in Sizes : \A l \in Sizes : k <= l
    BY <1>2, Least
  <2>2. \A T \in Bad : Cardinality(T) \in Sizes
    OBVIOUS
  <2> QED  BY <2>1, <2>2
<1>4. S \in SUBSET D /\ InOrder(S, place) = {}
  OBVIOUS
<1>5. CASE S = {}
  <2> DEFINE e == [i \in 1..0 |-> i]
  <2>1. Cardinality(S) = 0 /\ 1..0 = {}
    BY <1>5, FS_EmptySet
  <2>2. e \in [1..Cardinality(S) -> S] /\ DOMAIN e = {}
    BY <2>1
  <2>3. e \in InOrder(S, place)
    BY <2>2 DEF InOrder
  <2> QED  BY <1>4, <2>3
<1>6. CASE S # {}
  <2>1. PICK s \in S : \A x \in S : place[s] <= place[x]
    <3> DEFINE P == {place[x] : x \in S}
    <3>1. P \in SUBSET Nat /\ P # {}
      BY <1>4, <1>6
    <3>2. PICK p \in P : \A y \in P : p <= y
      BY <3>1, Least
    <3> QED  BY <3>2
  <2> DEFINE T == S \ {s}
             n == Cardinality(T)
  <2>2. T \in SUBSET D /\ n \in Nat /\ Cardinality(S) = n + 1
    BY <1>1, <1>4, FS_RemoveElement
  <2>3. PICK q \in [1..n -> T] : \A i, j \in 1..n : i < j => place[q[i]] < place[q[j]]
    <3>1. T \notin Bad
      BY <1>3, <2>2
    <3>2. PICK q : q \in InOrder(T, place)
      BY <2>2, <3>1
    <3>3. q \in [1..n -> T] /\ DOMAIN q = 1..n
      BY <3>2 DEF InOrder
    <3> QED  BY <3>2, <3>3 DEF InOrder
  <2> HIDE DEF n
  <2> DEFINE r == [i \in 1..(n + 1) |-> IF i = 1 THEN s ELSE q[i - 1]]
  <2>4. \A i \in 1..(n + 1) : i # 1 => i - 1 \in 1..n
    BY <2>2
  <2>5. r \in [1..(n + 1) -> S]
    BY <2>3, <2>4
  <2>6. ASSUME NEW i \in 1..(n + 1), NEW j \in 1..(n + 1), i < j
        PROVE  place[r[i]] < place[r[j]]
    <3>1. j # 1 /\ j - 1 \in 1..n /\ r[j] = q[j - 1]
      BY <2>2, <2>4, <2>6
    <3>2. CASE i = 1
      <4>1. r[j] \in T /\ r[i] = s
        BY <2>3, <3>1, <3>2
      <4>2. place[s] <= place[r[j]] /\ place[s] # place[r[j]]
        BY <1>4, <2>1, <4>1
      <4>3. place[s] \in Nat /\ place[r[j]] \in Nat
        BY <1>4, <4>1
      <4> QED  BY <4>1, <4>2, <4>3
    <3>3. CASE i # 1
      <4>1. i - 1 \in 1..n /\ r[i] = q[i - 1] /\ i - 1 < j - 1
        BY <2>2, <2>4, <2>6, <3>3
      <4> QED  BY <2>3, <3>1, <4>1
    <3> QED  BY <3>2, <3>3
  <2> HIDE DEF r
  <2>7. DOMAIN r = 1..(n + 1)
    BY <2>5
  <2>8. r \in InOrder(S, place)
    BY <2>2, <2>5, <2>6, <2>7 DEF InOrder
  <2> QED  BY <1>4, <2>8
<1> QED  BY <1>5, <1>6

\* The keys stay distinct: no step touches them.
Keyed == \A x, y \in Items : rank[x] = rank[y] => x = y

LEMMA KeysKept == OrderSpec => []Keyed
<1>1. OrderInit => Keyed
  BY DEF OrderInit, Keyed, IsInjective
<1>2. Keyed /\ [OrderNext]_orderVars => Keyed'
  BY DEF Keyed, OrderNext, Merge, Drop, Count, Pop, Leftovers, Cut, orderVars,
     input
<1> QED  BY <1>1, <1>2, PTL DEF OrderSpec

LEMMA PlacesApart ==
    ASSUME OrderInv, Keyed PROVE AlwaysInOrder
<1>1. /\ Present \in SUBSET Items /\ Place \in [Present -> Nat]
      /\ rank \in [Items -> Nat]
  BY PlanListed
<1>2. \A x \in Present : plan[Place[x]] = x
  BY DEF Present, Place, ToSet
<1>3. \A S \in SUBSET Present : InOrder(S, Place) # {}
  BY <1>1, <1>2, CanOrder
<1>4. \A S \in SUBSET Items : InOrder(S, rank) # {}
  BY <1>1, CanOrder DEF Keyed
<1> QED  BY <1>1, <1>3, <1>4 DEF AlwaysInOrder

-----------------------------------------------------------------------------
(* The invariant and the theorems of the order *)

LEMMA OrderInitInv == OrderInit => OrderInv
<1> SUFFICES ASSUME OrderInit PROVE OrderInv
  OBVIOUS
<1>1. /\ plan \in Seq(Items) /\ Len(plan) = Size /\ NoRepeat(plan)
      /\ plan # <<>> /\ whole = plan
  <2>1. plan \in [1..Size -> Items] /\ Size \in Nat \ {0}
    BY BacklogAssumption DEF OrderInit, Items
  <2>2. plan \in Seq(Items) /\ Len(plan) = Size
    BY <2>1, IsASeq
  <2>3. \A i \in 1..Size : plan[i] = i
    BY DEF OrderInit, Items
  <2> QED  BY <2>1, <2>2, <2>3 DEF NoRepeat, OrderInit
<1>2. <<>> \in Seq(Items) /\ 0 \in 0..Size
  BY BacklogAssumption
<1> QED
  BY <1>1, <1>2 DEF OrderInit, OrderInv, OrderTypeOK, Planning, Released,
     Sorted, CutKeepsDependencies

LEMMA OrderStepInv == OrderInv /\ [OrderNext]_orderVars => OrderInv'
<1> SUFFICES ASSUME OrderInv, [OrderNext]_orderVars PROVE OrderInv'
  OBVIOUS
<1>1. CASE UNCHANGED orderVars
  <2>1. /\ UNCHANGED <<deps, rank, at, cut, plan, degree, queue, ordered,
                     whole>>
        /\ Present' = Present /\ \A x : Deps(x)' = Deps(x)
        /\ \A S : Stuck(S)' = Stuck(S)
    BY <1>1 DEF orderVars, Present, Deps, Stuck
  <2>2. OrderTypeOK' /\ Planning'
    BY <2>1 DEF OrderInv, OrderTypeOK, Planning
  <2>3. Released'
    BY <2>1 DEF OrderInv, Released
  <2>4. Sorted' /\ CutKeepsDependencies'
    BY <2>1 DEF OrderInv, Sorted, DependenciesFirst, CutKeepsDependencies
  <2> QED  BY <2>2, <2>3, <2>4 DEF OrderInv
<1>2. CASE OrderNext
  BY <1>2, MergeKeeps, DropKeeps, CountKeeps, PopKeeps, LeftoversKeeps, CutKeeps
     DEF OrderNext
<1> QED  BY <1>1, <1>2

LEMMA OrderInvariant == OrderSpec => []OrderInv
  BY OrderInitInv, OrderStepInv, PTL DEF OrderSpec

\* The plan, the queue and the counts keep their types: no indegree falls
\* below zero.
THEOREM OrderTyped == OrderSpec => []OrderTypeOK
<1>1. OrderInv => OrderTypeOK
  BY DEF OrderInv
<1> QED  BY <1>1, OrderInvariant, PTL

\* sort_stories puts every story of any plan once, after all it depends on,
\* and the stories on or behind a cycle last.
THEOREM SortedByDependency == OrderSpec => []DependenciesFirst
<1>1. OrderInv => DependenciesFirst
  BY DEF OrderInv, Sorted, DependenciesFirst
<1> QED  BY <1>1, OrderInvariant, PTL

\* normalize_backlog_plan keeps with a story all of the plan that it waits
\* for, whatever the cap.
THEOREM CutIsClosed == OrderSpec => []CutKeepsDependencies
<1>1. OrderInv => CutKeepsDependencies
  BY DEF OrderInv
<1> QED  BY <1>1, OrderInvariant, PTL

\* Every list that sort_stories and normalize_backlog_plan build is there to be
\* built, for any part of any plan: the loop never stops half way for want of
\* an order.
THEOREM ListsExist == OrderSpec => []AlwaysInOrder
<1>1. OrderInv /\ Keyed => AlwaysInOrder
  BY PlacesApart
<1> QED  BY <1>1, OrderInvariant, KeysKept, PTL
=============================================================================
