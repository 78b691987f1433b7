--------------------------- MODULE RunLanesProofs ---------------------------
(***************************************************************************)
(* The registry and the model lanes under it, for any set of runs.         *)
(*                                                                         *)
(* First the registry, with and without teardowns, early cancels included: *)
(* types, the single permit, what active_run_id says, what a Stop in the   *)
(* queue guarantees, and the single-slot queue it implements.              *)
(*                                                                         *)
(* Then the lanes.  The permit makes the lane operations of bodies         *)
(* exclusive; teardown is outside the permit and only ever stops lanes.    *)
(* So a lane that is up has a body that may still use it or a teardown     *)
(* that has yet to pass it, and a start script in flight has the body that *)
(* waits for it, unless a hard cancel abandoned one.                       *)
(***************************************************************************)
EXTENDS RunLanes, SequenceTheorems, TLAPS

Distinct(s) == \A i, j \in 1..Len(s) : s[i] = s[j] => i = j

\* Where the wrappers of each queue are suspended, once each.
Queues ==
    /\ \A i \in 1..Len(parked) : pc[parked[i]] = "parked" /\ ~stopped[parked[i]]
    /\ \A i \in 1..Len(ready) : pc[ready[i]] = "created"
    /\ Distinct(parked) /\ Distinct(ready)

\* Who may own the permit, and who may have a body.
Permit ==
    /\ \A r \in Runs : pc[r] \in Holding => slot = r
    /\ slot \in Runs => pc[slot] \in Holding
    /\ slot = Free => parked = <<>>
    /\ \A r \in Runs : body[r] \in {"running", "hit"} => pc[r] = "awaiting"

\* The entry of a run at each suspension point.
Entry ==
    \A r \in Runs :
        /\ pc[r] = "unborn" => r \notin entries /\ state[r] = "queued"
                                 /\ ~stopped[r] /\ body[r] = "none"
        /\ pc[r] = "created" => r \in entries /\ state[r] = "queued"
                                  /\ ~stopped[r] /\ body[r] = "none"
        /\ pc[r] = "stillborn" => state[r] = "done" /\ body[r] = "none"
        /\ pc[r] \in {"parked", "granted"} =>
              /\ r \in entries /\ body[r] = "none"
              /\ state[r] = IF stopped[r] THEN "done" ELSE "queued"
        /\ pc[r] \in Live => /\ r \in entries /\ ~stopped[r]
                             /\ state[r] \in {"running", "cancelling"}
        /\ pc[r] = "admitting" => body[r] = "none"
        /\ pc[r] \in {"teardown", "gone"} =>
              /\ r \notin entries /\ state[r] = "done"
              /\ stopped[r] => body[r] = "none"

Inv == TypeOK /\ Queues /\ Permit /\ Entry

-----------------------------------------------------------------------------
(* deque.remove *)

\* Removing a run from a queue leaves a queue of the same runs.
LEMMA DequeueType ==
    ASSUME NEW s \in Seq(Runs), NEW r \in Runs
    PROVE  /\ Dequeue(s, r) \in Seq(Runs)
           /\ \A i \in 1..Len(Dequeue(s, r)) :
                 \E j \in 1..Len(s) : Dequeue(s, r)[i] = s[j]
<1>1. CASE ~\E i \in DOMAIN s : s[i] = r
  BY <1>1 DEF Dequeue
<1>2. CASE \E i \in DOMAIN s : s[i] = r
  <2> DEFINE first == CHOOSE i \in DOMAIN s :
                        s[i] = r /\ \A j \in 1..(i - 1) : s[j] # r
             d == [j \in 1..(Len(s) - 1) |-> IF j < first THEN s[j] ELSE s[j + 1]]
  <2>1. Dequeue(s, r) = d
    BY <1>2 DEF Dequeue
  <2>2. Len(s) - 1 \in Nat
    BY <1>2
  <2>3. d \in Seq(Runs) /\ Len(d) = Len(s) - 1
    BY <2>2
  <2>4. \A i \in 1..Len(d) : d[i] = s[i] \/ d[i] = s[i + 1]
    BY <2>3
  <2>5. ASSUME NEW i \in 1..Len(d)
        PROVE  \E j \in 1..Len(s) : d[i] = s[j]
    <3>1. i \in 1..Len(s) /\ i + 1 \in 1..Len(s)
      BY <2>2, <2>3
    <3> QED
      BY <2>4, <3>1
  <2> HIDE DEF d
  <2> QED
    BY <2>1, <2>3, <2>5
<1> QED
  BY <1>1, <1>2

\* From a queue that lists each run once, remove takes the run out and keeps
\* the others once each.
LEMMA DequeueDistinct ==
    ASSUME NEW s \in Seq(Runs), NEW r \in Runs, Distinct(s)
    PROVE  /\ Distinct(Dequeue(s, r))
           /\ \A i \in 1..Len(Dequeue(s, r)) : Dequeue(s, r)[i] # r
<1>1. CASE ~\E i \in DOMAIN s : s[i] = r
  BY <1>1 DEF Dequeue
<1>2. CASE \E i \in DOMAIN s : s[i] = r
  <2> DEFINE P(i) == s[i] = r /\ \A j \in 1..(i - 1) : s[j] # r
             first == CHOOSE i \in DOMAIN s : P(i)
             d == [j \in 1..(Len(s) - 1) |-> IF j < first THEN s[j] ELSE s[j + 1]]
  <2>1. Dequeue(s, r) = d
    BY <1>2 DEF Dequeue
  <2>2. PICK k \in 1..Len(s) : s[k] = r
    BY <1>2
  <2>3. P(k)
    <3>1. \A j \in 1..(k - 1) : j \in 1..Len(s) /\ j # k
      OBVIOUS
    <3> QED
      BY <2>2, <3>1 DEF Distinct
  <2>4. first \in 1..Len(s) /\ s[first] = r
    <3>1. \E i \in DOMAIN s : P(i)
      BY <2>3
    <3> QED
      BY <3>1
  <2>5. Len(s) - 1 \in Nat
    BY <2>4
  <2>6. Len(d) = Len(s) - 1
    BY <2>5
  <2>7. \A i \in 1..Len(d) :
          d[i] = IF i < first THEN s[i] ELSE s[i + 1]
    BY <2>5, <2>6
  <2> HIDE DEF first, d
  <2>8. ASSUME NEW i \in 1..Len(d), NEW j \in 1..Len(d), d[i] = d[j]
        PROVE  i = j
    <3>1. i \in 1..Len(s) /\ i + 1 \in 1..Len(s) /\ j \in 1..Len(s) /\ j + 1 \in 1..Len(s)
      BY <2>5, <2>6
    <3> QED
      BY <2>4, <2>7, <2>8, <3>1 DEF Distinct
  <2>9. ASSUME NEW i \in 1..Len(d)
        PROVE  d[i] # r
    <3>1. i \in 1..Len(s) /\ i + 1 \in 1..Len(s)
      BY <2>5, <2>6
    <3> QED
      BY <2>4, <2>7, <3>1 DEF Distinct
  <2> QED
    BY <2>1, <2>8, <2>9 DEF Distinct
<1> QED
  BY <1>1, <1>2

\* An empty queue stays empty.
LEMMA DequeueEmpty == \A r \in Runs : Dequeue(<<>>, r) = <<>>
BY DEF Dequeue

\* The head of a queue is in no other place of it.
LEMMA HeadTail ==
    ASSUME NEW s \in Seq(Runs), s # <<>>
    PROVE  /\ Head(s) \in Runs /\ Head(s) = s[1] /\ 1 \in 1..Len(s)
           /\ Tail(s) \in Seq(Runs)
           /\ \A i \in 1..Len(Tail(s)) :
                 i + 1 \in 1..Len(s) /\ Tail(s)[i] = s[i + 1]
           /\ Distinct(s) => /\ Distinct(Tail(s))
                             /\ \A i \in 1..Len(Tail(s)) : Tail(s)[i] # Head(s)
<1>1. /\ Head(s) \in Runs /\ Head(s) = s[1] /\ 1 \in 1..Len(s)
      /\ Tail(s) \in Seq(Runs) /\ Len(Tail(s)) = Len(s) - 1
  OBVIOUS
<1>2. \A i \in 1..Len(Tail(s)) : i + 1 \in 1..Len(s) /\ Tail(s)[i] = s[i + 1]
  BY <1>1
<1>3. ASSUME Distinct(s)
      PROVE  /\ Distinct(Tail(s))
             /\ \A i \in 1..Len(Tail(s)) : Tail(s)[i] # Head(s)
  BY <1>1, <1>2, <1>3 DEF Distinct
<1> QED
  BY <1>1, <1>2, <1>3

\* Joining a queue one is not in keeps it free of repetitions.
LEMMA AppendDistinct ==
    ASSUME NEW s \in Seq(Runs), NEW r \in Runs, Distinct(s),
           \A i \in 1..Len(s) : s[i] # r
    PROVE  /\ Distinct(Append(s, r))
           /\ \A i \in 1..Len(Append(s, r)) :
                 Append(s, r)[i] = r \/ \E j \in 1..Len(s) : Append(s, r)[i] = s[j]
<1>1. /\ Len(Append(s, r)) = Len(s) + 1
      /\ \A i \in 1..Len(Append(s, r)) :
            Append(s, r)[i] = IF i = Len(s) + 1 THEN r ELSE s[i]
  OBVIOUS
<1>2. \A i \in 1..Len(Append(s, r)) : i = Len(s) + 1 \/ i \in 1..Len(s)
  BY <1>1
<1> QED
  BY <1>1, <1>2 DEF Distinct

-----------------------------------------------------------------------------
(* The invariant *)

\* The initial states satisfy the invariant.
LEMMA InitInv == Init => Inv
<1> SUFFICES ASSUME Init PROVE Inv
  OBVIOUS
<1>1. TypeOK
  BY DEF Init, TypeOK, Points, States
<1>2. Queues
  BY DEF Init, Queues, Distinct
<1>3. Permit
  BY FreeAssumption DEF Init, Permit, Holding, Live
<1>4. Entry
  BY DEF Init, Entry, Live
<1> QED
  BY <1>1, <1>2, <1>3, <1>4 DEF Inv

\* Semaphore.release with waiters: the permit goes to a parked wrapper that
\* is not the one releasing, and is parked no more.
LEMMA ReleaseHands ==
    ASSUME Inv, NEW r \in Runs, pc[r] \in Holding, parked # <<>>,
           Release([pc EXCEPT ![r] = AfterExit(r)])
    PROVE  /\ Head(parked) \in Runs /\ Head(parked) # r
           /\ pc[Head(parked)] = "parked"
           /\ parked' = Tail(parked) /\ slot' = Head(parked)
           /\ pc' = [pc EXCEPT ![r] = AfterExit(r), ![Head(parked)] = "granted"]
           /\ Distinct(parked')
           /\ \A i \in 1..Len(parked') :
                 /\ parked'[i] # Head(parked)
                 /\ i + 1 \in 1..Len(parked) /\ parked'[i] = parked[i + 1]
<1>1. Head(parked) \in Runs /\ pc[Head(parked)] = "parked"
  BY HeadTail DEF Inv, TypeOK, Queues
<1>2. Head(parked) # r
  BY <1>1 DEF Holding, Live
<1>3. /\ parked' = Tail(parked) /\ slot' = Head(parked)
      /\ pc' = [pc EXCEPT ![r] = AfterExit(r), ![Head(parked)] = "granted"]
  BY DEF Release
<1> QED
  BY <1>1, <1>2, <1>3, HeadTail DEF Inv, TypeOK, Queues

\* Releasing keeps the types of what it writes.
LEMMA ReleaseType ==
    ASSUME Inv, NEW r \in Runs, pc[r] \in Holding,
           Release([pc EXCEPT ![r] = AfterExit(r)])
    PROVE  /\ pc' \in [Runs -> Points]
           /\ slot' \in Runs \cup {Free}
           /\ parked' \in Seq(Runs)
<1>1. pc \in [Runs -> Points] /\ parked \in Seq(Runs)
  BY DEF Inv, TypeOK
<1>2. CASE parked = <<>>
  BY <1>1, <1>2 DEF Release, AfterExit, Points
<1>3. CASE parked # <<>>
  <2>1. Head(parked) \in Runs /\ Tail(parked) \in Seq(Runs)
    BY <1>1, <1>3, HeadTail
  <2> QED
    BY <1>1, <1>3, <2>1 DEF Release, AfterExit, Points
<1> QED
  BY <1>2, <1>3

\* Releasing keeps each part of the invariant, for a run whose body is over.
LEMMA ReleasePermit ==
    ASSUME Inv, NEW r \in Runs, pc[r] \in Holding,
           Release([pc EXCEPT ![r] = AfterExit(r)]),
           body' = body, body[r] \notin {"running", "hit"}
    PROVE  Permit'
<1> USE DEF Inv, TypeOK, Permit, Holding, Live
<1>1. AfterExit(r) \in {"teardown", "gone"}
  BY DEF AfterExit
<1>2. CASE parked = <<>>
  BY <1>1, <1>2, FreeAssumption DEF Release
<1>3. CASE parked # <<>>
  <2> DEFINE h == Head(parked)
  <2>1. /\ h \in Runs /\ h # r /\ pc[h] = "parked" /\ slot' = h
        /\ pc' = [pc EXCEPT ![r] = AfterExit(r), ![h] = "granted"]
    BY <1>3, ReleaseHands
  <2> HIDE DEF h
  <2> QED
    BY <1>1, <2>1, FreeAssumption
<1> QED
  BY <1>2, <1>3

\* The same for the queues.
LEMMA ReleaseQueues ==
    ASSUME Inv, NEW r \in Runs, pc[r] \in Holding,
           Release([pc EXCEPT ![r] = AfterExit(r)]),
           ready' = ready, stopped' = stopped
    PROVE  Queues'
<1> USE DEF Inv, TypeOK, Queues
<1>1. AfterExit(r) \in {"teardown", "gone"} /\ pc[r] \notin {"parked", "created"}
  BY DEF AfterExit, Holding, Live
<1>2. CASE parked = <<>>
  BY <1>1, <1>2 DEF Release
<1>3. CASE parked # <<>>
  <2> DEFINE h == Head(parked)
  <2>1. /\ h \in Runs /\ h # r /\ pc[h] = "parked" /\ Distinct(parked')
        /\ pc' = [pc EXCEPT ![r] = AfterExit(r), ![h] = "granted"]
        /\ \A i \in 1..Len(parked') : parked'[i] # h /\ i + 1 \in 1..Len(parked)
                                       /\ parked'[i] = parked[i + 1]
    BY <1>3, ReleaseHands
  <2> HIDE DEF h
  <2>2. \A i \in 1..Len(parked') :
           pc'[parked'[i]] = "parked" /\ ~stopped'[parked'[i]]
    BY <1>1, <2>1
  <2>3. \A i \in 1..Len(ready) : pc'[ready[i]] = "created"
    BY <1>1, <2>1
  <2> QED
    BY <2>1, <2>2, <2>3
<1> QED
  BY <1>2, <1>3

\* The same for the entries.
LEMMA ReleaseEntry ==
    ASSUME Inv, NEW r \in Runs, pc[r] \in Holding,
           Release([pc EXCEPT ![r] = AfterExit(r)]), Exit(r),
           stopped' = stopped, body' = body, stopped[r] => body[r] = "none"
    PROVE  Entry'
<1> USE DEF Inv, TypeOK, Entry, Exit
<1>1. AfterExit(r) \in {"teardown", "gone"}
  BY DEF AfterExit
<1>2. CASE parked = <<>>
  BY <1>1, <1>2 DEF Live, Release
<1>3. CASE parked # <<>>
  <2> DEFINE h == Head(parked)
  <2>1. /\ h \in Runs /\ h # r /\ pc[h] = "parked"
        /\ pc' = [pc EXCEPT ![r] = AfterExit(r), ![h] = "granted"]
    BY <1>3, ReleaseHands
  <2> HIDE DEF h
  <2> QED
    BY <1>1, <2>1 DEF Live
<1> QED
  BY <1>2, <1>3

\* Types are kept.
LEMMA TypeStep == Inv /\ [Next]_vars => TypeOK'
<1> SUFFICES ASSUME Inv, [Next]_vars PROVE TypeOK'
  OBVIOUS
<1> USE DEF Inv, TypeOK, Points, States
<1>1. ASSUME NEW r \in Runs, Submit(r) PROVE TypeOK'
  BY <1>1 DEF Submit
<1>2. ASSUME NEW r \in Runs, AcquireAtOnce(r) PROVE TypeOK'
  BY <1>2, HeadTail, DequeueType DEF AcquireAtOnce, Admitted
<1>3. ASSUME NEW r \in Runs, Park(r) PROVE TypeOK'
  <2>1. Tail(ready) \in Seq(Runs)
    BY <1>3, HeadTail DEF Park
  <2>2. Append(parked, r) \in Seq(Runs)
    OBVIOUS
  <2> QED
    BY <1>3, <2>1, <2>2 DEF Park
<1>4. ASSUME NEW r \in Runs, Resume(r) PROVE TypeOK'
  BY <1>4, DequeueType DEF Resume, Admitted
<1>5. ASSUME NEW r \in Runs, ResumeStopped(r) PROVE TypeOK'
  <2>1. pc[r] \in Holding /\ Release([pc EXCEPT ![r] = AfterExit(r)])
    BY <1>5 DEF ResumeStopped, Holding, Live
  <2>2. pc' \in [Runs -> Points] /\ slot' \in Runs \cup {Free} /\ parked' \in Seq(Runs)
    BY <2>1, ReleaseType
  <2> QED
    BY <1>5, <2>2, DequeueType DEF ResumeStopped, Exit
<1>6. ASSUME NEW r \in Runs, Unpark(r) PROVE TypeOK'
  BY <1>6, DequeueType DEF Unpark, Exit, AfterExit
<1>7. ASSUME NEW r \in Runs, StartBody(r) PROVE TypeOK'
  BY <1>7 DEF StartBody
<1>8. ASSUME NEW r \in Runs, AdmitFails(r) PROVE TypeOK'
  <2>1. pc[r] \in Holding /\ Release([pc EXCEPT ![r] = AfterExit(r)])
    BY <1>8 DEF AdmitFails, Holding, Live
  <2>2. pc' \in [Runs -> Points] /\ slot' \in Runs \cup {Free} /\ parked' \in Seq(Runs)
    BY <2>1, ReleaseType
  <2> QED
    BY <1>8, <2>2, DequeueType DEF AdmitFails, Exit
<1>9. ASSUME NEW r \in Runs, LeaveSlot(r) PROVE TypeOK'
  <2>1. pc[r] \in Holding /\ Release([pc EXCEPT ![r] = AfterExit(r)])
    BY <1>9 DEF LeaveSlot, Holding, Live
  <2>2. pc' \in [Runs -> Points] /\ slot' \in Runs \cup {Free} /\ parked' \in Seq(Runs)
    BY <2>1, ReleaseType
  <2> QED
    BY <1>9, <2>2, DequeueType DEF LeaveSlot, Exit
<1>10. ASSUME NEW r \in Runs, TeardownEnds(r) PROVE TypeOK'
  BY <1>10 DEF TeardownEnds
<1>11. ASSUME NEW r \in Runs, BodyReturns(r) PROVE TypeOK'
  BY <1>11 DEF BodyReturns
<1>12. ASSUME NEW r \in Runs, BodyHonoursToken(r) PROVE TypeOK'
  BY <1>12 DEF BodyHonoursToken
<1>13. ASSUME NEW r \in Runs, BodyHardCancelled(r) PROVE TypeOK'
  BY <1>13 DEF BodyHardCancelled
<1>14. ASSUME NEW r \in Runs, CancelQueued(r) PROVE TypeOK'
  BY <1>14, DequeueType DEF CancelQueued
<1>15. ASSUME NEW r \in Runs, CancelRunning(r) PROVE TypeOK'
  BY <1>15 DEF CancelRunning
<1>16. ASSUME NEW r \in Runs, WatchdogFires(r) PROVE TypeOK'
  BY <1>16 DEF WatchdogFires
<1>17. CASE UNCHANGED vars
  BY <1>17 DEF vars
<1> QED
  BY <1>1, <1>2, <1>3, <1>4, <1>5, <1>6, <1>7, <1>8, <1>9, <1>10, <1>11,
     <1>12, <1>13, <1>14, <1>15, <1>16, <1>17
  DEF Next, Step, Wrapper, Admission, Cancel, Body

\* The permit changes hands only between a holder and a parked wrapper.
LEMMA PermitStep == Inv /\ [Next]_vars => Permit'
<1> SUFFICES ASSUME Inv, [Next]_vars PROVE Permit'
  OBVIOUS
<1> USE DEF Inv, TypeOK, Queues, Permit, Holding, Live, Points
<1>1. ASSUME NEW r \in Runs, Submit(r) PROVE Permit'
  BY <1>1, FreeAssumption DEF Submit
<1>2. ASSUME NEW r \in Runs, AcquireAtOnce(r) PROVE Permit'
  BY <1>2, FreeAssumption, HeadTail DEF AcquireAtOnce, Admitted
<1>3. ASSUME NEW r \in Runs, Park(r) PROVE Permit'
  BY <1>3, FreeAssumption, HeadTail DEF Park
<1>4. ASSUME NEW r \in Runs, Resume(r) PROVE Permit'
  BY <1>4, FreeAssumption DEF Resume, Admitted
<1>5. ASSUME NEW r \in Runs, ResumeStopped(r) PROVE Permit'
  <2>1. /\ pc[r] \in Holding /\ Release([pc EXCEPT ![r] = AfterExit(r)])
        /\ body' = body /\ body[r] \notin {"running", "hit"}
    BY <1>5 DEF ResumeStopped
  <2> QED
    BY <2>1, ReleasePermit
<1>6. ASSUME NEW r \in Runs, Unpark(r) PROVE Permit'
  BY <1>6, FreeAssumption DEF Unpark, AfterExit
<1>7. ASSUME NEW r \in Runs, StartBody(r) PROVE Permit'
  BY <1>7, FreeAssumption DEF StartBody
<1>8. ASSUME NEW r \in Runs, AdmitFails(r) PROVE Permit'
  <2>1. /\ pc[r] \in Holding /\ Release([pc EXCEPT ![r] = AfterExit(r)])
        /\ body' = body /\ body[r] \notin {"running", "hit"}
    BY <1>8 DEF AdmitFails
  <2> QED
    BY <2>1, ReleasePermit
<1>9. ASSUME NEW r \in Runs, LeaveSlot(r) PROVE Permit'
  <2>1. /\ pc[r] \in Holding /\ Release([pc EXCEPT ![r] = AfterExit(r)])
        /\ body' = body /\ body[r] \notin {"running", "hit"}
    BY <1>9 DEF LeaveSlot
  <2> QED
    BY <2>1, ReleasePermit
<1>10. ASSUME NEW r \in Runs, TeardownEnds(r) PROVE Permit'
  BY <1>10, FreeAssumption DEF TeardownEnds
<1>11. ASSUME NEW r \in Runs, BodyReturns(r) PROVE Permit'
  BY <1>11, FreeAssumption DEF BodyReturns
<1>12. ASSUME NEW r \in Runs, BodyHonoursToken(r) PROVE Permit'
  BY <1>12, FreeAssumption DEF BodyHonoursToken
<1>13. ASSUME NEW r \in Runs, BodyHardCancelled(r) PROVE Permit'
  BY <1>13, FreeAssumption DEF BodyHardCancelled
<1>14. ASSUME NEW r \in Runs, CancelQueued(r) PROVE Permit'
  BY <1>14, FreeAssumption, DequeueEmpty DEF CancelQueued
<1>15. ASSUME NEW r \in Runs, CancelRunning(r) PROVE Permit'
  BY <1>15, FreeAssumption DEF CancelRunning
<1>16. ASSUME NEW r \in Runs, WatchdogFires(r) PROVE Permit'
  BY <1>16, FreeAssumption DEF WatchdogFires
<1>17. CASE UNCHANGED vars
  BY <1>17 DEF vars
<1> QED
  BY <1>1, <1>2, <1>3, <1>4, <1>5, <1>6, <1>7, <1>8, <1>9, <1>10, <1>11,
     <1>12, <1>13, <1>14, <1>15, <1>16, <1>17
  DEF Next, Step, Wrapper, Admission, Cancel, Body

\* Each queue lists the wrappers suspended in it, once.
LEMMA QueuesStep == Inv /\ [Next]_vars => Queues'
<1> SUFFICES ASSUME Inv, [Next]_vars PROVE Queues'
  OBVIOUS
<1> USE DEF Inv, TypeOK, Queues, Entry, Points
<1>1. ASSUME NEW r \in Runs, Submit(r) PROVE Queues'
  <2>1. /\ ready' = Append(ready, r) /\ UNCHANGED <<parked, stopped>>
        /\ pc' = [pc EXCEPT ![r] = "created"] /\ pc[r] = "unborn"
    BY <1>1 DEF Submit
  <2>2. \A i \in 1..Len(ready) : ready[i] # r
    BY <2>1
  <2>3. /\ Distinct(ready')
        /\ \A i \in 1..Len(ready') :
              ready'[i] = r \/ \E j \in 1..Len(ready) : ready'[i] = ready[j]
    <3>1. ready \in Seq(Runs) /\ Distinct(ready)
      OBVIOUS
    <3> QED
      BY ONLY <2>1, <2>2, <3>1, r \in Runs, AppendDistinct
  <2>4. \A i \in 1..Len(ready') : pc'[ready'[i]] = "created"
    BY <2>1, <2>3
  <2>5. \A i \in 1..Len(parked') :
           pc'[parked'[i]] = "parked" /\ ~stopped'[parked'[i]]
    BY <2>1
  <2> QED
    BY <2>1, <2>3, <2>4, <2>5
<1>2. ASSUME NEW r \in Runs, AcquireAtOnce(r) PROVE Queues'
  BY <1>2, HeadTail DEF AcquireAtOnce, Admitted
<1>3. ASSUME NEW r \in Runs, Park(r) PROVE Queues'
  <2>1. /\ ready # <<>> /\ r = Head(ready) /\ ready' = Tail(ready)
        /\ parked' = Append(parked, r) /\ stopped' = stopped
        /\ pc' = [pc EXCEPT ![r] = "parked"]
    BY <1>3 DEF Park
  <2>2. pc[r] = "created" /\ ~stopped[r]
    BY <2>1, HeadTail
  <2>3. /\ Distinct(ready')
        /\ \A i \in 1..Len(ready') :
              ready'[i] # r /\ i + 1 \in 1..Len(ready) /\ ready'[i] = ready[i + 1]
    BY <2>1, HeadTail
  <2>4. \A i \in 1..Len(parked) : parked[i] # r
    BY <2>2
  <2>5. /\ Distinct(parked')
        /\ \A i \in 1..Len(parked') :
              parked'[i] = r \/ \E j \in 1..Len(parked) : parked'[i] = parked[j]
    BY <2>1, <2>4, AppendDistinct
  <2>6. \A i \in 1..Len(ready') : pc'[ready'[i]] = "created"
    BY <2>1, <2>3
  <2>7. \A i \in 1..Len(parked') :
           pc'[parked'[i]] = "parked" /\ ~stopped'[parked'[i]]
    BY <2>1, <2>2, <2>5
  <2> QED
    BY <2>3, <2>5, <2>6, <2>7
<1>4. ASSUME NEW r \in Runs, Resume(r) PROVE Queues'
  BY <1>4 DEF Resume, Admitted
<1>5. ASSUME NEW r \in Runs, ResumeStopped(r) PROVE Queues'
  <2>1. /\ pc[r] \in Holding /\ Release([pc EXCEPT ![r] = AfterExit(r)])
        /\ ready' = ready /\ stopped' = stopped
    BY <1>5 DEF ResumeStopped, Holding, Live
  <2> QED
    BY <2>1, ReleaseQueues
<1>6. ASSUME NEW r \in Runs, Unpark(r) PROVE Queues'
  BY <1>6 DEF Unpark
<1>7. ASSUME NEW r \in Runs, StartBody(r) PROVE Queues'
  BY <1>7 DEF StartBody
<1>8. ASSUME NEW r \in Runs, AdmitFails(r) PROVE Queues'
  <2>1. /\ pc[r] \in Holding /\ Release([pc EXCEPT ![r] = AfterExit(r)])
        /\ ready' = ready /\ stopped' = stopped
    BY <1>8 DEF AdmitFails, Holding, Live
  <2> QED
    BY <2>1, ReleaseQueues
<1>9. ASSUME NEW r \in Runs, LeaveSlot(r) PROVE Queues'
  <2>1. /\ pc[r] \in Holding /\ Release([pc EXCEPT ![r] = AfterExit(r)])
        /\ ready' = ready /\ stopped' = stopped
    BY <1>9 DEF LeaveSlot, Holding, Live
  <2> QED
    BY <2>1, ReleaseQueues
<1>10. ASSUME NEW r \in Runs, TeardownEnds(r) PROVE Queues'
  BY <1>10 DEF TeardownEnds
<1>11. ASSUME NEW r \in Runs, BodyReturns(r) PROVE Queues'
  BY <1>11 DEF BodyReturns
<1>12. ASSUME NEW r \in Runs, BodyHonoursToken(r) PROVE Queues'
  BY <1>12 DEF BodyHonoursToken
<1>13. ASSUME NEW r \in Runs, BodyHardCancelled(r) PROVE Queues'
  BY <1>13 DEF BodyHardCancelled
<1>14. ASSUME NEW r \in Runs, CancelQueued(r) PROVE Queues'
  <2>1. /\ parked' = Dequeue(parked, r) /\ ready' = Dequeue(ready, r)
        /\ stopped' = [stopped EXCEPT ![r] = TRUE]
        /\ pc' = [pc EXCEPT ![r] = IF @ = "created" THEN "stillborn" ELSE @]
    BY <1>14 DEF CancelQueued
  <2>2. /\ Distinct(parked')
        /\ \A i \in 1..Len(parked') :
              parked'[i] # r /\ \E j \in 1..Len(parked) : parked'[i] = parked[j]
    <3>1. parked \in Seq(Runs) /\ Distinct(parked)
      OBVIOUS
    <3>2. \A i \in 1..Len(Dequeue(parked, r)) :
             \E j \in 1..Len(parked) : Dequeue(parked, r)[i] = parked[j]
      BY ONLY <3>1, r \in Runs, DequeueType
    <3>3. /\ Distinct(Dequeue(parked, r))
          /\ \A i \in 1..Len(Dequeue(parked, r)) : Dequeue(parked, r)[i] # r
      BY ONLY <3>1, r \in Runs, DequeueDistinct
    <3> QED
      BY ONLY <2>1, <3>2, <3>3
  <2>2a. /\ Distinct(ready')
         /\ \A i \in 1..Len(ready') :
               ready'[i] # r /\ \E j \in 1..Len(ready) : ready'[i] = ready[j]
    <3>1. ready \in Seq(Runs) /\ Distinct(ready)
      OBVIOUS
    <3>2. \A i \in 1..Len(Dequeue(ready, r)) :
             \E j \in 1..Len(ready) : Dequeue(ready, r)[i] = ready[j]
      BY ONLY <3>1, r \in Runs, DequeueType
    <3>3. /\ Distinct(Dequeue(ready, r))
          /\ \A i \in 1..Len(Dequeue(ready, r)) : Dequeue(ready, r)[i] # r
      BY ONLY <3>1, r \in Runs, DequeueDistinct
    <3> QED
      BY ONLY <2>1, <3>2, <3>3
  <2>3. \A i \in 1..Len(parked') :
           pc'[parked'[i]] = "parked" /\ ~stopped'[parked'[i]]
    BY <2>1, <2>2
  <2>4. \A i \in 1..Len(ready') : pc'[ready'[i]] = "created"
    BY <2>1, <2>2a
  <2> QED
    BY <2>2, <2>2a, <2>3, <2>4
<1>15. ASSUME NEW r \in Runs, CancelRunning(r) PROVE Queues'
  BY <1>15 DEF CancelRunning
<1>16. ASSUME NEW r \in Runs, WatchdogFires(r) PROVE Queues'
  BY <1>16 DEF WatchdogFires
<1>17. CASE UNCHANGED vars
  BY <1>17 DEF vars
<1> QED
  BY <1>1, <1>2, <1>3, <1>4, <1>5, <1>6, <1>7, <1>8, <1>9, <1>10, <1>11,
     <1>12, <1>13, <1>14, <1>15, <1>16, <1>17
  DEF Next, Step, Wrapper, Admission, Cancel, Body

\* What an entry says fits where its wrapper is.
LEMMA EntryStep == Inv /\ [Next]_vars => Entry'
<1> SUFFICES ASSUME Inv, [Next]_vars PROVE Entry'
  OBVIOUS
<1> USE DEF Inv, TypeOK, Entry, Live, Points, States
<1>1. ASSUME NEW r \in Runs, Submit(r) PROVE Entry'
  BY <1>1 DEF Submit
<1>2. ASSUME NEW r \in Runs, AcquireAtOnce(r) PROVE Entry'
  BY <1>2, HeadTail DEF AcquireAtOnce, Admitted, Queues
<1>3. ASSUME NEW r \in Runs, Park(r) PROVE Entry'
  BY <1>3, HeadTail DEF Park, Queues
<1>4. ASSUME NEW r \in Runs, Resume(r) PROVE Entry'
  BY <1>4 DEF Resume, Admitted
<1>5. ASSUME NEW r \in Runs, ResumeStopped(r) PROVE Entry'
  <2>1. /\ pc[r] \in Holding /\ Release([pc EXCEPT ![r] = AfterExit(r)])
        /\ Exit(r) /\ stopped' = stopped /\ body' = body
        /\ stopped[r] => body[r] = "none"
    BY <1>5 DEF ResumeStopped, Holding, Live
  <2> QED
    BY <2>1, ReleaseEntry
<1>6. ASSUME NEW r \in Runs, Unpark(r) PROVE Entry'
  BY <1>6 DEF Unpark, Exit, AfterExit
<1>7. ASSUME NEW r \in Runs, StartBody(r) PROVE Entry'
  BY <1>7 DEF StartBody
<1>8. ASSUME NEW r \in Runs, AdmitFails(r) PROVE Entry'
  <2>1. /\ pc[r] \in Holding /\ Release([pc EXCEPT ![r] = AfterExit(r)])
        /\ Exit(r) /\ stopped' = stopped /\ body' = body
        /\ stopped[r] => body[r] = "none"
    BY <1>8 DEF AdmitFails, Holding, Live
  <2> QED
    BY <2>1, ReleaseEntry
<1>9. ASSUME NEW r \in Runs, LeaveSlot(r) PROVE Entry'
  <2>1. /\ pc[r] \in Holding /\ Release([pc EXCEPT ![r] = AfterExit(r)])
        /\ Exit(r) /\ stopped' = stopped /\ body' = body
        /\ stopped[r] => body[r] = "none"
    BY <1>9 DEF LeaveSlot, Holding, Live
  <2> QED
    BY <2>1, ReleaseEntry
<1>10. ASSUME NEW r \in Runs, TeardownEnds(r) PROVE Entry'
  BY <1>10 DEF TeardownEnds
<1>11. ASSUME NEW r \in Runs, BodyReturns(r) PROVE Entry'
  BY <1>11 DEF BodyReturns
<1>12. ASSUME NEW r \in Runs, BodyHonoursToken(r) PROVE Entry'
  BY <1>12 DEF BodyHonoursToken
<1>13. ASSUME NEW r \in Runs, BodyHardCancelled(r) PROVE Entry'
  BY <1>13 DEF BodyHardCancelled
<1>14. ASSUME NEW r \in Runs, CancelQueued(r) PROVE Entry'
  BY <1>14 DEF CancelQueued
<1>15. ASSUME NEW r \in Runs, CancelRunning(r) PROVE Entry'
  BY <1>15 DEF CancelRunning
<1>16. ASSUME NEW r \in Runs, WatchdogFires(r) PROVE Entry'
  BY <1>16 DEF WatchdogFires
<1>17. CASE UNCHANGED vars
  BY <1>17 DEF vars
<1> QED
  BY <1>1, <1>2, <1>3, <1>4, <1>5, <1>6, <1>7, <1>8, <1>9, <1>10, <1>11,
     <1>12, <1>13, <1>14, <1>15, <1>16, <1>17
  DEF Next, Step, Wrapper, Admission, Cancel, Body

-----------------------------------------------------------------------------

\* Every reachable state of the registry satisfies the inductive invariant.
THEOREM Invariance == Spec => []Inv
<1>1. Inv /\ [Next]_vars => Inv'
  BY TypeStep, PermitStep, QueuesStep, EntryStep DEF Inv
<1> QED
  BY InitInv, <1>1, PTL DEF Spec

\* Entries, queues, tokens and permits stay well typed.
THEOREM Typing == Spec => []TypeOK
BY Invariance, PTL DEF Inv

\* One run at a time: two runs are never both past admission, and a body that
\* has not finished holds the permit, hard cancels included.
THEOREM SingleRun == Spec => []OneAtATime
<1>1. Inv => OneAtATime
  BY DEF Inv, Permit, OneAtATime, Holding, Live
<1> QED
  BY Invariance, <1>1, PTL

\* No cancel, however it races with a hand-over, loses or strands the permit.
THEOREM PermitNeverLost == Spec => []PermitConserved
<1>1. Inv => PermitConserved
  BY DEF Inv, Permit, PermitConserved
<1> QED
  BY Invariance, <1>1, PTL

\* active_run_id names the admitted run, and nobody else.
THEOREM ActiveIsRight == Spec => []ActiveIsAdmitted
<1>1. Inv => ActiveIsAdmitted
  BY DEF Inv, TypeOK, Points, Entry, ActiveIsAdmitted, Active, Live
<1> QED
  BY Invariance, <1>1, PTL

\* A run stopped in the queue never gets a body.
THEOREM StopInQueueHolds == Spec => []StoppedNeverStarts
<1>1. Inv => StoppedNeverStarts
  BY DEF Inv, TypeOK, Points, Entry, StoppedNeverStarts, Live
<1> QED
  BY Invariance, <1>1, PTL

-----------------------------------------------------------------------------
(* Queues end to end *)

In(s, r) == \E i \in 1..Len(s) : s[i] = r

\* What a concatenation holds, and when it repeats nothing.
LEMMA InConcat ==
    ASSUME NEW s \in Seq(Runs), NEW t \in Seq(Runs), NEW r
    PROVE  In(s \o t, r) <=> In(s, r) \/ In(t, r)
<1>1. /\ Len(s \o t) = Len(s) + Len(t)
      /\ \A i \in 1..Len(s) : (s \o t)[i] = s[i] /\ i \in 1..Len(s \o t)
      /\ \A i \in 1..Len(t) : /\ (s \o t)[Len(s) + i] = t[i]
                              /\ Len(s) + i \in 1..Len(s \o t)
      /\ \A i \in 1..Len(s \o t) :
            \/ i \in 1..Len(s)
            \/ i - Len(s) \in 1..Len(t) /\ (s \o t)[i] = t[i - Len(s)]
  BY ConcatProperties
<1> QED
  BY <1>1 DEF In

\* Two queues with no run in common, each without repetition.
LEMMA DistinctConcat ==
    ASSUME NEW s \in Seq(Runs), NEW t \in Seq(Runs), Distinct(s), Distinct(t),
           \A r \in Runs : ~(In(s, r) /\ In(t, r))
    PROVE  Distinct(s \o t)
<1> SUFFICES ASSUME NEW i \in 1..Len(s \o t), NEW j \in 1..Len(s \o t),
                    (s \o t)[i] = (s \o t)[j]
             PROVE  i = j
  BY DEF Distinct
<1>1. \A k \in 1..Len(s \o t) :
         \/ k \in 1..Len(s) /\ (s \o t)[k] = s[k]
         \/ k - Len(s) \in 1..Len(t) /\ (s \o t)[k] = t[k - Len(s)]
  BY ConcatProperties
<1>2. CASE i \in 1..Len(s) /\ j \in 1..Len(s)
  BY <1>1, <1>2 DEF Distinct
<1>3. CASE i \notin 1..Len(s) /\ j \notin 1..Len(s)
  <2>1. i - Len(s) = j - Len(s)
    BY <1>1, <1>3 DEF Distinct
  <2> QED
    BY <2>1
<1>4. ASSUME NEW k \in 1..Len(s), NEW l \in 1..Len(s \o t),
             l \notin 1..Len(s), (s \o t)[k] = (s \o t)[l]
      PROVE  FALSE
  <2>1. /\ k \in 1..Len(s \o t) /\ (s \o t)[k] = s[k] /\ s[k] \in Runs
        /\ l - Len(s) \in 1..Len(t) /\ (s \o t)[l] = t[l - Len(s)]
    BY <1>1, <1>4, ConcatProperties
  <2>2. In(s, s[k]) /\ In(t, s[k])
    BY <1>4, <2>1 DEF In
  <2> QED
    BY <2>1, <2>2
<1> QED
  BY <1>2, <1>3, <1>4

\* Removing a run that is not there.
LEMMA DequeueAbsent ==
    ASSUME NEW s \in Seq(Runs), NEW r, ~In(s, r)
    PROVE  Dequeue(s, r) = s
BY DEF In, Dequeue

\* d is s without its k-th element; u is s followed by t.
Without(d, s, k) ==
    /\ d \in Seq(Runs) /\ Len(d) = Len(s) - 1
    /\ \A i \in 1..(Len(s) - 1) : d[i] = IF i < k THEN s[i] ELSE s[i + 1]

Joins(u, s, t) ==
    /\ u \in Seq(Runs) /\ Len(u) = Len(s) + Len(t)
    /\ \A i \in 1..Len(s) : u[i] = s[i]
    /\ \A i \in 1..Len(t) : u[Len(s) + i] = t[i]

\* Concatenation joins, and nothing else does.
LEMMA ConcatJoins ==
    ASSUME NEW s \in Seq(Runs), NEW t \in Seq(Runs)
    PROVE  Joins(s \o t, s, t)
<1>1. \A i \in 1..Len(t) : (s \o t)[Len(s) + i] = t[i]
  BY ConcatProperties
<1> QED
  BY <1>1, ConcatProperties DEF Joins

\* Two joins of the same queues are equal.
LEMMA JoinsUnique ==
    ASSUME NEW s \in Seq(Runs), NEW t \in Seq(Runs), NEW u, NEW v,
           Joins(u, s, t), Joins(v, s, t)
    PROVE  u = v
<1>1. \A i \in 1..Len(u) :
         \/ i \in 1..Len(s)
         \/ i - Len(s) \in 1..Len(t) /\ i = Len(s) + (i - Len(s))
  BY DEF Joins
<1>2. Len(u) = Len(v) /\ u \in Seq(Runs) /\ v \in Seq(Runs)
  BY DEF Joins
<1>3. \A i \in 1..Len(s) : u[i] = v[i]
  BY DEF Joins
<1>4. \A i \in 1..Len(t) : u[Len(s) + i] = v[Len(s) + i]
  BY DEF Joins
<1>5. ASSUME NEW i \in 1..Len(u)
      PROVE  u[i] = v[i]
  <2>1. CASE i \in 1..Len(s)
    BY <1>3, <2>1
  <2>2. ASSUME i - Len(s) \in 1..Len(t), i = Len(s) + (i - Len(s))
        PROVE  u[i] = v[i]
    BY <1>4, <2>2
  <2> QED
    BY <1>1, <2>1, <2>2
<1> QED
  BY <1>2, <1>5, SeqEqual

\* There is one way to leave out an element.
LEMMA WithoutUnique ==
    ASSUME NEW s \in Seq(Runs), NEW k, NEW d, NEW e,
           Without(d, s, k), Without(e, s, k)
    PROVE  d = e
BY SeqEqual DEF Without

\* Removing a run that is listed once closes the gap it leaves.
LEMMA DequeueAt ==
    ASSUME NEW s \in Seq(Runs), NEW r, NEW k \in 1..Len(s), s[k] = r,
           \A j \in 1..Len(s) : s[j] = r => j = k
    PROVE  Without(Dequeue(s, r), s, k)
<1> DEFINE P(i) == s[i] = r /\ \A j \in 1..(i - 1) : s[j] # r
           first == CHOOSE i \in DOMAIN s : P(i)
           d == [j \in 1..(Len(s) - 1) |-> IF j < first THEN s[j] ELSE s[j + 1]]
<1>1. Dequeue(s, r) = d
  BY DEF Dequeue
<1>2. P(k)
  <2>1. \A j \in 1..(k - 1) : j \in 1..Len(s) /\ j # k
    OBVIOUS
  <2> QED
    BY <2>1
<1>3. first = k
  <2>1. \E i \in DOMAIN s : P(i)
    BY <1>2
  <2>2. first \in 1..Len(s) /\ s[first] = r
    BY <2>1
  <2> QED
    BY <2>2
<1>4. Len(s) - 1 \in Nat
  OBVIOUS
<1>5. d \in Seq(Runs) /\ Len(d) = Len(s) - 1
  BY <1>4
<1>6. \A i \in 1..(Len(s) - 1) : d[i] = IF i < first THEN s[i] ELSE s[i + 1]
  BY <1>4
<1> HIDE DEF first, d
<1> QED
  BY <1>1, <1>3, <1>5, <1>6 DEF Without

\* The first of a queue, removed.
LEMMA DequeueHead ==
    ASSUME NEW s \in Seq(Runs), s # <<>>, Distinct(s)
    PROVE  Dequeue(s, Head(s)) = Tail(s)
<1>1. 1 \in 1..Len(s) /\ s[1] = Head(s)
  OBVIOUS
<1>2. Without(Tail(s), s, 1)
  BY DEF Without
<1>3. \A j \in 1..Len(s) : s[j] = Head(s) => j = 1
  BY <1>1 DEF Distinct
<1>4. Without(Dequeue(s, Head(s)), s, 1)
  BY <1>1, <1>3, DequeueAt
<1> QED
  BY <1>2, <1>4, WithoutUnique

\* A run listed in one of two queues only is removed from that one.
LEMMA DequeueConcat ==
    ASSUME NEW s \in Seq(Runs), NEW t \in Seq(Runs), NEW r \in Runs,
           Distinct(s \o t)
    PROVE  /\ ~In(t, r) => Dequeue(s \o t, r) = Dequeue(s, r) \o t
           /\ ~In(s, r) => Dequeue(s \o t, r) = s \o Dequeue(t, r)
<1> DEFINE u == s \o t
<1>1. Joins(u, s, t) /\ u \in Seq(Runs)
  BY ConcatJoins DEF Joins
<1>2. \A i, j \in 1..Len(u) : u[i] = u[j] => i = j
  BY DEF Distinct
<1>3. CASE ~In(s, r) /\ ~In(t, r)
  <2>1. ~In(u, r)
    BY <1>3, InConcat
  <2>2. Dequeue(s, r) = s /\ Dequeue(t, r) = t
    BY <1>3, DequeueAbsent
  <2>3. Dequeue(u, r) = u
    BY <1>1, <2>1, DequeueAbsent
  <2> QED
    BY <2>2, <2>3
<1> HIDE DEF u
<1>4. ASSUME In(s, r)
      PROVE  Dequeue(u, r) = Dequeue(s, r) \o t
  <2>1. PICK k \in 1..Len(s) : s[k] = r
    BY <1>4 DEF In
  <2>2. k \in 1..Len(u) /\ u[k] = r
    BY <1>1, <2>1 DEF Joins
  <2>3. Without(Dequeue(u, r), u, k)
    BY <1>1, <1>2, <2>2, DequeueAt
  <2>4. \A j \in 1..Len(s) : s[j] = r => j = k
    BY <1>1, <1>2, <2>1, <2>2 DEF Joins
  <2>5. Without(Dequeue(s, r), s, k)
    BY <2>1, <2>4, DequeueAt
  <2>6. Joins(Dequeue(u, r), Dequeue(s, r), t)
    <3>1. ASSUME NEW i \in 1..(Len(s) - 1)
          PROVE  i \in 1..(Len(u) - 1) /\ u[i] = s[i] /\ u[i + 1] = s[i + 1]
      <4>1. i \in 1..Len(s) /\ i + 1 \in 1..Len(s) /\ i \in 1..(Len(u) - 1)
        BY <1>1 DEF Joins
      <4> QED
        BY <1>1, <4>1 DEF Joins
    <3>2. ASSUME NEW i \in 1..Len(t)
          PROVE  Dequeue(u, r)[(Len(s) - 1) + i] = t[i]
      <4>1. /\ (Len(s) - 1) + i \in 1..(Len(u) - 1)
            /\ ((Len(s) - 1) + i) + 1 = Len(s) + i
            /\ ~((Len(s) - 1) + i < k)
        BY <1>1, <2>1 DEF Joins
      <4> QED
        BY <1>1, <2>3, <4>1 DEF Joins, Without
    <3>3. \A i \in 1..(Len(s) - 1) : Dequeue(u, r)[i] = Dequeue(s, r)[i]
      BY <2>3, <2>5, <3>1 DEF Without
    <3>4. /\ Dequeue(u, r) \in Seq(Runs) /\ Len(Dequeue(s, r)) = Len(s) - 1
          /\ Len(Dequeue(u, r)) = (Len(s) - 1) + Len(t)
      BY <1>1, <2>3, <2>5 DEF Joins, Without
    <3> QED
      BY <3>2, <3>3, <3>4 DEF Joins
  <2> QED
    BY <2>5, <2>6, ConcatJoins, JoinsUnique DEF Without
<1>5. ASSUME In(t, r)
      PROVE  Dequeue(u, r) = s \o Dequeue(t, r)
  <2>1. PICK k \in 1..Len(t) : t[k] = r
    BY <1>5 DEF In
  <2>2. Len(s) + k \in 1..Len(u) /\ u[Len(s) + k] = r
    BY <1>1, <2>1 DEF Joins
  <2>3. Without(Dequeue(u, r), u, Len(s) + k)
    BY <1>1, <1>2, <2>2, DequeueAt
  <2>4. ASSUME NEW j \in 1..Len(t), t[j] = r
        PROVE  j = k
    <3>1. Len(s) + j \in 1..Len(u) /\ u[Len(s) + j] = r
      BY <1>1, <2>4 DEF Joins
    <3>2. Len(s) + j = Len(s) + k
      BY <1>2, <2>2, <3>1
    <3> QED
      BY <3>2
  <2>5. Without(Dequeue(t, r), t, k)
    BY <2>1, <2>4, DequeueAt
  <2>6. Joins(Dequeue(u, r), s, Dequeue(t, r))
    <3>1. \A i \in 1..Len(s) : i \in 1..(Len(u) - 1) /\ i < Len(s) + k
      BY <1>1, <2>1 DEF Joins
    <3>2. \A i \in 1..Len(s) : Dequeue(u, r)[i] = s[i]
      BY <1>1, <2>3, <3>1 DEF Joins, Without
    <3>3. ASSUME NEW i \in 1..(Len(t) - 1)
          PROVE  Dequeue(u, r)[Len(s) + i] = Dequeue(t, r)[i]
      <4>1. PICK j \in 1..Len(t) : j = i + 1
        OBVIOUS
      <4>2. /\ Len(s) + i \in 1..(Len(u) - 1) /\ i \in 1..Len(t)
            /\ (Len(s) + i) + 1 = Len(s) + j
            /\ (Len(s) + i < Len(s) + k <=> i < k)
        BY <1>1, <2>1, <4>1 DEF Joins
      <4>3. u[Len(s) + i] = t[i] /\ u[(Len(s) + i) + 1] = t[i + 1]
        BY <1>1, <4>1, <4>2 DEF Joins
      <4> QED
        BY <2>3, <2>5, <4>2, <4>3 DEF Without
    <3> QED
      BY <1>1, <2>3, <2>5, <3>2, <3>3 DEF Joins, Without
  <2> QED
    BY <2>5, <2>6, ConcatJoins, JoinsUnique DEF Without
<1>6. ~(In(s, r) /\ In(t, r))
  <2> SUFFICES ASSUME In(s, r), In(t, r) PROVE FALSE
    OBVIOUS
  <2>1. PICK i \in 1..Len(s) : s[i] = r
    BY DEF In
  <2>2. PICK j \in 1..Len(t) : t[j] = r
    BY DEF In
  <2>3. /\ i \in 1..Len(u) /\ Len(s) + j \in 1..Len(u)
        /\ u[i] = r /\ u[Len(s) + j] = r
    BY <1>1, <2>1, <2>2 DEF Joins
  <2>4. i = Len(s) + j
    BY <1>2, <2>3
  <2> QED
    BY <2>4
<1> QED
  BY <1>3, <1>4, <1>5, <1>6 DEF u

\* Moving the head of one queue to the end of another, or taking it off and
\* putting it back, changes nothing about their concatenation.
LEMMA HeadMoves ==
    ASSUME NEW s \in Seq(Runs), NEW t \in Seq(Runs), t # <<>>
    PROVE  Append(s, Head(t)) \o Tail(t) = s \o t
<1> DEFINE w == Append(s, Head(t))
<1>1. /\ Head(t) = t[1] /\ Head(t) \in Runs /\ Tail(t) \in Seq(Runs)
      /\ Len(Tail(t)) = Len(t) - 1
      /\ \A i \in 1..(Len(t) - 1) : Tail(t)[i] = t[i + 1]
  OBVIOUS
<1>2. /\ w \in Seq(Runs) /\ Len(w) = Len(s) + 1 /\ w[Len(s) + 1] = t[1]
      /\ \A i \in 1..Len(s) : w[i] = s[i] /\ i \in 1..Len(w)
  BY <1>1
<1> HIDE DEF w
<1>3. Joins(w \o Tail(t), w, Tail(t))
  BY <1>1, <1>2, ConcatJoins
<1>4. ASSUME NEW i \in 1..Len(t)
      PROVE  (w \o Tail(t))[Len(s) + i] = t[i]
  <2>1. CASE i = 1
    BY <1>2, <1>3, <2>1 DEF Joins
  <2>2. CASE i # 1
    <3>1. i - 1 \in 1..Len(Tail(t)) /\ Len(w) + (i - 1) = Len(s) + i
          /\ (i - 1) + 1 = i
      BY <1>1, <1>2, <2>2
    <3>2. (w \o Tail(t))[Len(w) + (i - 1)] = Tail(t)[i - 1]
      BY <1>3, <3>1 DEF Joins
    <3> QED
      BY <1>1, <3>1, <3>2
  <2> QED
    BY <2>1, <2>2
<1>5. Joins(w \o Tail(t), s, t)
  BY <1>1, <1>2, <1>3, <1>4 DEF Joins
<1> QED
  BY <1>5, ConcatJoins, JoinsUnique DEF w

-----------------------------------------------------------------------------
(* The queue the user sees *)

\* The run that was handed the permit and not stopped since is still listed.
Granted == IF slot \in Runs /\ pc[slot] = "granted" /\ ~stopped[slot]
           THEN <<slot>> ELSE <<>>

\* A wrapper that is suspended in a queue is listed there.
Suspended ==
    \A r \in Runs : /\ pc[r] = "parked" /\ ~stopped[r] => In(parked, r)
                    /\ pc[r] = "created" => In(ready, r)

QueueInv == Inv /\ QueueAgrees /\ Suspended

\* Who joins, who leaves.
LEMMA InQueues ==
    ASSUME NEW s \in Seq(Runs), NEW r \in Runs, NEW q \in Runs
    PROVE  /\ In(Append(s, r), q) <=> In(s, q) \/ q = r
           /\ s # <<>> /\ In(s, q) /\ q # Head(s) => In(Tail(s), q)
           /\ Distinct(s) /\ In(s, q) /\ q # r => In(Dequeue(s, r), q)
<1>1. In(Append(s, r), q) <=> In(s, q) \/ q = r
  <2>1. Len(Append(s, r)) = Len(s) + 1 /\ Append(s, r)[Len(s) + 1] = r
        /\ \A i \in 1..Len(s) : Append(s, r)[i] = s[i]
    OBVIOUS
  <2>2. \A i \in 1..(Len(s) + 1) : i = Len(s) + 1 \/ i \in 1..Len(s)
    OBVIOUS
  <2>3. /\ Len(s) + 1 \in 1..(Len(s) + 1)
        /\ \A i \in 1..Len(s) : i \in 1..(Len(s) + 1)
    OBVIOUS
  <2> QED
    BY <2>1, <2>2, <2>3 DEF In
<1>2. ASSUME s # <<>>, In(s, q), q # Head(s)
      PROVE  In(Tail(s), q)
  <2>1. PICK i \in 1..Len(s) : s[i] = q
    BY <1>2 DEF In
  <2>2. /\ i - 1 \in 1..Len(Tail(s)) /\ Tail(s)[i - 1] = s[(i - 1) + 1]
        /\ (i - 1) + 1 = i
    BY <1>2, <2>1
  <2> QED
    BY <2>1, <2>2 DEF In
<1>3. ASSUME Distinct(s), In(s, q), q # r
      PROVE  In(Dequeue(s, r), q)
  <2>1. CASE ~In(s, r)
    BY <1>3, <2>1, DequeueAbsent
  <2>2. CASE In(s, r)
    <3>1. PICK k \in 1..Len(s) : s[k] = r
      BY <2>2 DEF In
    <3>2. Without(Dequeue(s, r), s, k)
      BY <1>3, <3>1, DequeueAt DEF Distinct
    <3>3. PICK i \in 1..Len(s) : s[i] = q
      BY <1>3 DEF In
    <3>4. CASE i < k
      <4>1. i \in 1..(Len(s) - 1) /\ Dequeue(s, r)[i] = q
        BY <3>2, <3>3, <3>4 DEF Without
      <4> QED
        BY <3>2, <4>1 DEF In, Without
    <3>5. CASE i > k
      <4>1. PICK j \in 1..(Len(s) - 1) : j + 1 = i
        BY <3>5
      <4>2. Dequeue(s, r)[j] = q
        BY <3>2, <3>3, <3>5, <4>1 DEF Without
      <4> QED
        BY <3>2, <4>2 DEF In, Without
    <3> QED
      BY <1>3, <3>1, <3>3, <3>4, <3>5
  <2> QED
    BY <2>1, <2>2
<1> QED
  BY <1>1, <1>2, <1>3

\* A queue of one, emptied.
LEMMA DequeueOnly ==
    ASSUME NEW r \in Runs
    PROVE  Dequeue(<<r>>, r) = <<>>
<1>1. <<r>> \in Seq(Runs) /\ <<r>> # <<>> /\ Distinct(<<r>>)
  BY DEF Distinct
<1>2. Head(<<r>>) = r /\ Tail(<<r>>) = <<>>
  OBVIOUS
<1> QED
  BY <1>1, <1>2, DequeueHead

\* Where the listed runs are suspended, and that each is listed once.
LEMMA Listed ==
    ASSUME Inv, QueueAgrees
    PROVE  /\ Granted \in Seq(Runs) /\ parked \in Seq(Runs)
           /\ ready \in Seq(Runs) /\ waiting \in Seq(Runs)
           /\ waiting = (Granted \o parked) \o ready
           /\ \A r : In(parked, r) => pc[r] = "parked" /\ ~stopped[r]
           /\ \A r : In(ready, r) => pc[r] = "created"
           /\ \A r : In(Granted, r) =>
                 r = slot /\ r \in Runs /\ pc[r] = "granted" /\ ~stopped[r]
           /\ \A r \in Runs : In(waiting, r) <=>
                 In(Granted, r) \/ In(parked, r) \/ In(ready, r)
           /\ Distinct(Granted \o parked) /\ Distinct(waiting)
<1>1. /\ parked \in Seq(Runs) /\ ready \in Seq(Runs) /\ waiting \in Seq(Runs)
      /\ Distinct(parked) /\ Distinct(ready)
  BY DEF Inv, TypeOK, Queues
<1>2. Granted \in Seq(Runs) /\ Distinct(Granted)
  BY DEF Granted, Distinct
<1>3. waiting = (Granted \o parked) \o ready
  BY DEF QueueAgrees, Granted
<1>4. \A r : In(parked, r) => pc[r] = "parked" /\ ~stopped[r]
  BY DEF Inv, Queues, In
<1>5. \A r : In(ready, r) => pc[r] = "created"
  BY DEF Inv, Queues, In
<1>6. \A r : In(Granted, r) =>
         r = slot /\ r \in Runs /\ pc[r] = "granted" /\ ~stopped[r]
  BY DEF Granted, In
<1>7. Distinct(Granted \o parked)
  BY <1>1, <1>2, <1>4, <1>6, DistinctConcat
<1>8. Granted \o parked \in Seq(Runs)
  BY <1>1, <1>2, ConcatProperties
<1>9. \A r : In(Granted \o parked, r) => pc[r] \in {"granted", "parked"}
  BY <1>1, <1>2, <1>4, <1>6, InConcat
<1>10. Distinct(waiting)
  <2>1. \A r \in Runs : ~(In(Granted \o parked, r) /\ In(ready, r))
    BY <1>5, <1>9
  <2> QED
    BY <1>1, <1>3, <1>7, <1>8, <2>1, DistinctConcat
<1>11. \A r \in Runs : In(waiting, r) <=>
          In(Granted, r) \/ In(parked, r) \/ In(ready, r)
  <2> TAKE r \in Runs
  <2>1. In(waiting, r) <=> In(Granted \o parked, r) \/ In(ready, r)
    BY <1>1, <1>3, <1>8, InConcat
  <2>2. In(Granted \o parked, r) <=> In(Granted, r) \/ In(parked, r)
    BY <1>1, <1>2, InConcat
  <2> QED
    BY <2>1, <2>2
<1> QED
  BY <1>1, <1>2, <1>3, <1>4, <1>5, <1>6, <1>7, <1>10, <1>11

\* Without a permit handed over, the list is the two queues.
LEMMA NobodyGranted ==
    ASSUME Inv, QueueAgrees, Granted = <<>>
    PROVE  waiting = parked \o ready
BY Listed, ConcatEmptySeq

\* Semaphore.release hands the permit to the run the list already has first.
LEMMA ReleaseGrants ==
    ASSUME Inv, NEW r \in Runs, pc[r] \in Holding, stopped' = stopped,
           Release([pc EXCEPT ![r] = AfterExit(r)])
    PROVE  Granted' \o parked' = parked
<1>1. CASE parked = <<>>
  <2>1. slot' = Free /\ parked' = <<>>
    BY <1>1 DEF Release
  <2>2. Granted' = <<>>
    BY <2>1, FreeAssumption DEF Granted
  <2> QED
    BY <1>1, <2>1, <2>2
<1>2. CASE parked # <<>>
  <2> DEFINE h == Head(parked)
  <2>1. /\ h \in Runs /\ h # r /\ parked' = Tail(parked) /\ slot' = h
        /\ pc' = [pc EXCEPT ![r] = AfterExit(r), ![h] = "granted"]
    BY <1>2, ReleaseHands
  <2>2. ~stopped[h]
    BY <1>2, HeadTail DEF Inv, TypeOK, Queues
  <2>3. pc'[h] = "granted"
    BY <2>1 DEF Inv, TypeOK
  <2>4. Granted' = <<h>>
    BY <2>1, <2>2, <2>3 DEF Granted
  <2>5. parked \in Seq(Runs) /\ <<>> \in Seq(Runs)
    BY DEF Inv, TypeOK
  <2>6. Append(<<>>, h) = <<h>>
    OBVIOUS
  <2>7. Append(<<>>, h) \o Tail(parked) = <<>> \o parked
    BY <1>2, <2>5, HeadMoves
  <2>8. <<>> \o parked = parked
    BY <2>5, ConcatEmptySeq
  <2> HIDE DEF h
  <2> QED
    BY <2>1, <2>4, <2>6, <2>7, <2>8
<1> QED
  BY <1>1, <1>2

\* A step that moves no queue and gives nobody the permit.
LEMMA GrantedFrame ==
    ASSUME UNCHANGED <<slot, stopped>>,
           slot \in Runs => (pc'[slot] = "granted" <=> pc[slot] = "granted")
    PROVE  Granted' = Granted
BY DEF Granted

\* The list stays the queue the semaphore serves.
LEMMA QueueAgreesStep == QueueInv /\ [Next]_vars => QueueAgrees'
<1> SUFFICES ASSUME QueueInv, [Next]_vars
             PROVE  waiting' = (Granted' \o parked') \o ready'
  BY DEF QueueAgrees, Granted
<1> DEFINE Agrees == waiting' = (Granted' \o parked') \o ready'
<1>0. Inv /\ TypeOK /\ QueueAgrees
  BY DEF QueueInv, Inv
<1>a. ASSUME UNCHANGED <<slot, stopped, waiting, parked, ready>>,
             slot \in Runs => (pc'[slot] = "granted" <=> pc[slot] = "granted")
      PROVE  Agrees
  BY <1>0, <1>a, GrantedFrame, Listed
<1>b. ASSUME NEW r \in Runs, pc[r] \in Holding, Granted = <<>>,
             Release([pc EXCEPT ![r] = AfterExit(r)]),
             UNCHANGED <<stopped, waiting, ready>>
      PROVE  Agrees
  BY <1>0, <1>b, ReleaseGrants, NobodyGranted
<1>c. ASSUME NEW r \in Runs, pc[r] \in Holding, pc[r] = "granted" => stopped[r]
      PROVE  Granted = <<>> /\ ~In(waiting, r)
  <2>1. slot = r
    BY <1>0, <1>c DEF Inv, Permit
  <2>2. Granted = <<>>
    BY <1>c, <2>1 DEF Granted
  <2> QED
    BY <1>0, <1>c, <2>2, Listed DEF Holding, Live, In
<1>1. ASSUME NEW r \in Runs, Submit(r) PROVE Agrees
  <2>1. /\ waiting' = Append(waiting, r) /\ ready' = Append(ready, r)
        /\ UNCHANGED <<slot, stopped, parked>>
        /\ pc' = [pc EXCEPT ![r] = "created"] /\ pc[r] = "unborn"
    BY <1>1 DEF Submit
  <2>2. Granted' = Granted
    BY <1>0, <2>1, GrantedFrame DEF TypeOK
  <2> DEFINE s == Granted \o parked
  <2>3. s \in Seq(Runs) /\ ready \in Seq(Runs) /\ waiting = s \o ready
        /\ waiting \in Seq(Runs) /\ <<r>> \in Seq(Runs)
    BY <1>0, Listed, ConcatProperties
  <2> HIDE DEF s
  <2>4. waiting' = (s \o ready) \o <<r>> /\ ready' = ready \o <<r>>
    BY <2>1, <2>3, AppendIsConcat
  <2>5. (s \o ready) \o <<r>> = s \o (ready \o <<r>>)
    BY <2>3, ConcatAssociative
  <2> QED
    BY <2>1, <2>2, <2>4, <2>5 DEF s
<1>2. ASSUME NEW r \in Runs, AcquireAtOnce(r) PROVE Agrees
  <2>1. /\ ready # <<>> /\ r = Head(ready) /\ ready' = Tail(ready)
        /\ slot = Free /\ slot' = r /\ parked' = parked
        /\ waiting' = Dequeue(waiting, r)
        /\ pc' = [pc EXCEPT ![r] = "admitting"]
    BY <1>2 DEF AcquireAtOnce, Admitted
  <2>2. Granted = <<>> /\ parked = <<>>
    BY <1>0, <2>1, FreeAssumption DEF Granted, Inv, Permit
  <2>3. Granted' = <<>>
    BY <1>0, <2>1 DEF Granted, TypeOK
  <2>4. ready \in Seq(Runs) /\ Distinct(ready) /\ Tail(ready) \in Seq(Runs)
    BY <1>0, <2>1, HeadTail DEF Inv, Queues, TypeOK
  <2>5. waiting = ready
    BY <1>0, <2>2, <2>4, NobodyGranted, ConcatEmptySeq
  <2>6. waiting' = Tail(ready)
    BY <2>1, <2>4, <2>5, DequeueHead
  <2>7. (<<>> \o <<>>) \o Tail(ready) = Tail(ready)
    BY <2>4, ConcatEmptySeq
  <2> QED
    BY <2>1, <2>2, <2>3, <2>6, <2>7
<1>3. ASSUME NEW r \in Runs, Park(r) PROVE Agrees
  <2>1. /\ ready # <<>> /\ r = Head(ready) /\ ready' = Tail(ready)
        /\ parked' = Append(parked, r) /\ UNCHANGED <<slot, stopped, waiting>>
        /\ pc' = [pc EXCEPT ![r] = "parked"]
    BY <1>3 DEF Park
  <2>2. pc[r] = "created"
    BY <1>0, <2>1, HeadTail DEF Inv, Queues, TypeOK
  <2>3. Granted' = Granted
    BY <1>0, <2>1, <2>2, GrantedFrame DEF TypeOK
  <2>4. /\ Granted \in Seq(Runs) /\ parked \in Seq(Runs) /\ ready \in Seq(Runs)
        /\ waiting = (Granted \o parked) \o ready /\ <<r>> \in Seq(Runs)
    BY <1>0, Listed
  <2>5. Granted \o parked \in Seq(Runs)
    BY <2>4, ConcatProperties
  <2>6. Granted \o Append(parked, r) = Append(Granted \o parked, r)
    BY <2>4, <2>5, AppendIsConcat, ConcatAssociative
  <2>7. Append(Granted \o parked, Head(ready)) \o Tail(ready)
            = (Granted \o parked) \o ready
    BY <2>1, <2>4, <2>5, HeadMoves
  <2> QED
    BY <2>1, <2>3, <2>4, <2>6, <2>7
<1>4. ASSUME NEW r \in Runs, Resume(r) PROVE Agrees
  <2>1. /\ pc[r] = "granted" /\ ~stopped[r] /\ waiting' = Dequeue(waiting, r)
        /\ UNCHANGED <<slot, stopped, parked, ready>>
        /\ pc' = [pc EXCEPT ![r] = "admitting"]
    BY <1>4 DEF Resume, Admitted
  <2>2. slot = r
    BY <1>0, <2>1 DEF Inv, Permit, Holding
  <2>3. Granted = <<r>> /\ Granted' = <<>>
    BY <1>0, <2>1, <2>2 DEF Granted, TypeOK
  <2> DEFINE t == parked \o ready
  <2>4. /\ Granted \in Seq(Runs) /\ parked \in Seq(Runs) /\ ready \in Seq(Runs)
        /\ waiting = (Granted \o parked) \o ready /\ Distinct(waiting)
    BY <1>0, Listed
  <2>5. t \in Seq(Runs) /\ waiting = <<r>> \o t
    BY <2>3, <2>4, ConcatAssociative, ConcatProperties
  <2>6. ~In(t, r)
    BY <1>0, <2>1, <2>4, Listed, InConcat
  <2>7. Dequeue(waiting, r) = Dequeue(<<r>>, r) \o t
    <3>1. <<r>> \in Seq(Runs) /\ Distinct(<<r>> \o t)
      BY <2>4, <2>5
    <3> HIDE DEF t
    <3> QED
      BY <2>5, <2>6, <3>1, DequeueConcat
  <2>8. Dequeue(<<r>>, r) = <<>>
    BY DequeueOnly
  <2>9. <<>> \o t = t /\ (<<>> \o parked) \o ready = t
    BY <2>4, <2>5, ConcatEmptySeq
  <2> QED
    BY <2>1, <2>3, <2>7, <2>8, <2>9
<1>5. ASSUME NEW r \in Runs, ResumeStopped(r) PROVE Agrees
  <2>1. /\ pc[r] = "granted" /\ stopped[r] /\ waiting' = Dequeue(waiting, r)
        /\ Release([pc EXCEPT ![r] = AfterExit(r)])
        /\ UNCHANGED <<stopped, ready>>
    BY <1>5 DEF ResumeStopped
  <2>2. Granted = <<>> /\ ~In(waiting, r)
    BY <1>c, <2>1 DEF Holding
  <2>3. waiting' = waiting
    BY <1>0, <2>1, <2>2, DequeueAbsent DEF TypeOK
  <2> QED
    BY <1>b, <2>1, <2>2, <2>3 DEF Holding
<1>6. ASSUME NEW r \in Runs, Unpark(r) PROVE Agrees
  <2>1. /\ pc[r] = "parked" /\ stopped[r] /\ waiting' = Dequeue(waiting, r)
        /\ UNCHANGED <<slot, stopped, parked, ready>>
        /\ pc' = [pc EXCEPT ![r] = AfterExit(r)]
    BY <1>6 DEF Unpark
  <2>2. ~In(waiting, r)
    BY <1>0, <2>1, Listed
  <2>3. waiting' = waiting
    BY <1>0, <2>1, <2>2, DequeueAbsent DEF TypeOK
  <2> QED
    BY <1>0, <1>a, <2>1, <2>3 DEF TypeOK, AfterExit
<1>7. ASSUME NEW r \in Runs, StartBody(r) PROVE Agrees
  BY <1>0, <1>a, <1>7 DEF StartBody, TypeOK
<1>8. ASSUME NEW r \in Runs, AdmitFails(r) \/ LeaveSlot(r) PROVE Agrees
  <2>1. /\ pc[r] \in Live /\ Release([pc EXCEPT ![r] = AfterExit(r)])
        /\ UNCHANGED <<stopped, waiting, ready>>
    BY <1>8 DEF AdmitFails, LeaveSlot, Live
  <2>2. pc[r] \in Holding /\ pc[r] # "granted"
    BY <2>1 DEF Holding, Live
  <2> QED
    BY <1>b, <1>c, <2>1, <2>2
<1>9. ASSUME NEW r \in Runs, TeardownEnds(r) PROVE Agrees
  BY <1>0, <1>a, <1>9 DEF TeardownEnds, TypeOK
<1>10. ASSUME NEW r \in Runs, Body(r) \/ CancelRunning(r) \/ WatchdogFires(r)
       PROVE  Agrees
  BY <1>a, <1>10
  DEF Body, BodyReturns, BodyHonoursToken, BodyHardCancelled, CancelRunning,
      WatchdogFires
<1>11. ASSUME NEW r \in Runs, CancelQueued(r) PROVE Agrees
  <2>1. /\ r \in entries /\ state[r] = "queued"
        /\ waiting' = Dequeue(waiting, r) /\ parked' = Dequeue(parked, r)
        /\ ready' = Dequeue(ready, r) /\ slot' = slot
        /\ stopped' = [stopped EXCEPT ![r] = TRUE]
        /\ pc' = [pc EXCEPT ![r] = IF @ = "created" THEN "stillborn" ELSE @]
    BY <1>11 DEF CancelQueued
  <2>2. /\ Granted \in Seq(Runs) /\ parked \in Seq(Runs) /\ ready \in Seq(Runs)
        /\ waiting = (Granted \o parked) \o ready
        /\ Distinct(Granted \o parked) /\ Distinct(waiting)
        /\ Granted \o parked \in Seq(Runs)
    BY <1>0, Listed, ConcatProperties
  <2>3. ~In(ready, r) => waiting' = Dequeue(Granted \o parked, r) \o ready
    BY <2>1, <2>2, DequeueConcat
  <2>4. ~In(Granted \o parked, r)
            => waiting' = (Granted \o parked) \o Dequeue(ready, r)
    BY <2>1, <2>2, DequeueConcat
  <2>5. ~In(Granted, r) => Granted' = Granted
    <3>1. CASE slot = r /\ pc[r] = "granted" /\ ~stopped[r]
      BY <3>1 DEF Granted, In
    <3>2. CASE ~(slot = r /\ pc[r] = "granted" /\ ~stopped[r])
      BY <1>0, <2>1, <3>2 DEF Granted, TypeOK
    <3> QED
      BY <3>1, <3>2
  <2>6. In(Granted \o parked, r) <=> In(Granted, r) \/ In(parked, r)
    BY <2>2, InConcat
  <2>7. CASE In(Granted, r)
    <3>1. r = slot /\ pc[r] = "granted" /\ ~In(parked, r) /\ ~In(ready, r)
      BY <1>0, <2>7, Listed
    <3>2. Granted = <<r>> /\ Granted' = <<>>
      BY <1>0, <2>1, <2>7, <3>1 DEF Granted, TypeOK, In
    <3>3. Dequeue(Granted \o parked, r) = Dequeue(<<r>>, r) \o parked
      <4>1. /\ Granted \in Seq(Runs) /\ parked \in Seq(Runs)
            /\ Distinct(Granted \o parked) /\ ~In(parked, r)
        BY <2>2, <3>1
      <4>2. Dequeue(Granted \o parked, r) = Dequeue(Granted, r) \o parked
        BY <4>1, DequeueConcat
      <4> QED
        BY <3>2, <4>2
    <3>4. Dequeue(<<r>>, r) = <<>>
      BY DequeueOnly
    <3>5. Dequeue(parked, r) = parked /\ Dequeue(ready, r) = ready
      BY <2>2, <3>1, DequeueAbsent
    <3> QED
      BY <2>1, <2>3, <3>1, <3>2, <3>3, <3>4, <3>5
  <2>8. CASE In(parked, r)
    <3>1. ~In(Granted, r) /\ ~In(ready, r)
      BY <1>0, <2>8, Listed
    <3>2. Dequeue(Granted \o parked, r) = Granted \o Dequeue(parked, r)
      BY <2>2, <3>1, DequeueConcat
    <3>3. Dequeue(ready, r) = ready
      BY <2>2, <3>1, DequeueAbsent
    <3> QED
      BY <2>1, <2>3, <2>5, <3>1, <3>2, <3>3
  <2>9. CASE ~In(Granted, r) /\ ~In(parked, r)
    <3>1. Dequeue(parked, r) = parked
      BY <2>2, <2>9, DequeueAbsent
    <3> QED
      BY <2>1, <2>4, <2>5, <2>6, <2>9, <3>1
  <2> QED
    BY <2>7, <2>8, <2>9
<1>12. CASE UNCHANGED vars
  BY <1>a, <1>12 DEF vars
<1> QED
  BY <1>1, <1>2, <1>3, <1>4, <1>5, <1>6, <1>7, <1>8, <1>9, <1>10, <1>11, <1>12
  DEF Next, Step, Wrapper, Admission, Cancel

\* A wrapper leaves its queue when it is resumed, handed the permit or
\* cancelled, and not before.
LEMMA SuspendedStep == QueueInv /\ [Next]_vars => Suspended'
<1> SUFFICES ASSUME QueueInv, [Next]_vars PROVE Suspended'
  OBVIOUS
<1>0. /\ Inv /\ Suspended /\ pc \in [Runs -> Points]
      /\ parked \in Seq(Runs) /\ ready \in Seq(Runs)
      /\ Distinct(parked) /\ Distinct(ready)
      /\ stopped \in [Runs -> BOOLEAN]
  BY DEF QueueInv, Inv, TypeOK, Queues
<1>a. ASSUME NEW r \in Runs, UNCHANGED <<stopped, parked, ready>>,
             \A q \in Runs \ {r} : pc'[q] = pc[q],
             pc'[r] \notin {"parked", "created"}
      PROVE  Suspended'
  <2>1. \A q \in Runs : pc'[q] \in {"parked", "created"} => pc'[q] = pc[q]
    BY <1>a
  <2> QED
    BY <1>0, <1>a, <2>1 DEF Suspended
<1>b. ASSUME NEW r \in Runs, pc[r] \in Holding,
             Release([pc EXCEPT ![r] = AfterExit(r)]),
             UNCHANGED <<stopped, ready>>
      PROVE  Suspended'
  <2>1. CASE parked = <<>>
    BY <1>0, <1>a, <1>b, <2>1 DEF Release, AfterExit
  <2>2. CASE parked # <<>>
    <3> DEFINE h == Head(parked)
    <3>1. /\ h \in Runs /\ parked' = Tail(parked)
          /\ pc' = [pc EXCEPT ![r] = AfterExit(r), ![h] = "granted"]
      BY <1>0, <1>b, <2>2, ReleaseHands
    <3>2. AfterExit(r) \notin {"parked", "created"}
      BY DEF AfterExit
    <3>3. \A q \in Runs : pc'[q] \in {"parked", "created"}
                              => pc'[q] = pc[q] /\ q # h
      BY <1>0, <3>1, <3>2
    <3>4. \A q \in Runs : In(parked, q) /\ q # h => In(parked', q)
      BY <1>0, <2>2, <3>1, InQueues
    <3> QED
      BY <1>0, <1>b, <3>3, <3>4 DEF Suspended
  <2> QED
    BY <2>1, <2>2
<1>1. ASSUME NEW r \in Runs, Submit(r) PROVE Suspended'
  <2>1. /\ ready' = Append(ready, r) /\ UNCHANGED <<stopped, parked>>
        /\ pc' = [pc EXCEPT ![r] = "created"]
    BY <1>1 DEF Submit
  <2>2. \A q \in Runs : In(ready', q) <=> In(ready, q) \/ q = r
    BY <1>0, <2>1, InQueues
  <2> QED
    BY <1>0, <2>1, <2>2 DEF Suspended
<1>2. ASSUME NEW r \in Runs, AcquireAtOnce(r) PROVE Suspended'
  <2>1. /\ ready # <<>> /\ r = Head(ready) /\ ready' = Tail(ready)
        /\ UNCHANGED <<stopped, parked>>
        /\ pc' = [pc EXCEPT ![r] = "admitting"]
    BY <1>2 DEF AcquireAtOnce, Admitted
  <2>2. \A q \in Runs : In(ready, q) /\ q # r => In(ready', q)
    BY <1>0, <2>1, InQueues
  <2> QED
    BY <1>0, <2>1, <2>2 DEF Suspended
<1>3. ASSUME NEW r \in Runs, Park(r) PROVE Suspended'
  <2>1. /\ ready # <<>> /\ r = Head(ready) /\ ready' = Tail(ready)
        /\ parked' = Append(parked, r) /\ UNCHANGED stopped
        /\ pc' = [pc EXCEPT ![r] = "parked"]
    BY <1>3 DEF Park
  <2>2. \A q \in Runs : In(ready, q) /\ q # r => In(ready', q)
    BY <1>0, <2>1, InQueues
  <2>3. \A q \in Runs : In(parked', q) <=> In(parked, q) \/ q = r
    BY <1>0, <2>1, InQueues
  <2> QED
    BY <1>0, <2>1, <2>2, <2>3 DEF Suspended
<1>4. ASSUME NEW r \in Runs, Resume(r) PROVE Suspended'
  BY <1>0, <1>a, <1>4 DEF Resume, Admitted
<1>5. ASSUME NEW r \in Runs, ResumeStopped(r) \/ AdmitFails(r) \/ LeaveSlot(r)
      PROVE  Suspended'
  BY <1>b, <1>5 DEF ResumeStopped, AdmitFails, LeaveSlot, Holding, Live
<1>6. ASSUME NEW r \in Runs, Unpark(r) PROVE Suspended'
  BY <1>0, <1>a, <1>6 DEF Unpark, AfterExit
<1>7. ASSUME NEW r \in Runs, StartBody(r) PROVE Suspended'
  BY <1>0, <1>a, <1>7 DEF StartBody
<1>8. ASSUME NEW r \in Runs, TeardownEnds(r) PROVE Suspended'
  BY <1>0, <1>a, <1>8 DEF TeardownEnds
<1>9. ASSUME NEW r \in Runs, Body(r) \/ CancelRunning(r) \/ WatchdogFires(r)
      PROVE  Suspended'
  BY <1>0, <1>9
  DEF Body, BodyReturns, BodyHonoursToken, BodyHardCancelled, CancelRunning,
      WatchdogFires, Suspended
<1>10. ASSUME NEW r \in Runs, CancelQueued(r) PROVE Suspended'
  <2>1. /\ parked' = Dequeue(parked, r) /\ ready' = Dequeue(ready, r)
        /\ stopped' = [stopped EXCEPT ![r] = TRUE]
        /\ pc' = [pc EXCEPT ![r] = IF @ = "created" THEN "stillborn" ELSE @]
    BY <1>10 DEF CancelQueued
  <2>2. \A q \in Runs : q # r => /\ In(parked, q) => In(parked', q)
                                 /\ In(ready, q) => In(ready', q)
    BY <1>0, <2>1, InQueues
  <2> QED
    BY <1>0, <2>1, <2>2 DEF Suspended
<1>11. CASE UNCHANGED vars
  BY <1>0, <1>11 DEF vars, Suspended
<1> QED
  BY <1>1, <1>2, <1>3, <1>4, <1>5, <1>6, <1>7, <1>8, <1>9, <1>10, <1>11
  DEF Next, Step, Wrapper, Admission, Cancel

\* Every reachable state keeps list, queues and wrappers in agreement.
LEMMA QueueInvariance == Spec => []QueueInv
<1>1. Init => QueueInv
  <2> SUFFICES ASSUME Init PROVE QueueInv
    OBVIOUS
  <2>1. Inv
    BY InitInv
  <2>2. QueueAgrees
    BY FreeAssumption, ConcatEmptySeq DEF Init, QueueAgrees
  <2>3. Suspended
    BY DEF Init, Suspended
  <2> QED
    BY <2>1, <2>2, <2>3 DEF QueueInv
<1>2. QueueInv /\ [Next]_vars => QueueInv'
  BY TypeStep, PermitStep, QueuesStep, EntryStep, QueueAgreesStep,
     SuspendedStep DEF QueueInv, Inv
<1> QED
  BY <1>1, <1>2, PTL DEF Spec

\* The queue position the console shows is the place in which the semaphore
\* serves: the waiting list is the run just handed the permit, then the
\* parked wrappers, then those that have not run yet, however runs are
\* cancelled in between.
THEOREM ShownQueueIsServed == Spec => []QueueAgrees
BY QueueInvariance, PTL DEF QueueInv

-----------------------------------------------------------------------------
(* The registry implements the single-slot queue, step by step *)

\* Who is running, and who has finished, changes only by the one run.
RunningIsLive ==
    /\ \A r \in Runs : pc[r] \in Live => Running = r
    /\ (\A r \in Runs : pc[r] \notin Live) => Running = Free
    /\ Running \in Runs => pc[Running] \in Live

\* The running run of the abstract queue is the admitted one.
LEMMA RunningIs == (Inv => RunningIsLive) /\ (Inv' => RunningIsLive')
<1>1. Inv => RunningIsLive
  BY FreeAssumption DEF Inv, Permit, Running, Holding, RunningIsLive
<1>2. Inv' => RunningIsLive'
  BY FreeAssumption DEF Inv, Permit, Running, Holding, RunningIsLive
<1> QED
  BY <1>1, <1>2

\* An entry that says done, and no other, is over.
LEMMA FinishedIs ==
    ASSUME NEW r \in Runs, state \in [Runs -> States], NEW s,
           state' = [state EXCEPT ![r] = s]
    PROVE  Finished' = IF s = "done" THEN Finished \cup {r}
                       ELSE Finished \ {r}
BY DEF Finished

\* Every step of the registry is one step of the queue or a stutter.
LEMMA QueueStep == QueueInv /\ [Next]_vars => [Queue!Next]_Queue!vars
<1> SUFFICES ASSUME QueueInv, [Next]_vars PROVE [Queue!Next]_Queue!vars
  OBVIOUS
<1>0. /\ Inv /\ Inv' /\ QueueAgrees /\ waiting \in Seq(Runs)
      /\ pc \in [Runs -> Points] /\ state \in [Runs -> States]
      /\ RunningIsLive /\ RunningIsLive'
  BY TypeStep, PermitStep, QueuesStep, EntryStep, RunningIs
  DEF QueueInv, Inv, TypeOK
<1>a. ASSUME waiting' = waiting, Running' = Running, Finished' = Finished
      PROVE  [Queue!Next]_Queue!vars
  BY <1>a DEF Queue!vars
<1>b. ASSUME \A r \in Runs : pc'[r] \in Live <=> pc[r] \in Live
      PROVE  Running' = Running
  <2>1. CASE \E r \in Runs : pc[r] \in Live
    BY <1>0, <1>b, <2>1 DEF RunningIsLive
  <2>2. CASE \A r \in Runs : pc[r] \notin Live
    BY <1>0, <1>b, <2>2 DEF RunningIsLive
  <2> QED
    BY <2>1, <2>2
<1>c. ASSUME waiting' = waiting, state' = state,
             \A r \in Runs : pc'[r] \in Live <=> pc[r] \in Live
      PROVE  [Queue!Next]_Queue!vars
  BY <1>a, <1>b, <1>c DEF Finished
<1>d. ASSUME NEW r \in Runs, pc[r] \in Holding, parked # <<>>,
             Release([pc EXCEPT ![r] = AfterExit(r)])
      PROVE  \A q \in Runs : pc'[q] \in Live <=> pc[q] \in Live /\ q # r
  <2>1. /\ Head(parked) \in Runs /\ Head(parked) # r
        /\ pc[Head(parked)] = "parked"
        /\ pc' = [pc EXCEPT ![r] = AfterExit(r), ![Head(parked)] = "granted"]
    BY <1>0, <1>d, ReleaseHands
  <2> QED
    BY <1>0, <2>1 DEF AfterExit, Live
<1>e. ASSUME NEW r \in Runs, pc[r] \in Holding,
             Release([pc EXCEPT ![r] = AfterExit(r)])
      PROVE  \A q \in Runs : pc'[q] \in Live <=> pc[q] \in Live /\ q # r
  <2>1. CASE parked = <<>>
    BY <1>0, <1>e, <2>1 DEF Release, AfterExit, Live
  <2> QED
    BY <1>d, <1>e, <2>1
<1>1. ASSUME NEW r \in Runs, Submit(r) PROVE Queue!Enqueue(r)
  <2>1. /\ pc[r] = "unborn" /\ waiting' = Append(waiting, r)
        /\ state' = state /\ pc' = [pc EXCEPT ![r] = "created"]
    BY <1>1 DEF Submit
  <2>2. ~In(waiting, r)
    BY <1>0, <2>1, Listed
  <2>3. Running # r /\ r \notin Finished
    BY <1>0, <2>1 DEF RunningIsLive, Finished, Inv, Entry, Live
  <2>4. Running' = Running /\ Finished' = Finished
    BY <1>0, <1>b, <2>1 DEF Finished, Live
  <2> QED
    BY <1>0, <2>1, <2>2, <2>3, <2>4 DEF Queue!Enqueue, Queue!Member, In
<1>2. ASSUME NEW r \in Runs, AcquireAtOnce(r) \/ Resume(r) PROVE Queue!Start
  <2>1. /\ pc' = [pc EXCEPT ![r] = "admitting"]
        /\ state' = [state EXCEPT ![r] = "running"]
        /\ waiting' = Dequeue(waiting, r)
    BY <1>2 DEF AcquireAtOnce, Resume, Admitted
  <2>2. Running' = r
    <3>1. pc'[r] \in Live
      BY <1>0, <2>1 DEF Live
    <3> QED
      BY <1>0, <3>1 DEF RunningIsLive
  <2>3. Running = Free
    <3>1. CASE AcquireAtOnce(r)
      BY <3>1, FreeAssumption DEF AcquireAtOnce, Running
    <3>2. CASE Resume(r)
      <4>1. slot = r /\ pc[r] = "granted"
        BY <1>0, <3>2 DEF Resume, Inv, Permit, Holding
      <4> QED
        BY <4>1 DEF Running, Live
    <3> QED
      BY <1>2, <3>1, <3>2
  <2>4. Finished' = Finished
    <3>1. pc[r] \in {"created", "granted"} /\ ~stopped[r]
      <4>1. CASE AcquireAtOnce(r)
        <5>1. pc[r] = "created"
          BY <1>0, <4>1, HeadTail DEF AcquireAtOnce, Inv, TypeOK, Queues
        <5> QED
          BY <1>0, <5>1 DEF Inv, Entry
      <4>2. CASE Resume(r)
        BY <4>2 DEF Resume
      <4> QED
        BY <1>2, <4>1, <4>2
    <3>2. state[r] # "done"
      BY <1>0, <3>1 DEF Inv, Entry
    <3> QED
      BY <1>0, <2>1, <3>2 DEF Finished
  <2>5. waiting # <<>> /\ Head(waiting) = r
    <3>1. CASE AcquireAtOnce(r)
      <4>1. ready # <<>> /\ Head(ready) = r /\ slot = Free
        BY <3>1 DEF AcquireAtOnce
      <4>2. Granted = <<>> /\ parked = <<>>
        BY <1>0, <4>1, FreeAssumption DEF Granted, Inv, Permit
      <4>3. waiting = ready
        BY <1>0, <4>2, NobodyGranted, ConcatEmptySeq DEF Inv, TypeOK
      <4> QED
        BY <4>1, <4>3
    <3>2. CASE Resume(r)
      <4>1. Granted = <<r>>
        BY <1>0, <3>2 DEF Resume, Inv, Permit, Holding, Granted
      <4>2. /\ parked \in Seq(Runs) /\ ready \in Seq(Runs)
            /\ <<r>> \in Seq(Runs) /\ waiting = (<<r>> \o parked) \o ready
        BY <1>0, <4>1, Listed
      <4>3. /\ <<r>> \o parked \in Seq(Runs) /\ Len(<<r>> \o parked) > 0
            /\ (<<r>> \o parked)[1] = r
        BY <4>2, ConcatProperties
      <4>4. waiting[1] = r /\ Len(waiting) > 0
        BY <4>2, <4>3, ConcatProperties
      <4> QED
        BY <1>0, <4>4
    <3> QED
      BY <1>2, <3>1, <3>2
  <2>6. waiting' = Tail(waiting)
    BY <1>0, <2>1, <2>5, DequeueHead, Listed
  <2> QED
    BY <2>2, <2>3, <2>4, <2>5, <2>6 DEF Queue!Start
<1>3. ASSUME NEW r \in Runs, Park(r) PROVE [Queue!Next]_Queue!vars
  <2>1. pc[r] = "created" /\ pc' = [pc EXCEPT ![r] = "parked"]
    BY <1>0, <1>3, HeadTail DEF Park, Inv, TypeOK, Queues
  <2> QED
    BY <1>0, <1>c, <1>3, <2>1 DEF Park, Live
<1>4. ASSUME NEW r \in Runs, ResumeStopped(r) \/ Unpark(r)
      PROVE  [Queue!Next]_Queue!vars
  <2>1. /\ pc[r] \in {"granted", "parked"} /\ stopped[r]
        /\ waiting' = Dequeue(waiting, r)
        /\ state' = [state EXCEPT ![r] = "done"]
    BY <1>4 DEF ResumeStopped, Unpark, Exit
  <2>2. ~In(waiting, r)
    BY <1>0, <2>1, Listed
  <2>3. waiting' = waiting
    BY <1>0, <2>1, <2>2, DequeueAbsent
  <2>4. state[r] = "done" /\ state' = state
    <3>1. state[r] = "done"
      BY <1>0, <2>1 DEF Inv, Entry
    <3> QED
      BY <1>0, <2>1, <3>1
  <2>5. \A q \in Runs : pc'[q] \in Live <=> pc[q] \in Live
    <3>1. CASE ResumeStopped(r)
      BY <1>0, <1>e, <2>1, <3>1 DEF ResumeStopped, Holding, Live
    <3>2. CASE Unpark(r)
      BY <1>0, <3>2 DEF Unpark, AfterExit, Live
    <3> QED
      BY <1>4, <3>1, <3>2
  <2> QED
    BY <1>c, <2>3, <2>4, <2>5
<1>5. ASSUME NEW r \in Runs, StartBody(r) PROVE [Queue!Next]_Queue!vars
  BY <1>0, <1>c, <1>5 DEF StartBody, Live
<1>6. ASSUME NEW r \in Runs, AdmitFails(r) \/ LeaveSlot(r) PROVE Queue!Finish
  <2>1. /\ pc[r] \in Live /\ waiting' = waiting
        /\ state' = [state EXCEPT ![r] = "done"]
        /\ Release([pc EXCEPT ![r] = AfterExit(r)])
    BY <1>6 DEF AdmitFails, LeaveSlot, Exit, Live
  <2>2. Running = r
    BY <1>0, <2>1 DEF RunningIsLive
  <2>3. Running' = Free
    <3>1. \A q \in Runs : pc[q] \in Live => q = r
      BY <1>0, <2>1 DEF RunningIsLive
    <3>2. \A q \in Runs : pc'[q] \notin Live
      BY <1>e, <2>1, <3>1 DEF Holding
    <3> QED
      BY <1>0, <3>2 DEF RunningIsLive
  <2>4. Finished' = Finished \cup {r}
    BY <1>0, <2>1, FinishedIs
  <2> QED
    BY <2>1, <2>2, <2>3, <2>4, FreeAssumption DEF Queue!Finish
<1>7. ASSUME NEW r \in Runs, TeardownEnds(r) PROVE [Queue!Next]_Queue!vars
  BY <1>0, <1>c, <1>7 DEF TeardownEnds, Live
<1>8. ASSUME NEW r \in Runs, Body(r) \/ WatchdogFires(r)
      PROVE  [Queue!Next]_Queue!vars
  BY <1>c, <1>8
  DEF Body, BodyReturns, BodyHonoursToken, BodyHardCancelled, WatchdogFires
<1>9. ASSUME NEW r \in Runs, CancelRunning(r) PROVE [Queue!Next]_Queue!vars
  <2>1. /\ waiting' = waiting /\ pc' = pc /\ slot' = slot
        /\ state[r] = "running" /\ state' = [state EXCEPT ![r] = "cancelling"]
    BY <1>9 DEF CancelRunning
  <2>2. Running' = Running /\ Finished' = Finished
    BY <1>0, <2>1 DEF Running, Finished
  <2> QED
    BY <1>a, <2>1, <2>2
<1>10. ASSUME NEW r \in Runs, CancelQueued(r) PROVE Queue!Withdraw(r)
  <2>1. /\ r \in entries /\ state[r] = "queued"
        /\ waiting' = Dequeue(waiting, r)
        /\ state' = [state EXCEPT ![r] = "done"] /\ slot' = slot
        /\ pc' = [pc EXCEPT ![r] = IF @ = "created" THEN "stillborn" ELSE @]
    BY <1>10 DEF CancelQueued
  <2>2. pc[r] \in {"created", "parked", "granted"} /\ ~stopped[r]
    BY <1>0, <2>1 DEF Inv, Entry, Points, Live
  <2>3. In(waiting, r)
    <3>1. pc[r] = "granted" => In(Granted, r)
      BY <1>0, <2>2 DEF Inv, Permit, Holding, Granted, In
    <3> QED
      BY <1>0, <2>2, <3>1, Listed DEF QueueInv, Suspended
  <2>4. PICK i \in 1..Len(waiting) : waiting[i] = r
    BY <2>3 DEF In
  <2>5. Without(Dequeue(waiting, r), waiting, i)
    BY <1>0, <2>4, DequeueAt, Listed DEF Distinct
  <2> DEFINE before == SubSeq(waiting, 1, i - 1)
             after  == SubSeq(waiting, i + 1, Len(waiting))
  <2>6. waiting' = before \o after
    <3>1. /\ before \in Seq(Runs) /\ Len(before) = i - 1
          /\ \A j \in 1..(i - 1) : before[j] = waiting[j]
      BY <1>0, <2>4
    <3>2. /\ after \in Seq(Runs) /\ Len(after) = Len(waiting) - i
          /\ \A j \in 1..(Len(waiting) - i) : after[j] = waiting[i + j]
      BY <1>0, <2>4
    <3> HIDE DEF before, after
    <3>3. ASSUME NEW j \in 1..(Len(waiting) - i)
          PROVE  Dequeue(waiting, r)[(i - 1) + j] = waiting[i + j]
      <4>1. /\ (i - 1) + j \in 1..(Len(waiting) - 1)
            /\ ~((i - 1) + j < i) /\ ((i - 1) + j) + 1 = i + j
        BY <2>4
      <4> QED
        BY <2>5, <4>1 DEF Without
    <3>4. \A j \in 1..(i - 1) : Dequeue(waiting, r)[j] = waiting[j]
      BY <2>4, <2>5 DEF Without
    <3>5. Joins(Dequeue(waiting, r), before, after)
      BY <2>4, <2>5, <3>1, <3>2, <3>3, <3>4 DEF Joins, Without
    <3> QED
      BY <2>1, <3>1, <3>2, <3>5, ConcatJoins, JoinsUnique
  <2>7. Running' = Running
    BY <1>0, <1>b, <2>1, <2>2 DEF Live
  <2>8. Finished' = Finished \cup {r}
    BY <1>0, <2>1, FinishedIs
  <2>9. i \in DOMAIN waiting
    BY <1>0, <2>4
  <2> HIDE DEF before, after
  <2>10. \E k \in DOMAIN waiting :
            /\ waiting[k] = r
            /\ waiting' = SubSeq(waiting, 1, k - 1)
                             \o SubSeq(waiting, k + 1, Len(waiting))
    BY <2>4, <2>6, <2>9 DEF before, after
  <2> QED
    BY <2>7, <2>8, <2>10 DEF Queue!Withdraw
<1>11. CASE UNCHANGED vars
  BY <1>c, <1>11 DEF vars
<1> QED
  BY <1>1, <1>2, <1>3, <1>4, <1>5, <1>6, <1>7, <1>8, <1>9, <1>10, <1>11
  DEF Next, Step, Wrapper, Admission, Cancel, Queue!Next

\* One run at a time, first come first served, and a run that is stopped in
\* the queue leaves it without moving the others: every step of a wrapper, a
\* cancel or a body is one step of the abstract queue, or none.  (Its progress
\* is in ImplementsQueue, which needs fairness.)
THEOREM QueueIsImplemented == Spec => Queue!Spec
<1>1. Init => Queue!Init
  BY FreeAssumption DEF Init, Queue!Init, Running, Finished
<1>2. QueueInv /\ [Next]_vars => [Queue!Next]_Queue!vars
  BY QueueStep
<1> QED
  BY <1>1, <1>2, QueueInvariance, PTL DEF Spec, Queue!Spec

-----------------------------------------------------------------------------
(* The lanes                                                               *)

\* Lane operations belong to unfinished bodies, the cursor to a teardown.
Owners ==
    \A r \in Runs :
        /\ job[r].op # "idle" => body[r] \in {"running", "hit"}
        /\ cursor[r] # 0 => pc[r] \in {"teardown", "gone"}

\* A start script is waited for, and nobody starts a lane beside another.
Starts ==
    /\ \A s \in scripts : s.cmd = "start" =>
          /\ s.who = "body"
          /\ job[s.run].op = "starting" /\ job[s.run].lane = s.lane
    /\ \A r \in Runs : job[r].op \in {"starting", "polling", "using"} =>
          lane[Other(job[r].lane)] = "down"
    /\ lane["coder"] = "down" \/ lane["work"] = "down"

\* Teardown of r has not passed lane l, or its stop script is on the way.
WillStop(r, l) ==
    /\ pc[r] = "teardown"
    /\ \/ cursor[r] = 0
       \/ l = "work" /\ cursor[r] \in {1, 2}
       \/ /\ cursor[r] = (IF l = "coder" THEN 1 ELSE 3)
          /\ Script(r, "teardown", "stop", l) \in scripts

\* Whoever may have brought a lane up is there to take it down.
Answerable ==
    \A l \in Lanes : lane[l] # "down" =>
        \E r \in Runs : pc[r] = "awaiting" \/ WillStop(r, l)

LanesInv == /\ Inv /\ LanesTypeOK /\ Owners
            /\ ~cut => Starts
            /\ ~cut /\ Torn = Runs => Answerable

-----------------------------------------------------------------------------
(* What the registry does to the lanes *)

\* A body never leaves its state unnoticed, teardown never goes back, and an
\* admitted run ends in its teardown.
LEMMA RegistryKeeps ==
    ASSUME Inv, NEW r \in Runs, Registry(r), NEW q \in Runs
    PROVE  /\ body[q] \in {"running", "hit"} => body'[q] \in {"running", "hit"}
           /\ pc[q] \in {"teardown", "gone"} => pc'[q] = pc[q]
           /\ pc[q] = "awaiting" => pc'[q] \in {"awaiting", AfterExit(q)}
<1> USE DEF Inv, TypeOK, Points, Entry, Live, Queues, Registry
<1> DEFINE Kept == /\ body[q] \in {"running", "hit"}
                         => body'[q] \in {"running", "hit"}
                   /\ pc[q] \in {"teardown", "gone"} => pc'[q] = pc[q]
                   /\ pc[q] = "awaiting"
                         => pc'[q] \in {"awaiting", AfterExit(q)}
<1>1. ASSUME pc[r] \in Holding, Release([pc EXCEPT ![r] = AfterExit(r)]),
             body' = body
      PROVE  Kept
  <2>1. CASE parked = <<>>
    BY <1>1, <2>1 DEF Release, Holding
  <2>2. CASE parked # <<>>
    <3>1. /\ Head(parked) \in Runs /\ pc[Head(parked)] = "parked"
          /\ Head(parked) # r
          /\ pc' = [pc EXCEPT ![r] = AfterExit(r), ![Head(parked)] = "granted"]
      BY <1>1, <2>2, ReleaseHands
    <3> QED
      BY <1>1, <3>1 DEF Holding
  <2> QED
    BY <2>1, <2>2
<1>2. CASE Submit(r)
  BY <1>2 DEF Submit
<1>3. CASE AcquireAtOnce(r) \/ Park(r)
  BY <1>3, HeadTail DEF AcquireAtOnce, Admitted, Park
<1>4. CASE Resume(r) \/ Unpark(r)
  BY <1>4 DEF Resume, Admitted, Unpark
<1>5. CASE ResumeStopped(r) \/ LeaveSlot(r) \/ AdmitFails(r)
  BY <1>1, <1>5 DEF ResumeStopped, LeaveSlot, AdmitFails, Holding
<1>6. CASE StartBody(r)
  BY <1>6 DEF StartBody
<1>7. CASE CancelQueued(r) \/ CancelRunning(r)
  BY <1>7 DEF CancelQueued, CancelRunning
<1>8. CASE WatchdogFires(r)
  BY <1>8 DEF WatchdogFires
<1> QED
  BY <1>2, <1>3, <1>4, <1>5, <1>6, <1>7, <1>8 DEF Wrapper, Admission, Cancel

\* A body that ends was unfinished, and nothing else moves.
LEMMA BodyOver ==
    ASSUME Inv, NEW r \in Runs,
           BodyReturns(r) \/ BodyHonoursToken(r) \/ BodyHardCancelled(r)
    PROVE  /\ pc' = pc /\ body[r] \in {"running", "hit"}
           /\ \A q \in Runs : q # r => body'[q] = body[q]
BY DEF Inv, TypeOK, BodyReturns, BodyHonoursToken, BodyHardCancelled

\* The permit makes the lane operations of bodies exclusive.
LEMMA OneBody ==
    ASSUME Inv, Owners
    PROVE  OneSwapper
BY DEF Inv, TypeOK, Permit, Owners, OneSwapper, Holding, Live

\* There are two lanes.
LEMMA TwoLanes ==
    /\ "coder" \in Lanes /\ "work" \in Lanes
    /\ \A l \in Lanes : /\ l = "coder" \/ l = "work"
                        /\ Other(l) \in Lanes /\ Other(l) # l
BY DEF Lanes, Other

\* What keeps the witnesses and raises no lane keeps everybody answerable.
LEMMA AnswerableFrame ==
    ASSUME Answerable, UNCHANGED <<pc, cursor>>, scripts \subseteq scripts',
           \A l \in Lanes : lane'[l] # "down" => lane[l] # "down"
    PROVE  Answerable'
BY DEF Answerable, WillStop

\* Every step of the lanes is one of the registry or leaves it alone.
LEMMA RegistryStep == [LanesNext]_allVars => [Next]_vars
BY DEF LanesNext, Registry, BodySteps, Teardown, Ensure, Drop, Clear, Swapped,
   Started, Healthy, Used, Dropped, BodyEnds, BodyUnwinds, TeardownProbes,
   TeardownWaits, TeardownDone, ScriptLands, ModelLoaded, allVars, vars, Next,
   Step, Body

\* The lanes, jobs and scripts keep their types.
LEMMA LanesTypeStep == LanesInv /\ [LanesNext]_allVars => LanesTypeOK'
<1> SUFFICES ASSUME LanesInv, [LanesNext]_allVars PROVE LanesTypeOK'
  OBVIOUS
<1> USE TwoLanes DEF LanesInv, LanesTypeOK, Ops, vars
<1>1. ASSUME NEW r \in Runs,
             Registry(r)
      PROVE  LanesTypeOK'
  BY <1>1 DEF Registry, laneVars
<1>2. ASSUME NEW r \in Runs, NEW l \in Lanes,
             Ensure(r, l)
      PROVE  LanesTypeOK'
  BY <1>2 DEF Ensure, Acts, Becomes, Job
<1>3. ASSUME NEW r \in Runs, NEW l \in Lanes,
             Drop(r, l)
      PROVE  LanesTypeOK'
  BY <1>3 DEF Drop, Acts, Becomes, Job, Script
<1>4. ASSUME NEW r \in Runs,
             Clear(r)
      PROVE  LanesTypeOK'
  BY <1>4, TwoLanes DEF Clear, Acts, Becomes, Job, Script
<1>5. ASSUME NEW r \in Runs,
             Swapped(r)
      PROVE  LanesTypeOK'
  BY <1>5, TwoLanes DEF Swapped, Acts, Becomes, Job, Script
<1>6. ASSUME NEW r \in Runs,
             Started(r)
      PROVE  LanesTypeOK'
  BY <1>6 DEF Started, Acts, Becomes, Job
<1>7. ASSUME NEW r \in Runs,
             Healthy(r)
      PROVE  LanesTypeOK'
  BY <1>7 DEF Healthy, Acts, Becomes, Job
<1>8. ASSUME NEW r \in Runs,
             Used(r)
      PROVE  LanesTypeOK'
  BY <1>8 DEF Used, Acts, Becomes, Job
<1>9. ASSUME NEW r \in Runs,
             Dropped(r)
      PROVE  LanesTypeOK'
  BY <1>9 DEF Dropped, Acts, Becomes, Job
<1>10. ASSUME NEW r \in Runs,
              BodyEnds(r)
       PROVE  LanesTypeOK'
  BY <1>10 DEF BodyEnds, Becomes, Job
<1>11. ASSUME NEW r \in Runs,
              BodyUnwinds(r)
       PROVE  LanesTypeOK'
  BY <1>11 DEF BodyUnwinds, Becomes, Job
<1>12. ASSUME NEW r \in Runs,
              TeardownProbes(r)
       PROVE  LanesTypeOK'
  BY <1>12 DEF TeardownProbes, Advance, Stopping, Script, Tearing
<1>13. ASSUME NEW r \in Runs,
              TeardownWaits(r)
       PROVE  LanesTypeOK'
  BY <1>13 DEF TeardownWaits, Advance
<1>14. ASSUME NEW r \in Runs,
              TeardownDone(r)
       PROVE  LanesTypeOK'
  BY <1>14 DEF TeardownDone, laneVars
<1>15. ASSUME NEW s \in scripts,
              ScriptLands(s)
       PROVE  LanesTypeOK'
  BY <1>15 DEF ScriptLands
<1>16. ASSUME NEW l \in Lanes,
              ModelLoaded(l)
       PROVE  LanesTypeOK'
  BY <1>16 DEF ModelLoaded
<1>17. CASE UNCHANGED allVars
  BY <1>17 DEF allVars, vars, laneVars
<1> QED
  BY <1>1, <1>2, <1>3, <1>4, <1>5, <1>6, <1>7, <1>8, <1>9, <1>10, <1>11,
     <1>12, <1>13, <1>14, <1>15, <1>16, <1>17
  DEF LanesNext, BodySteps, Teardown

\* A body that ends drops its operation; cursors move in teardown.
LEMMA OwnersStep == LanesInv /\ [LanesNext]_allVars => Owners'
<1> SUFFICES ASSUME LanesInv, [LanesNext]_allVars PROVE Owners'
  OBVIOUS
<1> USE DEF LanesInv, LanesTypeOK, Owners, Inv, TypeOK, Points, vars
<1>1. ASSUME NEW r \in Runs,
             Registry(r)
      PROVE  Owners'
  BY <1>1, RegistryKeeps DEF Registry, laneVars
<1>2. ASSUME NEW r \in Runs, NEW l \in Lanes,
             Ensure(r, l)
      PROVE  Owners'
  BY <1>2 DEF Ensure, Acts, Becomes, Job
<1>3. ASSUME NEW r \in Runs, NEW l \in Lanes,
             Drop(r, l)
      PROVE  Owners'
  BY <1>3 DEF Drop, Acts, Becomes, Job, Script
<1>4. ASSUME NEW r \in Runs,
             Clear(r)
      PROVE  Owners'
  BY <1>4 DEF Clear, Acts, Becomes, Job, Script
<1>5. ASSUME NEW r \in Runs,
             Swapped(r)
      PROVE  Owners'
  BY <1>5 DEF Swapped, Acts, Becomes, Job, Script
<1>6. ASSUME NEW r \in Runs,
             Started(r)
      PROVE  Owners'
  BY <1>6 DEF Started, Acts, Becomes, Job
<1>7. ASSUME NEW r \in Runs,
             Healthy(r)
      PROVE  Owners'
  BY <1>7 DEF Healthy, Acts, Becomes, Job
<1>8. ASSUME NEW r \in Runs,
             Used(r)
      PROVE  Owners'
  BY <1>8 DEF Used, Acts, Becomes, Job
<1>9. ASSUME NEW r \in Runs,
             Dropped(r)
      PROVE  Owners'
  BY <1>9 DEF Dropped, Acts, Becomes, Job
<1>10. ASSUME NEW r \in Runs,
              BodyEnds(r)
       PROVE  Owners'
  BY <1>10, BodyOver DEF BodyEnds, Becomes, Job
<1>11. ASSUME NEW r \in Runs,
              BodyUnwinds(r)
       PROVE  Owners'
  BY <1>11, BodyOver DEF BodyUnwinds, Becomes, Job
<1>12. ASSUME NEW r \in Runs,
              TeardownProbes(r)
       PROVE  Owners'
  BY <1>12 DEF TeardownProbes, Advance, Stopping, Script, Tearing
<1>13. ASSUME NEW r \in Runs,
              TeardownWaits(r)
       PROVE  Owners'
  BY <1>13 DEF TeardownWaits, Advance
<1>14. ASSUME NEW r \in Runs,
              TeardownDone(r)
       PROVE  Owners'
  BY <1>14 DEF TeardownDone, laneVars, TeardownEnds
<1>15. ASSUME NEW s \in scripts,
              ScriptLands(s)
       PROVE  Owners'
  BY <1>15 DEF ScriptLands
<1>16. ASSUME NEW l \in Lanes,
              ModelLoaded(l)
       PROVE  Owners'
  BY <1>16 DEF ModelLoaded
<1>17. CASE UNCHANGED allVars
  BY <1>17 DEF allVars, vars, laneVars
<1> QED
  BY <1>1, <1>2, <1>3, <1>4, <1>5, <1>6, <1>7, <1>8, <1>9, <1>10, <1>11,
     <1>12, <1>13, <1>14, <1>15, <1>16, <1>17
  DEF LanesNext, BodySteps, Teardown

\* No lane comes up beside another, unless a script was abandoned.
LEMMA StartsStep == LanesInv /\ [LanesNext]_allVars => (~cut' => Starts')
<1> SUFFICES ASSUME LanesInv, [LanesNext]_allVars PROVE (~cut' => Starts')
  OBVIOUS
<1> USE TwoLanes DEF LanesInv, LanesTypeOK, Ops, Starts, vars
<1>1. ASSUME NEW r \in Runs,
             Registry(r)
      PROVE  (~cut' => Starts')
  BY <1>1 DEF Registry, laneVars
<1>2. ASSUME NEW r \in Runs, NEW l \in Lanes,
             Ensure(r, l)
      PROVE  (~cut' => Starts')
  <2>1. /\ job[r].op = "idle" /\ job' = [job EXCEPT ![r] = job'[r]]
        /\ job'[r].lane = l
        /\ job'[r].op = IF lane[l] = "ready" THEN "using" ELSE "clearing"
    BY <1>2 DEF Ensure, Acts, Becomes, Job
  <2>2. lane' = lane /\ scripts' = scripts /\ cut' = cut
    BY <1>2 DEF Ensure
  <2>3. Starts => (lane[l] = "ready" => lane[Other(l)] = "down")
    BY DEF Other
  <2> QED
    BY <2>1, <2>2, <2>3
<1>3. ASSUME NEW r \in Runs, NEW l \in Lanes,
             Drop(r, l)
      PROVE  (~cut' => Starts')
  BY <1>3 DEF Drop, Acts, Becomes, Job, Script
<1>4. ASSUME NEW r \in Runs,
             Clear(r)
      PROVE  (~cut' => Starts')
  BY <1>4 DEF Clear, Acts, Becomes, Job, Script
<1>5. ASSUME NEW r \in Runs,
             Swapped(r)
      PROVE  (~cut' => Starts')
  BY <1>5 DEF Swapped, Acts, Becomes, Job, Script
<1>6. ASSUME NEW r \in Runs,
             Started(r)
      PROVE  (~cut' => Starts')
  <2>1. /\ job[r].op = "starting" /\ job' = [job EXCEPT ![r] = job'[r]]
        /\ job'[r].lane = job[r].lane /\ job'[r].op = "polling"
        /\ Script(r, "body", "start", job[r].lane) \notin scripts
    BY <1>6 DEF Started, Acts, Becomes, Job
  <2>2. lane' = lane /\ scripts' = scripts /\ cut' = cut
    BY <1>6 DEF Started
  <2>3. ASSUME Starts, NEW s \in scripts, s.cmd = "start"
        PROVE  s.run # r
    <3>1. s = Script(s.run, s.who, s.cmd, s.lane)
      BY DEF Script
    <3> QED
      BY <2>1, <2>3, <3>1
  <2> QED
    BY <2>1, <2>2, <2>3
<1>7. ASSUME NEW r \in Runs,
             Healthy(r)
      PROVE  (~cut' => Starts')
  BY <1>7 DEF Healthy, Acts, Becomes, Job
<1>8. ASSUME NEW r \in Runs,
             Used(r)
      PROVE  (~cut' => Starts')
  BY <1>8 DEF Used, Acts, Becomes, Job
<1>9. ASSUME NEW r \in Runs,
             Dropped(r)
      PROVE  (~cut' => Starts')
  BY <1>9 DEF Dropped, Acts, Becomes, Job
<1>10. ASSUME NEW r \in Runs,
              BodyEnds(r)
       PROVE  (~cut' => Starts')
  BY <1>10 DEF BodyEnds, InFlight, Becomes, Job
<1>11. ASSUME NEW r \in Runs,
              BodyUnwinds(r)
       PROVE  (~cut' => Starts')
  BY <1>11 DEF BodyUnwinds, InFlight, Becomes, Job
<1>12. ASSUME NEW r \in Runs,
              TeardownProbes(r)
       PROVE  (~cut' => Starts')
  BY <1>12 DEF TeardownProbes, Advance, Stopping, Script, Tearing
<1>13. ASSUME NEW r \in Runs,
              TeardownWaits(r)
       PROVE  (~cut' => Starts')
  BY <1>13 DEF TeardownWaits, Advance
<1>14. ASSUME NEW r \in Runs,
              TeardownDone(r)
       PROVE  (~cut' => Starts')
  BY <1>14 DEF TeardownDone, laneVars
<1>15. ASSUME NEW s \in scripts,
              ScriptLands(s)
       PROVE  (~cut' => Starts')
  <2>1. /\ job' = job /\ cut' = cut /\ scripts' = scripts \ {s}
        /\ lane' \in [Lanes -> {"down", "loading", "ready"}]
        /\ \A l \in Lanes : l # s.lane => lane'[l] = lane[l]
        /\ s.cmd # "start" => lane'[s.lane] = "down"
        /\ s.lane \in Lanes /\ s.run \in Runs
    BY <1>15 DEF ScriptLands
  <2>2. CASE s.cmd # "start"
    BY <2>1, <2>2
  <2>3. CASE s.cmd = "start"
    <3>1. SUFFICES ASSUME ~cut PROVE Starts'
      BY <2>1
    <3>2. job[s.run].op = "starting" /\ job[s.run].lane = s.lane
      BY <2>3, <3>1
    <3>3. lane[Other(s.lane)] = "down" /\ lane'[Other(s.lane)] = "down"
      BY <2>1, <3>1, <3>2
    <3>4. \A q \in Runs : job[q].op # "idle" => q = s.run
      BY <2>1, <3>2, OneBody DEF OneSwapper
    <3> QED
      BY <2>1, <3>1, <3>2, <3>3, <3>4 DEF Other
  <2> QED
    BY <2>2, <2>3
<1>16. ASSUME NEW l \in Lanes,
              ModelLoaded(l)
       PROVE  (~cut' => Starts')
  BY <1>16 DEF ModelLoaded
<1>17. CASE UNCHANGED allVars
  BY <1>17 DEF allVars, vars, laneVars
<1> QED
  BY <1>1, <1>2, <1>3, <1>4, <1>5, <1>6, <1>7, <1>8, <1>9, <1>10, <1>11,
     <1>12, <1>13, <1>14, <1>15, <1>16, <1>17
  DEF LanesNext, BodySteps, Teardown

\* Whoever drops a lane operation is still there to stop the lane.
LEMMA AnswerableStep ==
    LanesInv /\ [LanesNext]_allVars => (~cut' /\ Torn = Runs => Answerable')
<1> SUFFICES ASSUME LanesInv, [LanesNext]_allVars
             PROVE  ~cut' /\ Torn = Runs => Answerable'
  OBVIOUS
<1> USE TwoLanes DEF LanesInv, LanesTypeOK, Ops, vars
<1>1. ASSUME NEW r \in Runs,
             Registry(r)
      PROVE  (~cut' /\ Torn = Runs => Answerable')
  <2>1. UNCHANGED <<lane, scripts, cursor, cut>>
    BY <1>1 DEF Registry, laneVars
  <2>2. SUFFICES ASSUME ~cut, Torn = Runs, NEW l \in Lanes, lane[l] # "down"
                 PROVE  \E q \in Runs : pc'[q] = "awaiting" \/ WillStop(q, l)'
    BY <2>1 DEF Answerable
  <2>3. PICK q \in Runs : pc[q] = "awaiting" \/ WillStop(q, l)
    BY <2>2 DEF Answerable
  <2>4. CASE pc[q] = "awaiting"
    <3>1. pc'[q] \in {"awaiting", "teardown"}
      BY <1>1, <2>2, <2>4, RegistryKeeps DEF AfterExit
    <3>2. cursor'[q] = 0
      BY <2>1, <2>4 DEF Owners
    <3> QED
      BY <3>1, <3>2 DEF WillStop
  <2>5. CASE WillStop(q, l)
    <3>1. pc'[q] = pc[q]
      BY <1>1, <2>5, RegistryKeeps DEF WillStop
    <3> QED
      BY <2>1, <2>5, <3>1 DEF WillStop
  <2> QED
    BY <2>3, <2>4, <2>5
<1>2. ASSUME NEW r \in Runs, NEW l \in Lanes,
             Ensure(r, l)
      PROVE  (~cut' /\ Torn = Runs => Answerable')
  BY <1>2, AnswerableFrame DEF Ensure
<1>3. ASSUME NEW r \in Runs, NEW l \in Lanes,
             Drop(r, l)
      PROVE  (~cut' /\ Torn = Runs => Answerable')
  BY <1>3, AnswerableFrame DEF Drop
<1>4. ASSUME NEW r \in Runs,
             Clear(r)
      PROVE  (~cut' /\ Torn = Runs => Answerable')
  BY <1>4, AnswerableFrame DEF Clear
<1>5. ASSUME NEW r \in Runs,
             Swapped(r)
      PROVE  (~cut' /\ Torn = Runs => Answerable')
  BY <1>5, AnswerableFrame DEF Swapped
<1>6. ASSUME NEW r \in Runs,
             Started(r)
      PROVE  (~cut' /\ Torn = Runs => Answerable')
  BY <1>6, AnswerableFrame DEF Started
<1>7. ASSUME NEW r \in Runs,
             Healthy(r)
      PROVE  (~cut' /\ Torn = Runs => Answerable')
  BY <1>7, AnswerableFrame DEF Healthy
<1>8. ASSUME NEW r \in Runs,
             Used(r)
      PROVE  (~cut' /\ Torn = Runs => Answerable')
  BY <1>8, AnswerableFrame DEF Used
<1>9. ASSUME NEW r \in Runs,
             Dropped(r)
      PROVE  (~cut' /\ Torn = Runs => Answerable')
  BY <1>9, AnswerableFrame DEF Dropped
<1>10. ASSUME NEW r \in Runs,
              BodyEnds(r)
       PROVE  (~cut' /\ Torn = Runs => Answerable')
  BY <1>10, AnswerableFrame, BodyOver DEF BodyEnds
<1>11. ASSUME NEW r \in Runs,
              BodyUnwinds(r)
       PROVE  (~cut' /\ Torn = Runs => Answerable')
  BY <1>11, AnswerableFrame, BodyOver DEF BodyUnwinds
<1>12. ASSUME NEW r \in Runs,
              TeardownProbes(r)
       PROVE  (~cut' /\ Torn = Runs => Answerable')
  <2>1. UNCHANGED <<pc, lane, cut>> /\ scripts \subseteq scripts'
    BY <1>12 DEF TeardownProbes, Advance
  <2>2. \A q \in Runs : q # r => cursor'[q] = cursor[q]
    BY <1>12 DEF TeardownProbes, Advance
  <2>3. ASSUME NEW l \in Lanes, lane[l] # "down", WillStop(r, l)
        PROVE  WillStop(r, l)'
    <3>1. CASE cursor[r] = 0
      <4>1. Stopping(r) = Script(r, "teardown", "stop", "coder")
        BY <3>1 DEF Stopping, Tearing
      <4>2. lane["coder"] # "down" => cursor'[r] = 1 /\ Stopping(r) \in scripts'
        BY <1>12, <3>1 DEF TeardownProbes, Advance, Tearing
      <4>3. lane["coder"] = "down" => cursor'[r] = 2
        BY <1>12, <3>1 DEF TeardownProbes, Advance, Tearing
      <4> QED
        BY <2>1, <2>3, <4>1, <4>2, <4>3 DEF WillStop
    <3>2. CASE cursor[r] = 2
      BY <1>12, <2>3, <3>2
      DEF TeardownProbes, Advance, Stopping, Tearing, WillStop
    <3> QED
      BY <1>12, <3>1, <3>2 DEF TeardownProbes
  <2>4. ASSUME NEW l \in Lanes, NEW q \in Runs, q # r, WillStop(q, l)
        PROVE  WillStop(q, l)'
    BY <2>1, <2>2, <2>4 DEF WillStop
  <2> QED
    BY <2>1, <2>3, <2>4 DEF Answerable
<1>13. ASSUME NEW r \in Runs,
              TeardownWaits(r)
       PROVE  (~cut' /\ Torn = Runs => Answerable')
  <2>1. UNCHANGED <<pc, lane, scripts, cut>>
    BY <1>13 DEF TeardownWaits
  <2>2. \A q \in Runs : q # r => cursor'[q] = cursor[q]
    BY <1>13 DEF TeardownWaits, Advance
  <2>3. ASSUME NEW l \in Lanes, WillStop(r, l)
        PROVE  WillStop(r, l)'
    <3>1. CASE cursor[r] = 1
      <4>1. Script(r, "teardown", "stop", "coder") \notin scripts
        BY <1>13, <3>1 DEF TeardownWaits, Stopping, Tearing
      <4>2. cursor'[r] = 2
        BY <1>13, <3>1 DEF TeardownWaits, Advance
      <4> QED
        BY <2>1, <2>3, <3>1, <4>1, <4>2 DEF WillStop
    <3>2. CASE cursor[r] = 3
      <4>1. Script(r, "teardown", "stop", "work") \notin scripts
        BY <1>13, <3>2 DEF TeardownWaits, Stopping, Tearing
      <4> QED
        BY <2>3, <3>2, <4>1 DEF WillStop
    <3> QED
      BY <1>13, <3>1, <3>2 DEF TeardownWaits
  <2>4. ASSUME NEW l \in Lanes, NEW q \in Runs, q # r, WillStop(q, l)
        PROVE  WillStop(q, l)'
    BY <2>1, <2>2, <2>4 DEF WillStop
  <2> QED
    BY <2>1, <2>3, <2>4 DEF Answerable
<1>14. ASSUME NEW r \in Runs,
              TeardownDone(r)
       PROVE  (~cut' /\ Torn = Runs => Answerable')
  <2>1. /\ UNCHANGED <<lane, scripts, cursor, cut>> /\ cursor[r] = 4
        /\ pc[r] = "teardown" /\ \A q \in Runs : q # r => pc'[q] = pc[q]
    BY <1>14 DEF TeardownDone, TeardownEnds, laneVars, Inv, TypeOK
  <2>2. \A l \in Lanes : ~WillStop(r, l)
    BY <2>1 DEF WillStop
  <2>3. ASSUME NEW l \in Lanes, NEW q \in Runs, q # r, WillStop(q, l)
        PROVE  WillStop(q, l)'
    BY <2>1, <2>3 DEF WillStop
  <2> QED
    BY <2>1, <2>2, <2>3 DEF Answerable
<1>15. ASSUME NEW s \in scripts,
              ScriptLands(s)
       PROVE  (~cut' /\ Torn = Runs => Answerable')
  <2>1. /\ UNCHANGED <<pc, job, cursor, cut>> /\ scripts' = scripts \ {s}
        /\ s.lane \in Lanes /\ s.run \in Runs
        /\ s.cmd # "start" => lane'[s.lane] = "down"
        /\ \A l \in Lanes : l # s.lane => lane'[l] = lane[l]
    BY <1>15 DEF ScriptLands
  <2>2. ASSUME NEW l \in Lanes, NEW q \in Runs, WillStop(q, l),
               s.cmd = "start" \/ l # s.lane
        PROVE  WillStop(q, l)'
    <3>1. s # Script(q, "teardown", "stop", l)
      BY <2>2 DEF Script
    <3> QED
      BY <2>1, <2>2, <3>1 DEF WillStop
  <2>3. SUFFICES ASSUME ~cut, Torn = Runs, NEW l \in Lanes, lane'[l] # "down"
                 PROVE  \E q \in Runs : pc'[q] = "awaiting" \/ WillStop(q, l)'
    BY <2>1 DEF Answerable
  <2>4. CASE s.cmd = "start" /\ l = s.lane
    <3>1. body[s.run] \in {"running", "hit"}
      BY <2>1, <2>3, <2>4 DEF Starts, Owners
    <3>2. pc[s.run] = "awaiting"
      BY <2>1, <3>1 DEF Inv, Permit
    <3> QED
      BY <2>1, <3>2
  <2>5. CASE l # s.lane
    <3>1. PICK q \in Runs : pc[q] = "awaiting" \/ WillStop(q, l)
      BY <2>1, <2>3, <2>5 DEF Answerable
    <3> QED
      BY <2>1, <2>2, <2>5, <3>1
  <2> QED
    BY <2>1, <2>3, <2>4, <2>5
<1>16. ASSUME NEW l \in Lanes,
              ModelLoaded(l)
       PROVE  (~cut' /\ Torn = Runs => Answerable')
  BY <1>16, AnswerableFrame DEF ModelLoaded
<1>17. CASE UNCHANGED allVars
  BY <1>17, AnswerableFrame DEF allVars, laneVars
<1> QED
  BY <1>1, <1>2, <1>3, <1>4, <1>5, <1>6, <1>7, <1>8, <1>9, <1>10, <1>11,
     <1>12, <1>13, <1>14, <1>15, <1>16, <1>17
  DEF LanesNext, BodySteps, Teardown

-----------------------------------------------------------------------------
(* The theorems *)

\* With every lane down and no body, the invariant holds.
LEMMA LanesInitInv == LanesInit => LanesInv
<1> SUFFICES ASSUME LanesInit PROVE LanesInv
  OBVIOUS
<1>1. Inv
  BY InitInv DEF LanesInit
<1> USE DEF LanesInit, Idle, Job, Lanes, Ops
<1>2. /\ job \in [Runs -> [op : Ops, lane : Lanes]]
      /\ lane \in [Lanes -> {"down", "loading", "ready"}]
  OBVIOUS
<1>3. LanesTypeOK
  <2>1. cursor \in [Runs -> 0..4] /\ scripts = {}
    OBVIOUS
  <2>2. cut \in BOOLEAN
    OBVIOUS
  <2> QED
    BY ONLY <1>2, <2>1, <2>2 DEF LanesTypeOK
<1>4. Owners /\ Starts /\ Answerable
  BY TwoLanes DEF Owners, Starts, Answerable
<1> QED
  BY <1>1, <1>3, <1>4 DEF LanesInv

\* Every reachable state of the lanes satisfies the invariant.
LEMMA LanesInvariance == LanesSpec => []LanesInv
<1>1. LanesInv /\ [LanesNext]_allVars => Inv'
  BY RegistryStep, TypeStep, PermitStep, QueuesStep, EntryStep
  DEF LanesInv, Inv
<1>2. LanesInv /\ [LanesNext]_allVars => LanesInv'
  BY <1>1, LanesTypeStep, OwnersStep, StartsStep, AnswerableStep DEF LanesInv
<1> QED
  BY <1>2, LanesInitInv, PTL DEF LanesSpec

\* Lanes, jobs, scripts and cursors keep their types.
THEOREM LanesTyping == LanesSpec => []LanesTypeOK
BY LanesInvariance, PTL DEF LanesInv

\* Two bodies are never in a lane operation or an agent turn at the same
\* time, hard cancels and teardowns of earlier runs included.
THEOREM SwapsAreExclusive == LanesSpec => []OneSwapper
<1>1. LanesInv => OneSwapper
  BY OneBody DEF LanesInv
<1> QED
  BY <1>1, LanesInvariance, PTL

\* The two models are never in memory together, whatever teardown does beside
\* the next run, as long as no hard cancel abandoned a lane-ctl script.
THEOREM OneModelResident == LanesSpec => []OneLaneUp
<1>1. LanesInv => OneLaneUp
  BY TwoLanes DEF LanesInv, Starts, OneLaneUp
<1> QED
  BY <1>1, LanesInvariance, PTL

\* With a teardown for every run, an idle registry leaves no model loaded and
\* no script about to load one.  An ask has no teardown, so one that ran last
\* may leave its lane up.
THEOREM NothingStaysLoaded ==
    ASSUME Torn = Runs
    PROVE  LanesSpec => []NoLaneLeftLoaded
<1>1. LanesInv => NoLaneLeftLoaded
  <2> SUFFICES ASSUME LanesInv, ~cut,
                      \A r \in Runs : pc[r] \in {"unborn", "stillborn", "gone"}
               PROVE  /\ \A l \in Lanes : lane[l] = "down"
                      /\ \A s \in scripts : s.cmd # "start"
    BY DEF NoLaneLeftLoaded
  <2>1. \A l \in Lanes : lane[l] = "down"
    BY DEF LanesInv, Answerable, WillStop
  <2>2. \A r \in Runs : job[r].op = "idle"
    BY DEF LanesInv, Owners, Inv, Permit
  <2>3. \A s \in scripts : s.run \in Runs
    BY DEF LanesInv, LanesTypeOK
  <2>4. \A s \in scripts : s.cmd # "start"
    BY <2>2, <2>3 DEF LanesInv, Starts
  <2> QED
    BY <2>1, <2>4
<1> QED
  BY <1>1, LanesInvariance, PTL
=============================================================================
