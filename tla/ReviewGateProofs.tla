-------------------------- MODULE ReviewGateProofs --------------------------
(***************************************************************************)
(* The human review for any number of attempts, files and rejection        *)
(* rounds, with hard cancels and crashes.                                  *)
(*                                                                         *)
(* The request and the run meet in two places, the row and the waiter, and *)
(* change them at different awaits.  The invariant says what each may      *)
(* still assume of the other half: a waiter that is there means that       *)
(* nobody closed its review behind the request's back, and an event that   *)
(* is set means that the review is closed as decided.                      *)
(***************************************************************************)
EXTENDS ReviewGate, TLAPS

Ended == node \in {"over", "dead"}

\* Where the run is, it has a key; a hard cancel that cut a store call ended
\* the run.
Position ==
    /\ node = "entering" => key < MaxParks
    /\ node \in Inside \ {"entering"} => key \in Keys
    /\ node = "closing" => why # "none"
    /\ hit = "cut" => Ended
    /\ orphans # {} => node = "over" /\ hit = "cut"

\* Rows are opened in order, and only the current one can be pending.
Rows ==
    /\ \A k \in Keys : k > key => row[k] = "absent"
    /\ node = "opening" => row[key] = "absent"
    /\ \A k \in Keys : row[k] = "pending" =>
          /\ k = key /\ node \in {"parked", "closing", "over", "dead"}
          /\ node = "over" => hit = "cut"
    /\ \A o \in orphans : /\ o[2] = key
                          /\ o[1] = "open" => row[key] = "absent"
                          /\ o[1] = "close" => waiters = {}

Waiting ==
    /\ waiters \subseteq {key}
    /\ node \in {"opening", "parked"} => waiters = {key}
    /\ node \in {"working", "entering", "closing", "reading", "dead"}
          => waiters = {}
    /\ node = "over" /\ hit # "cut" => waiters = {}

\* What a request read is still so while the waiter is there.
Asked ==
    /\ request.at \in {"checked", "recorded", "closed", "stopClosing"} =>
          request.key \in Keys /\ row[request.key] # "absent"
    /\ request.at \in {"checked", "recorded"} =>
          /\ row[request.key] # "decided"
          /\ request.key \in waiters => row[request.key] = "pending"
    /\ request.at = "closed" /\ request.key \in waiters =>
          row[request.key] = "decided"

\* The run goes on as decided only where the row says so.
Decided ==
    /\ \A k \in set : row[k] = "decided"
    /\ node = "closing" /\ why = "decided" => row[key] = "decided"
    /\ node = "reading" => row[key] = "decided"

Inv == /\ TypeOK /\ Position /\ Rows /\ Waiting /\ Asked /\ Decided
       /\ ShippedAsAnswered

-----------------------------------------------------------------------------
(* The helpers *)

\* Every update of a review keeps the rows' type and touches one row; only
\* Opened changes one that was closed.
LEMMA RowUpdates ==
    ASSUME TypeOK, NEW k \in Keys, NEW status \in {"decided", "expired"}
    PROVE  /\ Opened(k) \in [Keys -> {"absent", "pending", "decided", "expired"}]
           /\ Closed(k, status)
                \in [Keys -> {"absent", "pending", "decided", "expired"}]
           /\ \A j \in Keys : Opened(k)[j] = IF j = k THEN "pending" ELSE row[j]
           /\ \A j \in Keys : Closed(k, status)[j] =
                 IF j = k /\ row[j] = "pending" THEN status ELSE row[j]
BY DEF TypeOK, Opened, Closed

\* Recording a verdict changes those of one review.
LEMMA VerdictUpdates ==
    ASSUME TypeOK, NEW k \in Keys, NEW answer \in Answer
    PROVE  /\ Recorded(k, answer) \in [Keys -> Answer]
           /\ \A j \in Keys \ {k} : Recorded(k, answer)[j] = verdicts[j]
<1> DEFINE new == [f \in Files |-> IF answer[f] = "none" THEN verdicts[k][f]
                                   ELSE answer[f]]
<1>1. verdicts[k] \in Answer
  BY DEF TypeOK
<1>2. new \in Answer
  BY <1>1 DEF Answer
<1>3. Recorded(k, answer) = [verdicts EXCEPT ![k] = new]
  BY DEF TypeOK, Recorded
<1> HIDE DEF new
<1> QED
  BY <1>2, <1>3 DEF TypeOK

\* At most one review is pending, so the newest one is that of the key.
LEMMA Newest ==
    ASSUME Inv, Pending # {}
    PROVE  NewestPending = key /\ key \in Keys /\ row[key] = "pending"
<1>1. Pending = {key} /\ key \in Keys
  BY DEF Inv, Rows, Pending
<1>2. key <= key
  BY DEF Inv, TypeOK
<1> QED
  BY <1>1, <1>2 DEF NewestPending, Pending

\* What each handler's step makes of the request.
LEMMA RequestMoves ==
    ASSUME Inv
    PROVE  /\ request.at \in {"checked", "recorded", "closed", "stopClosing"}
                 => request.key \in Keys
           /\ request.answer \in Answer
           /\ CheckPending => request' \in Requests /\ request'.at = "checked"
                              /\ request'.key = key
           /\ StopPressed => request' \in Requests /\ request'.at = "stopping"
           /\ RecordDecisions =>
                 /\ request' \in Requests
                 /\ \/ request'.at = "none"
                    \/ request'.at = "recorded" /\ request'.key = request.key
           /\ CloseAsDecided => request' \in Requests /\ request'.at = "closed"
                                /\ request'.key = request.key
           /\ StopFinds =>
                 /\ request' \in Requests
                 /\ \/ request'.at = "none"
                    \/ /\ request'.at = "stopClosing" /\ request'.key = key
                       /\ key \in Keys /\ row[key] = "pending"
           /\ Notify \/ RequestFails \/ StopCloses \/ CrashAndRestart =>
                 request' \in Requests /\ request'.at = "none"
<1>1. Blank \in Answer
  BY DEF Blank, Answer
<1>2. NoRequest \in Requests /\ NoRequest.at = "none"
  BY <1>1, BoundsAssumption DEF NoRequest, Requests
<1>3. request \in Requests
  BY DEF Inv, TypeOK
<1>4. /\ request.at \in {"checked", "recorded", "closed", "stopClosing"}
            => request.key \in Keys
      /\ request.answer \in Answer
  BY <1>3 DEF Inv, Asked, Requests
<1>5. ASSUME CheckPending
      PROVE  request' \in Requests /\ request'.at = "checked"
             /\ request'.key = key
  <2>1. NewestPending = key /\ key \in 0..MaxParks
    BY <1>5, Newest DEF CheckPending, Inv, TypeOK
  <2>2. PICK answer \in Answer, submit \in BOOLEAN :
           request' = [at |-> "checked", key |-> key,
                       answer |-> answer, submit |-> submit]
    BY <1>5, <2>1 DEF CheckPending
  <2> QED
    BY <2>1, <2>2 DEF Requests
<1>6. ASSUME StopPressed
      PROVE  request' \in Requests /\ request'.at = "stopping"
  BY <1>2, <1>6 DEF StopPressed, Requests, NoRequest
<1>7. ASSUME NEW at \in {"recorded", "closed"}, Serve(at)
      PROVE  request' \in Requests /\ request'.at = at
             /\ request'.key = request.key
  BY <1>3, <1>7 DEF Serve, Requests
<1>8. ASSUME StopFinds
      PROVE  /\ request' \in Requests
             /\ \/ request'.at = "none"
                \/ /\ request'.at = "stopClosing" /\ request'.key = key
                   /\ key \in Keys /\ row[key] = "pending"
  <2>1. CASE Pending = {}
    BY <1>2, <1>8, <2>1 DEF StopFinds
  <2>2. CASE Pending # {}
    <3>1. /\ NewestPending = key /\ key \in Keys /\ row[key] = "pending"
          /\ key \in 0..MaxParks
      BY <2>2, Newest DEF Inv, TypeOK
    <3>2. request' = [NoRequest EXCEPT !.at = "stopClosing", !.key = key]
      BY <1>8, <2>2, <3>1 DEF StopFinds
    <3> QED
      BY <1>1, <3>1, <3>2 DEF Requests, NoRequest
  <2> QED
    BY <2>1, <2>2
<1>9. RecordDecisions => request' = NoRequest \/ Serve("recorded")
  BY DEF RecordDecisions
<1>10. CloseAsDecided => Serve("closed")
  BY DEF CloseAsDecided
<1>11. Notify \/ RequestFails \/ StopCloses \/ CrashAndRestart
          => request' = NoRequest
  BY DEF Notify, RequestFails, StopCloses, CrashAndRestart
<1> QED
  BY <1>2, <1>4, <1>5, <1>6, <1>7, <1>8, <1>9, <1>10, <1>11

\* The verdicts of one review are recorded, typed as before.
LEMMA RecordMoves ==
    ASSUME Inv, RecordDecisions
    PROVE  /\ verdicts' \in [Keys -> Answer]
           /\ \A k \in Keys : k # request.key => verdicts'[k] = verdicts[k]
<1>1. TypeOK /\ request.key \in Keys /\ request.answer \in Answer
  BY RequestMoves DEF Inv, RecordDecisions
<1>2. verdicts' = Recorded(request.key, request.answer)
  BY DEF RecordDecisions
<1> QED
  BY <1>1, <1>2, VerdictUpdates

-----------------------------------------------------------------------------
(* The steps *)

\* Every step keeps the types.
LEMMA TypeStep == Inv /\ [Next]_vars => TypeOK'
<1> SUFFICES ASSUME Inv, [Next]_vars PROVE TypeOK'
  OBVIOUS
<1> USE BoundsAssumption, FaultsAssumption
    DEF Inv, TypeOK, Position, runVars, storeVars, gateVars, Inside, Keys
<1>1. CASE Enter
  BY <1>1 DEF Enter
<1>2. CASE Park
  BY <1>2 DEF Park
<1>3. CASE OpenRow
  BY <1>3, RowUpdates DEF OpenRow
<1>4. CASE Woken
  BY <1>4 DEF Woken, Leave
<1>5. CASE Expires
  BY <1>5 DEF Expires, Leave
<1>6. CASE TokenSeen
  BY <1>6 DEF TokenSeen, Leave
<1>7. CASE CloseRow
  BY <1>7, RowUpdates DEF CloseRow, Ends
<1>8. CASE ReadDecisions
  <2>1. shipped' \subseteq Keys
    BY <1>8 DEF ReadDecisions
  <2>2. /\ node' \in {"working", "over"}
        /\ outcome' \in {"none", "completed", "timeout", "budget", "cancelled"}
    BY <1>8 DEF ReadDecisions, Ends
  <2>3. rounds' \in 0..MaxRounds
    BY <1>8 DEF ReadDecisions
  <2> QED
    BY <1>8, <2>1, <2>2, <2>3 DEF ReadDecisions
<1>9. CASE Finish
  BY <1>9 DEF Finish, Ends
<1>10. CASE CheckPending
  BY <1>10, RequestMoves DEF CheckPending
<1>11. CASE StopPressed
  BY <1>11, RequestMoves DEF StopPressed, NoRequest, Blank
<1>12. CASE RecordDecisions
  <2>1. verdicts' \in [Keys -> Answer]
    BY <1>12, RecordMoves
  <2>2. request' \in Requests
    BY <1>12, RequestMoves
  <2> QED
    BY <1>12, <2>1, <2>2 DEF RecordDecisions
<1>13. CASE CloseAsDecided
  BY <1>13, RequestMoves, RowUpdates DEF CloseAsDecided, Serve
<1>14. CASE Notify
  <2>1. request' \in Requests
    BY <1>14, RequestMoves
  <2>2. set' \subseteq waiters /\ waiters' = waiters
    BY <1>14 DEF Notify
  <2> QED
    BY <1>14, <2>1, <2>2 DEF Notify
<1>15. CASE RequestFails
  BY <1>15, RequestMoves DEF RequestFails
<1>16. CASE StopFinds
  BY <1>16, RequestMoves DEF StopFinds
<1>17. CASE StopCloses
  <2>1. request' \in Requests /\ request.key \in Keys
    BY <1>17, RequestMoves DEF StopCloses
  <2>2. row' \in [Keys -> {"absent", "pending", "decided", "expired"}]
    BY <1>17, <2>1, RowUpdates DEF StopCloses
  <2> QED
    BY <1>17, <2>1, <2>2 DEF StopCloses
<1>18. CASE HardCancel
  <2>1. CASE node = "parked"
    BY <1>18, <2>1 DEF HardCancel, Leave
  <2>2. CASE node # "parked"
    <3>1. CASE node = "opening" \/ node = "closing"
      <4>1. <<"open", key>> \in {"open", "close"} \X Keys
            /\ <<"close", key>> \in {"open", "close"} \X Keys
        BY <3>1
      <4>2. \A o \in orphans' : o \in orphans \/ o = <<"open", key>>
                                \/ o = <<"close", key>>
        BY <1>18, <3>1 DEF HardCancel
      <4>3. orphans' \subseteq ({"open", "close"} \X Keys)
        BY <4>1, <4>2
      <4> QED
        BY <1>18, <2>2, <4>3 DEF HardCancel, Ends, Storing
    <3>2. CASE node \notin {"opening", "closing"}
      BY <1>18, <2>2, <3>2 DEF HardCancel, Ends, Storing
    <3> QED
      BY <3>1, <3>2
  <2> QED
    BY <2>1, <2>2
<1>19. CASE CrashAndRestart
  BY <1>19, RequestMoves DEF CrashAndRestart
<1>20. ASSUME NEW o \in orphans,
              OrphanLands(o)
       PROVE  TypeOK'
  BY <1>20, RowUpdates DEF OrphanLands
<1>21. CASE UNCHANGED vars
  BY <1>21 DEF vars
<1> QED
  BY <1>1, <1>2, <1>3, <1>4, <1>5, <1>6, <1>7, <1>8, <1>9, <1>10, <1>11,
     <1>12, <1>13, <1>14, <1>15, <1>16, <1>17, <1>18, <1>19, <1>20, <1>21
  DEF Next, Run, Parked, Request, System

\* The run has a key where it needs one.
LEMMA PositionStep == Inv /\ [Next]_vars => Position'
<1> SUFFICES ASSUME Inv, [Next]_vars PROVE Position'
  OBVIOUS
<1> USE BoundsAssumption, FaultsAssumption
    DEF Inv, TypeOK, Position, Ended, runVars, storeVars, gateVars, Inside,
        Keys
<1>1. CASE Enter
  BY <1>1 DEF Enter
<1>2. CASE Park
  BY <1>2 DEF Park
<1>3. CASE OpenRow
  BY <1>3, RowUpdates DEF OpenRow
<1>4. CASE Woken
  BY <1>4 DEF Woken, Leave
<1>5. CASE Expires
  BY <1>5 DEF Expires, Leave
<1>6. CASE TokenSeen
  BY <1>6 DEF TokenSeen, Leave
<1>7. CASE CloseRow
  BY <1>7, RowUpdates DEF CloseRow, Ends
<1>8. CASE ReadDecisions
  BY <1>8 DEF ReadDecisions, Ends
<1>9. CASE Finish
  BY <1>9 DEF Finish, Ends
<1>10. CASE CheckPending
  BY <1>10 DEF CheckPending
<1>11. CASE StopPressed
  BY <1>11 DEF StopPressed, NoRequest, Blank
<1>12. CASE RecordDecisions
  BY <1>12 DEF RecordDecisions, Serve
<1>13. CASE CloseAsDecided
  BY <1>13, RowUpdates DEF CloseAsDecided, Serve
<1>14. CASE Notify
  BY <1>14 DEF Notify
<1>15. CASE RequestFails
  BY <1>15 DEF RequestFails
<1>16. CASE StopFinds
  BY <1>16 DEF StopFinds
<1>17. CASE StopCloses
  BY <1>17, RowUpdates DEF StopCloses
<1>18. CASE HardCancel
  BY <1>18 DEF HardCancel, Leave, Ends, Storing
<1>19. CASE CrashAndRestart
  BY <1>19 DEF CrashAndRestart
<1>20. ASSUME NEW o \in orphans,
              OrphanLands(o)
       PROVE  Position'
  BY <1>20, RowUpdates DEF OrphanLands
<1>21. CASE UNCHANGED vars
  BY <1>21 DEF vars
<1> QED
  BY <1>1, <1>2, <1>3, <1>4, <1>5, <1>6, <1>7, <1>8, <1>9, <1>10, <1>11,
     <1>12, <1>13, <1>14, <1>15, <1>16, <1>17, <1>18, <1>19, <1>20, <1>21
  DEF Next, Run, Parked, Request, System

\* Only the current review is pending.
LEMMA RowsStep == Inv /\ [Next]_vars => Rows'
<1> SUFFICES ASSUME Inv, [Next]_vars PROVE Rows'
  OBVIOUS
<1> USE BoundsAssumption, FaultsAssumption
    DEF Inv, TypeOK, Position, Rows, Waiting, Ended, runVars, storeVars,
        gateVars, Inside, Keys
<1>1. CASE Enter
  BY <1>1 DEF Enter
<1>2. CASE Park
  BY <1>2 DEF Park
<1>3. CASE OpenRow
  BY <1>3, RowUpdates DEF OpenRow
<1>4. CASE Woken
  BY <1>4 DEF Woken, Leave
<1>5. CASE Expires
  BY <1>5 DEF Expires, Leave
<1>6. CASE TokenSeen
  BY <1>6 DEF TokenSeen, Leave
<1>7. CASE CloseRow
  <2>1. key \in Keys
    BY <1>7 DEF CloseRow, Ends
  <2>2. \A j \in Keys : row'[j] =
           IF j = key /\ row[j] = "pending" THEN "expired" ELSE row[j]
    BY <1>7, <2>1, RowUpdates DEF CloseRow, Ends
  <2> QED
    BY <1>7, <2>1, <2>2 DEF CloseRow, Ends
<1>8. CASE ReadDecisions
  BY <1>8 DEF ReadDecisions, Ends
<1>9. CASE Finish
  BY <1>9 DEF Finish, Ends
<1>10. CASE CheckPending
  BY <1>10 DEF CheckPending
<1>11. CASE StopPressed
  BY <1>11 DEF StopPressed, NoRequest, Blank
<1>12. CASE RecordDecisions
  BY <1>12 DEF RecordDecisions, Serve
<1>13. CASE CloseAsDecided
  <2>1. request.key \in Keys
    BY <1>13, RequestMoves DEF CloseAsDecided
  <2>2. \A j \in Keys : row'[j] =
           IF j = request.key /\ row[j] = "pending" THEN "decided" ELSE row[j]
    BY <1>13, <2>1, RowUpdates DEF CloseAsDecided
  <2> QED
    BY <1>13, <2>1, <2>2 DEF CloseAsDecided
<1>14. CASE Notify
  BY <1>14 DEF Notify
<1>15. CASE RequestFails
  BY <1>15 DEF RequestFails
<1>16. CASE StopFinds
  BY <1>16 DEF StopFinds
<1>17. CASE StopCloses
  <2>1. request.key \in Keys
    BY <1>17, RequestMoves DEF StopCloses
  <2>2. \A j \in Keys : row'[j] =
           IF j = request.key /\ row[j] = "pending" THEN "expired" ELSE row[j]
    BY <1>17, <2>1, RowUpdates DEF StopCloses
  <2> QED
    BY <1>17, <2>1, <2>2 DEF StopCloses
<1>18. CASE HardCancel
  <2>1. CASE node = "parked"
    BY <1>18, <2>1 DEF HardCancel, Leave
  <2>2. CASE node = "opening" \/ node = "closing"
    <3>1. \A o \in orphans' \ orphans : o = <<IF node = "opening" THEN "open"
                                          ELSE "close", key>>
      BY <1>18, <2>2 DEF HardCancel
    <3>2. /\ node' = "over" /\ hit' = "cut"
          /\ UNCHANGED <<key, row, verdicts, waiters, set, why, rounds, shipped,
                         token, request>>
      BY <1>18, <2>2 DEF HardCancel, Ends, Storing
    <3> QED
      BY <2>2, <3>1, <3>2
  <2>3. CASE node \notin {"parked", "opening", "closing"}
    BY <1>18, <2>3 DEF HardCancel, Ends, Storing
  <2> QED
    BY <2>1, <2>2, <2>3
<1>19. CASE CrashAndRestart
  BY <1>19 DEF CrashAndRestart
<1>20. ASSUME NEW o \in orphans,
              OrphanLands(o)
       PROVE  Rows'
  BY <1>20, RowUpdates DEF OrphanLands
<1>21. CASE UNCHANGED vars
  BY <1>21 DEF vars
<1> QED
  BY <1>1, <1>2, <1>3, <1>4, <1>5, <1>6, <1>7, <1>8, <1>9, <1>10, <1>11,
     <1>12, <1>13, <1>14, <1>15, <1>16, <1>17, <1>18, <1>19, <1>20, <1>21
  DEF Next, Run, Parked, Request, System

\* The gate keeps a waiter for the parked run alone.
LEMMA WaitingStep == Inv /\ [Next]_vars => Waiting'
<1> SUFFICES ASSUME Inv, [Next]_vars PROVE Waiting'
  OBVIOUS
<1> USE BoundsAssumption, FaultsAssumption
    DEF Inv, TypeOK, Position, Waiting, Ended, runVars, storeVars, gateVars,
        Inside, Keys
<1>1. CASE Enter
  BY <1>1 DEF Enter
<1>2. CASE Park
  BY <1>2 DEF Park
<1>3. CASE OpenRow
  BY <1>3, RowUpdates DEF OpenRow
<1>4. CASE Woken
  BY <1>4 DEF Woken, Leave
<1>5. CASE Expires
  BY <1>5 DEF Expires, Leave
<1>6. CASE TokenSeen
  BY <1>6 DEF TokenSeen, Leave
<1>7. CASE CloseRow
  BY <1>7, RowUpdates DEF CloseRow, Ends
<1>8. CASE ReadDecisions
  BY <1>8 DEF ReadDecisions, Ends
<1>9. CASE Finish
  BY <1>9 DEF Finish, Ends
<1>10. CASE CheckPending
  BY <1>10 DEF CheckPending
<1>11. CASE StopPressed
  BY <1>11 DEF StopPressed, NoRequest, Blank
<1>12. CASE RecordDecisions
  BY <1>12 DEF RecordDecisions, Serve
<1>13. CASE CloseAsDecided
  BY <1>13, RowUpdates DEF CloseAsDecided, Serve
<1>14. CASE Notify
  BY <1>14 DEF Notify
<1>15. CASE RequestFails
  BY <1>15 DEF RequestFails
<1>16. CASE StopFinds
  BY <1>16 DEF StopFinds
<1>17. CASE StopCloses
  BY <1>17, RowUpdates DEF StopCloses
<1>18. CASE HardCancel
  BY <1>18 DEF HardCancel, Leave, Ends, Storing
<1>19. CASE CrashAndRestart
  BY <1>19 DEF CrashAndRestart
<1>20. ASSUME NEW o \in orphans,
              OrphanLands(o)
       PROVE  Waiting'
  BY <1>20, RowUpdates DEF OrphanLands
<1>21. CASE UNCHANGED vars
  BY <1>21 DEF vars
<1> QED
  BY <1>1, <1>2, <1>3, <1>4, <1>5, <1>6, <1>7, <1>8, <1>9, <1>10, <1>11,
     <1>12, <1>13, <1>14, <1>15, <1>16, <1>17, <1>18, <1>19, <1>20, <1>21
  DEF Next, Run, Parked, Request, System

\* A request's review stays open while it is waited for.
LEMMA AskedStep == Inv /\ [Next]_vars => Asked'
<1> SUFFICES ASSUME Inv, [Next]_vars PROVE Asked'
  OBVIOUS
<1> USE BoundsAssumption, FaultsAssumption
    DEF Inv, TypeOK, Position, Rows, Waiting, Asked, Ended, runVars,
        storeVars, gateVars, Inside, Keys
<1>1. CASE Enter
  BY <1>1 DEF Enter
<1>2. CASE Park
  BY <1>2 DEF Park
<1>3. CASE OpenRow
  BY <1>3, RowUpdates DEF OpenRow
<1>4. CASE Woken
  BY <1>4 DEF Woken, Leave
<1>5. CASE Expires
  BY <1>5 DEF Expires, Leave
<1>6. CASE TokenSeen
  BY <1>6 DEF TokenSeen, Leave
<1>7. CASE CloseRow
  BY <1>7, RowUpdates DEF CloseRow, Ends
<1>8. CASE ReadDecisions
  BY <1>8 DEF ReadDecisions, Ends
<1>9. CASE Finish
  BY <1>9 DEF Finish, Ends
<1>10. CASE CheckPending
  <2>1. /\ request'.at = "checked" /\ request'.key = key
        /\ key \in Keys /\ row[key] = "pending"
    BY <1>10, RequestMoves, Newest DEF CheckPending
  <2> QED
    BY <1>10, <2>1 DEF CheckPending
<1>11. CASE StopPressed
  BY <1>11, RequestMoves DEF StopPressed, NoRequest, Blank
<1>12. CASE RecordDecisions
  BY <1>12, RequestMoves, RecordMoves DEF RecordDecisions, Serve
<1>13. CASE CloseAsDecided
  BY <1>13, RequestMoves, RowUpdates DEF CloseAsDecided, Serve
<1>14. CASE Notify
  BY <1>14, RequestMoves DEF Notify
<1>15. CASE RequestFails
  BY <1>15, RequestMoves DEF RequestFails
<1>16. CASE StopFinds
  BY <1>16, RequestMoves DEF StopFinds
<1>17. CASE StopCloses
  BY <1>17, RequestMoves, RowUpdates DEF StopCloses
<1>18. CASE HardCancel
  BY <1>18 DEF HardCancel, Leave, Ends, Storing
<1>19. CASE CrashAndRestart
  BY <1>19, RequestMoves DEF CrashAndRestart
<1>20. ASSUME NEW o \in orphans,
              OrphanLands(o)
       PROVE  Asked'
  BY <1>20, RowUpdates DEF OrphanLands
<1>21. CASE UNCHANGED vars
  BY <1>21 DEF vars
<1> QED
  BY <1>1, <1>2, <1>3, <1>4, <1>5, <1>6, <1>7, <1>8, <1>9, <1>10, <1>11,
     <1>12, <1>13, <1>14, <1>15, <1>16, <1>17, <1>18, <1>19, <1>20, <1>21
  DEF Next, Run, Parked, Request, System

\* An event is set for decided reviews only.
LEMMA DecidedStep == Inv /\ [Next]_vars => Decided'
<1> SUFFICES ASSUME Inv, [Next]_vars PROVE Decided'
  OBVIOUS
<1> USE BoundsAssumption, FaultsAssumption
    DEF Inv, TypeOK, Position, Rows, Waiting, Asked, Decided, Ended, runVars,
        storeVars, gateVars, Inside, Keys
<1>1. CASE Enter
  BY <1>1 DEF Enter
<1>2. CASE Park
  BY <1>2 DEF Park
<1>3. CASE OpenRow
  BY <1>3, RowUpdates DEF OpenRow
<1>4. CASE Woken
  BY <1>4 DEF Woken, Leave
<1>5. CASE Expires
  BY <1>5 DEF Expires, Leave
<1>6. CASE TokenSeen
  BY <1>6 DEF TokenSeen, Leave
<1>7. CASE CloseRow
  BY <1>7, RowUpdates DEF CloseRow, Ends
<1>8. CASE ReadDecisions
  BY <1>8 DEF ReadDecisions, Ends
<1>9. CASE Finish
  BY <1>9 DEF Finish, Ends
<1>10. CASE CheckPending
  BY <1>10 DEF CheckPending
<1>11. CASE StopPressed
  BY <1>11 DEF StopPressed, NoRequest, Blank
<1>12. CASE RecordDecisions
  BY <1>12 DEF RecordDecisions, Serve
<1>13. CASE CloseAsDecided
  BY <1>13, RowUpdates DEF CloseAsDecided, Serve
<1>14. CASE Notify
  BY <1>14 DEF Notify
<1>15. CASE RequestFails
  BY <1>15 DEF RequestFails
<1>16. CASE StopFinds
  BY <1>16 DEF StopFinds
<1>17. CASE StopCloses
  BY <1>17, RowUpdates DEF StopCloses
<1>18. CASE HardCancel
  BY <1>18 DEF HardCancel, Leave, Ends, Storing
<1>19. CASE CrashAndRestart
  BY <1>19 DEF CrashAndRestart
<1>20. ASSUME NEW o \in orphans,
              OrphanLands(o)
       PROVE  Decided'
  BY <1>20, RowUpdates DEF OrphanLands
<1>21. CASE UNCHANGED vars
  BY <1>21 DEF vars
<1> QED
  BY <1>1, <1>2, <1>3, <1>4, <1>5, <1>6, <1>7, <1>8, <1>9, <1>10, <1>11,
     <1>12, <1>13, <1>14, <1>15, <1>16, <1>17, <1>18, <1>19, <1>20, <1>21
  DEF Next, Run, Parked, Request, System

\* No verdict reaches a review that shipped.
LEMMA ShippedStep == Inv /\ [Next]_vars => ShippedAsAnswered'
<1> SUFFICES ASSUME Inv, [Next]_vars PROVE ShippedAsAnswered'
  OBVIOUS
<1> USE BoundsAssumption, FaultsAssumption
    DEF Inv, TypeOK, Position, Rows, Asked, Decided, ShippedAsAnswered,
        Rejected, runVars, storeVars, gateVars, Inside, Keys
<1>1. CASE Enter
  BY <1>1 DEF Enter
<1>2. CASE Park
  BY <1>2 DEF Park
<1>3. CASE OpenRow
  BY <1>3, RowUpdates DEF OpenRow
<1>4. CASE Woken
  BY <1>4 DEF Woken, Leave
<1>5. CASE Expires
  BY <1>5 DEF Expires, Leave
<1>6. CASE TokenSeen
  BY <1>6 DEF TokenSeen, Leave
<1>7. CASE CloseRow
  BY <1>7, RowUpdates DEF CloseRow, Ends
<1>8. CASE ReadDecisions
  <2>1. row' = row /\ verdicts' = verdicts
    BY <1>8 DEF ReadDecisions
  <2>2. \A k \in shipped' \ shipped : row[k] = "decided" /\ Rejected(k) = {}
    BY <1>8 DEF ReadDecisions
  <2>3. \A k \in shipped' : row[k] = "decided" /\ Rejected(k) = {}
    BY <2>2
  <2> QED
    BY <2>1, <2>3
<1>9. CASE Finish
  BY <1>9 DEF Finish, Ends
<1>10. CASE CheckPending
  BY <1>10 DEF CheckPending
<1>11. CASE StopPressed
  BY <1>11 DEF StopPressed, NoRequest, Blank
<1>12. CASE RecordDecisions
  <2>1. request.key \in Keys \ shipped
    BY <1>12, RequestMoves DEF RecordDecisions
  <2>2. \A k \in shipped : verdicts'[k] = verdicts[k]
    BY <1>12, <2>1, RecordMoves
  <2>3. shipped' = shipped /\ row' = row
    BY <1>12 DEF RecordDecisions
  <2>4. \A k \in shipped : row[k] = "decided" /\ Rejected(k) = {}
    OBVIOUS
  <2>5. \A k \in shipped : Rejected(k)' = Rejected(k)
    BY <2>2
  <2> QED
    BY <2>3, <2>4, <2>5
<1>13. CASE CloseAsDecided
  BY <1>13, RowUpdates DEF CloseAsDecided, Serve
<1>14. CASE Notify
  BY <1>14 DEF Notify
<1>15. CASE RequestFails
  BY <1>15 DEF RequestFails
<1>16. CASE StopFinds
  BY <1>16 DEF StopFinds
<1>17. CASE StopCloses
  BY <1>17, RowUpdates DEF StopCloses
<1>18. CASE HardCancel
  <2>1. shipped' = shipped /\ row' = row /\ verdicts' = verdicts
    BY <1>18 DEF HardCancel, Leave, Ends
  <2> QED
    BY <2>1
<1>19. CASE CrashAndRestart
  BY <1>19 DEF CrashAndRestart
<1>20. ASSUME NEW o \in orphans,
              OrphanLands(o)
       PROVE  ShippedAsAnswered'
  BY <1>20, RowUpdates DEF OrphanLands
<1>21. CASE UNCHANGED vars
  BY <1>21 DEF vars
<1> QED
  BY <1>1, <1>2, <1>3, <1>4, <1>5, <1>6, <1>7, <1>8, <1>9, <1>10, <1>11,
     <1>12, <1>13, <1>14, <1>15, <1>16, <1>17, <1>18, <1>19, <1>20, <1>21
  DEF Next, Run, Parked, Request, System

OutcomeKept ==
    \A k \in Keys : row[k] \in {"decided", "expired"} => row'[k] = row[k]

\* No step changes a review that was closed.
LEMMA OutcomeStep == Inv /\ [Next]_vars => OutcomeKept
<1> SUFFICES ASSUME Inv, [Next]_vars PROVE OutcomeKept
  OBVIOUS
<1> USE BoundsAssumption, FaultsAssumption
    DEF Inv, TypeOK, Position, Rows, Asked, OutcomeKept, runVars, storeVars,
        gateVars, Inside, Keys
<1>1. CASE Enter
  BY <1>1 DEF Enter
<1>2. CASE Park
  BY <1>2 DEF Park
<1>3. CASE OpenRow
  BY <1>3, RowUpdates DEF OpenRow
<1>4. CASE Woken
  BY <1>4 DEF Woken, Leave
<1>5. CASE Expires
  BY <1>5 DEF Expires, Leave
<1>6. CASE TokenSeen
  BY <1>6 DEF TokenSeen, Leave
<1>7. CASE CloseRow
  BY <1>7, RowUpdates DEF CloseRow, Ends
<1>8. CASE ReadDecisions
  BY <1>8 DEF ReadDecisions, Ends
<1>9. CASE Finish
  BY <1>9 DEF Finish, Ends
<1>10. CASE CheckPending
  BY <1>10 DEF CheckPending
<1>11. CASE StopPressed
  BY <1>11 DEF StopPressed, NoRequest, Blank
<1>12. CASE RecordDecisions
  BY <1>12 DEF RecordDecisions, Serve
<1>13. CASE CloseAsDecided
  BY <1>13, RowUpdates DEF CloseAsDecided, Serve
<1>14. CASE Notify
  BY <1>14 DEF Notify
<1>15. CASE RequestFails
  BY <1>15 DEF RequestFails
<1>16. CASE StopFinds
  BY <1>16 DEF StopFinds
<1>17. CASE StopCloses
  BY <1>17, RowUpdates DEF StopCloses
<1>18. CASE HardCancel
  BY <1>18 DEF HardCancel, Leave, Ends, Storing
<1>19. CASE CrashAndRestart
  BY <1>19 DEF CrashAndRestart
<1>20. ASSUME NEW o \in orphans,
              OrphanLands(o)
       PROVE  OutcomeKept
  BY <1>20, RowUpdates DEF OrphanLands
<1>21. CASE UNCHANGED vars
  BY <1>21 DEF vars
<1> QED
  BY <1>1, <1>2, <1>3, <1>4, <1>5, <1>6, <1>7, <1>8, <1>9, <1>10, <1>11,
     <1>12, <1>13, <1>14, <1>15, <1>16, <1>17, <1>18, <1>19, <1>20, <1>21
  DEF Next, Run, Parked, Request, System

-----------------------------------------------------------------------------
(* The theorems *)

\* The initial states satisfy the invariant.
LEMMA InitInv == Init => Inv
<1> SUFFICES ASSUME Init PROVE Inv
  OBVIOUS
<1> USE BoundsAssumption DEF Init, Keys
<1>1. Blank \in Answer
  BY DEF Blank, Answer
<1>2. request \in Requests
  BY <1>1 DEF NoRequest, Requests
<1>3. /\ verdicts \in [Keys -> Answer]
      /\ row \in [Keys -> {"absent", "pending", "decided", "expired"}]
  BY <1>1
<1>4. rounds \in 0..MaxRounds /\ key \in 0..MaxParks
  OBVIOUS
<1>5. TypeOK
  BY <1>2, <1>3, <1>4 DEF TypeOK
<1> QED
  BY <1>5 DEF Inv, Position, Rows, Waiting, Asked, Decided, ShippedAsAnswered,
     NoRequest, Inside

\* Every reachable state satisfies the inductive invariant.
LEMMA Invariance == Spec => []Inv
<1>1. Inv /\ [Next]_vars => Inv'
  BY TypeStep, PositionStep, RowsStep, WaitingStep, AskedStep, DecidedStep,
     ShippedStep DEF Inv
<1> QED
  BY <1>1, InitInv, PTL DEF Spec

\* Rows, verdicts, waiters and the request keep their types.
THEOREM Typing == Spec => []TypeOK
BY Invariance, PTL DEF Inv

\* A review the console reports as open has a run waiting on it, unless the
\* process died or a hard cancel cut a store call short.
THEOREM OpenReviewsAreAwaited == Spec => []OpenMeansAwaited
<1>1. Inv => OpenMeansAwaited
  BY DEF Inv, TypeOK, Rows, Waiting, OpenMeansAwaited, Inside
<1> QED
  BY <1>1, Invariance, PTL

\* What shipped was submitted by the user, and no verdict that arrives later
\* makes the record say otherwise.
THEOREM ShipsAsAnswered == Spec => []ShippedAsAnswered
BY Invariance, PTL DEF Inv

\* Timeout, Stop, submit and late store calls all close the same row; the
\* first of them stands.
THEOREM FirstOutcomeStands == Spec => OutcomeStands
<1>1. Inv /\ [Next]_vars =>
        [\A k \in Keys :
            row[k] \in {"decided", "expired"} => row'[k] = row[k]]_vars
  BY OutcomeStep DEF OutcomeKept
<1> QED
  BY <1>1, Invariance, PTL DEF Spec, OutcomeStands
=============================================================================
