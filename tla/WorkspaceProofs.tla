---------------------------- MODULE WorkspaceProofs ----------------------------
(***************************************************************************)
(* What a session's checkout leaves behind: the row and the files of each  *)
(* console session (SessionFiles), for any set of sessions, any cap and    *)
(* any number of restarts, and the vector index of a repository            *)
(* (VectorIndex), for any files, sessions, collections and faults.  The    *)
(* two share no variable.  In both a record in sqlite is to agree with     *)
(* what lies elsewhere, on the disk or in Qdrant, and both are invariants  *)
(* that say where it need not.                                             *)
(*                                                                         *)
(* Checkouts: a session's row, the copy its lock's holder will save, and   *)
(* the disk are three records of one thing.  The lock keeps copy and row   *)
(* together; a struck body's save, which has lost the lock, agrees with    *)
(* the row it was made from; and the sweeper, which takes no lock, is      *)
(* harmless because the sessions it lists are over for good and their      *)
(* preparation is past the clone.                                          *)
(*                                                                         *)
(* Index: a pass that meets no other writer finds the collection as the    *)
(* manifest it read says; where one failed, the manifest names an older    *)
(* version of every file that is missing, so the next pass embeds it.      *)
(***************************************************************************)
EXTENDS SessionFiles, VectorIndex, SequenceTheorems, WellFoundedInduction, TLAPS

(* The rows, the copies and the disk. *)

Listed == {t.s : t \in sweep.todo}
Half == {t.s : t \in sweep.half}

Holds(s) == lock[s] \in Holding

Over(c) == c # Absent => c.life = "over"

\* The clone runs, or what became of it is not in the row yet.
Early(s) == \/ prep[s] = <<"work", "clone">>
            \/ prep[s][1] \in {"tell", "save"}
                 /\ prep[s][2] \in {"cloned", "cloneFailed"}

\* A copy is held by whoever is inside the lock to save it; the sweeper is
\* inside its caller's, and half through one session at a time.
Locked ==
    /\ \A s \in Sessions : /\ copy[s] # Absent <=> Holds(s)
                           /\ lock[s] = "prep" <=> prep[s][1] = "save"
    /\ sweep.by # Absent => lock[sweep.by] = "get"
    /\ sweep.at = "off" => sweep.todo = {}
    /\ \A t, u \in sweep.half : t = u

\* What has a row, or had one, was saved; before that only its creator is in.
Born ==
    /\ gone \cup raced \cup undone \cup Listed \cup expired \subseteq born
    /\ \A o \in orphans : o.s \in born
    /\ \A s \in Sessions \ born :
          /\ ~Exists(s) /\ lock[s] \in {"free", "web"}
          /\ copy[s] # Absent => copy[s].ws \in {"cloning", "pending"}

\* The sweeper lists sessions that are over, and over is for good, unless a
\* late save undid it.
OverForGood ==
    /\ \A t \in sweep.todo : t.row.life = "over"
    /\ \A s \in expired : Exists(s) /\ row[s].life = "over"
    /\ \A s \in Sessions \ undone :
          s \in raced \cup Listed \/ (Exists(s) /\ row[s].life = "over")
             => Over(row[s]) /\ Over(copy[s])

\* Until the outcome of the clone is saved the row says cloning, no sweep has
\* seen the session, and its directory is there.
Clones ==
    \A s \in Sessions \ undone : Early(s) =>
        /\ s \notin raced \cup Listed \cup expired
        /\ Exists(s) => row[s].ws = "cloning"
        /\ lock[s] \in {"web"} \cup Body => copy[s].ws = "cloning"
        /\ s \notin torn /\ lock[s] # "purge" /\ (Exists(s) \/ s \notin born)
              => s \in disk

\* Half a deletion: the files are gone.
FilesFirst ==
    \A s \in Sessions \ torn :
        lock[s] = "purge" \/ s \in Half => s \notin disk

\* What the lock's holder will save agrees with the disk and with the row.
CopyAgrees ==
    \A s \in Sessions \ Overwritten : Holds(s) =>
        /\ ~Exists(s) => s \notin born
        /\ Exists(s) => copy[s].talk >= row[s].talk
        /\ lock[s] \in Body => copy[s].ws = row[s].ws
        /\ s \notin torn \cup Half =>
              /\ copy[s].ws = "ready" => s \in disk
              /\ copy[s].ws = "evicted" => s \notin disk

\* What a struck body's thread will save agrees with the row it was made from.
Orphaned ==
    \A o \in orphans :
        /\ o.s \notin undone /\ Over(o.over) => Over(o.save)
        /\ o.s \notin Overwritten =>
              /\ o.over # Absent
              /\ o.save.ws = o.over.ws /\ o.save.talk >= o.over.talk

GoneForGood == \A s \in gone \ Overwritten : ~Exists(s)

Inv == /\ TypeOK /\ Locked /\ Born /\ OverForGood /\ Clones /\ FilesFirst
       /\ CopyAgrees /\ Orphaned /\ GoneForGood /\ RowsMatchDisk

-----------------------------------------------------------------------------
(* What is written of a row *)

\* What a handler or a body makes of a row: still a row, about the same
\* checkout, over if it was, and the transcript no shorter.
LEMMA RowChanges ==
    ASSUME NEW c \in Row, NEW d \in {Told(c), Message(c), Start(c), Ended(c)}
    PROVE  /\ d \in Row /\ d.ws = c.ws /\ d.talk >= c.talk
           /\ c.life = "over" => d.life = "over"
  BY FilesAssumption DEF Row, Life, WsKind, IxKind, Told, Message, Start, Ended

\* What the preparation records of a row, and what start-up makes of it.
LEMMA RowRecords ==
    ASSUME NEW c \in Row, NEW news \in News, NEW d \in {Recorded(c, news)}
    PROVE  /\ d \in Row /\ d.life = c.life /\ d.talk = c.talk
           /\ news = "cloned" => d.ws = "ready"
           /\ news = "cloneFailed" => d.ws = "failed"
           /\ news \in {"indexing", "indexEnded"} => d.ws = c.ws
  BY FilesAssumption DEF Row, Life, WsKind, IxKind, News, Recorded

LEMMA RowInterrupted ==
    ASSUME NEW c \in Row, NEW d \in {Interrupted(c)}
    PROVE  /\ d \in Row /\ d.talk = c.talk
           /\ c.life = "over" => d.life = "over"
           /\ d.life # "over" => d.life = c.life
           /\ d.ws \in {"ready", "evicted"} => d.ws = c.ws
  BY AbsentAssumption DEF Row, Life, WsKind, IxKind, Interrupted

LEMMA RowEvicted ==
    ASSUME NEW c \in Row, NEW d \in {[c EXCEPT !.ws = "evicted"]}
    PROVE  d \in Row /\ d.life = c.life /\ d.ws = "evicted" /\ d.talk = c.talk
  BY DEF Row, WsKind

LEMMA NoRow == Absent \notin Row /\ Absent \notin Sessions
  BY AbsentAssumption

LEMMA CreateKeeps ==
    ASSUME Inv, NEW s \in Sessions, Create(s) PROVE Inv'
<1> USE NoRow DEF Inv, TypeOK, Listed, Half, Holds, Over, Early, Exists,
    Unsaved, bodies, history, Overwritten, Holding, Body, AskStage,
    Create, Locked, Born
<1>a. /\ copy' = [copy EXCEPT ![s] = copy'[s]]
      /\ copy'[s] \in Row /\ copy'[s].ws \in {"cloning", "pending"}
      /\ copy'[s].ws = "pending" => prep'[s] = Idle
  BY FilesAssumption DEF Row, Life, WsKind, IxKind
<1>b. prep' \in [Sessions -> Preparing \cup {Idle}] /\ prep'[s][1] # "save"
  BY DEF Preparing, Stages, Idle
<1>1. TypeOK'
  BY <1>a, <1>b DEF TypeOK
<1>2. Locked'
  BY <1>a, <1>b DEF Locked
<1>3. Born'
  BY <1>a DEF Born, Idle
<1>4. OverForGood'
  BY <1>a DEF OverForGood, Idle
<1>5. Clones'
  BY <1>a DEF Clones, Idle
<1>6. FilesFirst'
  BY <1>a DEF FilesFirst, Idle
<1>7. CopyAgrees'
  BY <1>a DEF CopyAgrees, Idle
<1>8. GoneForGood'
  BY <1>a DEF GoneForGood, Idle
<1>9. RowsMatchDisk'
  BY <1>a DEF RowsMatchDisk, Idle
<1>10. Orphaned'
  BY <1>a DEF Orphaned, Idle
<1> QED  BY <1>1, <1>2, <1>3, <1>4, <1>5, <1>6, <1>7, <1>8, <1>9,
    <1>10

\* Whoever enters the lock loads the row, and will save what it makes of it.
LEMMA LoadKeeps ==
    ASSUME Inv, NEW s \in Sessions, Exists(s), lock[s] = "free",
           NEW c \in Row, c.ws = row[s].ws, c.talk >= row[s].talk,
           row[s].life = "over" => c.life = "over",
           NEW b \in {"web"} \cup Body,
           lock' = [lock EXCEPT ![s] = b], copy' = [copy EXCEPT ![s] = c],
           asking' \in [Sessions -> AskStage], closing' \subseteq Sessions,
           Unsaved, UNCHANGED <<disk, prep, orphans, sweep, crashes, history>>
    PROVE  Inv'
<1> USE NoRow DEF Inv, TypeOK, Listed, Half, Holds, Over, Early, Exists,
    Unsaved, bodies, history, Overwritten, Holding, Body, AskStage,
    Locked, Born, OverForGood
<1> row[s] \in Row
  OBVIOUS
<1>1. TypeOK'
  BY DEF TypeOK
<1>2. Locked'
  BY DEF Locked
<1>3. Born'
  BY DEF Born
<1>4. OverForGood'
  BY DEF OverForGood
<1>5. Clones'
  BY DEF Clones
<1>6. FilesFirst'
  BY DEF FilesFirst
<1>7. CopyAgrees'
  BY DEF CopyAgrees, RowsMatchDisk
<1>8. GoneForGood'
  BY DEF GoneForGood
<1>9. RowsMatchDisk'
  BY DEF RowsMatchDisk
<1>10. Orphaned'
  BY DEF Orphaned
<1> QED  BY <1>1, <1>2, <1>3, <1>4, <1>5, <1>6, <1>7, <1>8, <1>9,
    <1>10

LEMMA HandleKeeps ==
    ASSUME Inv, NEW s \in Sessions, Handle(s) PROVE Inv'
<1>1. PICK c \in {Message(row[s]), Start(row[s]), Ended(row[s])} :
        copy' = [copy EXCEPT ![s] = c]
  BY DEF Handle
<1>2. row[s] \in Row
  BY NoRow DEF Inv, TypeOK, Handle, Exists
<1>3. /\ c \in Row /\ c.ws = row[s].ws /\ c.talk >= row[s].talk
      /\ row[s].life = "over" => c.life = "over"
  BY <1>2, RowChanges
<1>4. asking' \in [Sessions -> AskStage] /\ closing' \subseteq Sessions
  BY DEF Handle, bodies, Inv, TypeOK
<1> QED  BY <1>1, <1>3, <1>4, LoadKeeps DEF Handle, bodies

LEMMA AskKeeps ==
    ASSUME Inv, NEW s \in Sessions, Ask(s) PROVE Inv'
<1> DEFINE c == Told(row[s])
<1>1. row[s] \in Row
  BY NoRow DEF Inv, TypeOK, Ask, Exists
<1>2. /\ c \in Row /\ c.ws = row[s].ws /\ c.talk >= row[s].talk
      /\ row[s].life = "over" => c.life = "over"
  BY <1>1, RowChanges
<1>3. asking' \in [Sessions -> AskStage] /\ closing' \subseteq Sessions
  BY DEF Ask, Inv, TypeOK, AskStage
<1> HIDE DEF c
<1>4. copy' = [copy EXCEPT ![s] = c]
  BY DEF Ask, c
<1> QED  BY <1>2, <1>3, <1>4, LoadKeeps DEF Ask

\* A body goes on without the lock, or ends.
LEMMA BodyMoves ==
    ASSUME Inv, asking' \in [Sessions -> AskStage], closing' \subseteq Sessions,
           Unsaved,
           UNCHANGED <<disk, prep, lock, copy, orphans, sweep, crashes, history>>
    PROVE  Inv'
  BY DEF Unsaved, history, Inv, TypeOK, Listed, Half, Holds, Over, Early,
      Exists, Overwritten, Locked, Born, OverForGood, Clones, FilesFirst,
      CopyAgrees, Orphaned, GoneForGood, RowsMatchDisk, AskStage

LEMMA RecordAnswerKeeps ==
    ASSUME Inv, NEW s \in Sessions, RecordAnswer(s) PROVE Inv'
<1> DEFINE c == Told(row[s])
<1>1. asking' \in [Sessions -> AskStage] /\ closing' \subseteq Sessions
  BY DEF RecordAnswer, Inv, TypeOK, AskStage
<1>2. CASE Exists(s)
  <2>1. row[s] \in Row
    BY <1>2, NoRow DEF Inv, TypeOK, Exists
  <2>2. /\ c \in Row /\ c.ws = row[s].ws /\ c.talk >= row[s].talk
        /\ row[s].life = "over" => c.life = "over"
    BY <2>1, RowChanges
  <2> HIDE DEF c
  <2>3. /\ copy' = [copy EXCEPT ![s] = c]
        /\ lock' = [lock EXCEPT ![s] = "answer"] /\ "answer" \in Body
    BY <1>2 DEF RecordAnswer, BodyLoads, Body, c
  <2> QED  BY <1>1, <1>2, <2>2, <2>3, LoadKeeps DEF RecordAnswer
<1>3. CASE ~Exists(s)
  BY <1>1, <1>3, BodyMoves DEF RecordAnswer
<1> QED  BY <1>2, <1>3

LEMMA AskFailsKeeps ==
    ASSUME Inv, NEW s \in Sessions, AskFails(s) PROVE Inv'
<1>1. asking' \in [Sessions -> AskStage] /\ closing' \subseteq Sessions
  BY DEF AskFails, Inv, TypeOK, AskStage
<1> QED  BY <1>1, BodyMoves DEF AskFails

LEMMA ClearAskKeeps ==
    ASSUME Inv, NEW s \in Sessions, ClearAsk(s) PROVE Inv'
<1>1. asking' \in [Sessions -> AskStage] /\ closing' \subseteq Sessions
  BY DEF ClearAsk, Inv, TypeOK, AskStage
<1>2. CASE Exists(s)
  <2>1. row[s] \in Row /\ row[s].talk >= row[s].talk
    BY <1>2, NoRow, FilesAssumption DEF Inv, TypeOK, Exists, Row
  <2>2. /\ copy' = [copy EXCEPT ![s] = row[s]]
        /\ lock' = [lock EXCEPT ![s] = "clear"] /\ "clear" \in Body
    BY <1>2 DEF ClearAsk, BodyLoads, Body
  <2> QED  BY <1>1, <1>2, <2>1, <2>2, LoadKeeps DEF ClearAsk
<1>3. CASE ~Exists(s)
  BY <1>1, <1>3, BodyMoves DEF ClearAsk
<1> QED  BY <1>2, <1>3

LEMMA FinishPlanKeeps ==
    ASSUME Inv, NEW s \in Sessions, FinishPlan(s) PROVE Inv'
<1> DEFINE c == Ended(row[s])
<1>1. asking' \in [Sessions -> AskStage] /\ closing' \subseteq Sessions
  BY DEF FinishPlan, Inv, TypeOK, AskStage
<1>2. CASE Exists(s)
  <2>1. row[s] \in Row
    BY <1>2, NoRow DEF Inv, TypeOK, Exists
  <2>2. /\ c \in Row /\ c.ws = row[s].ws /\ c.talk >= row[s].talk
        /\ row[s].life = "over" => c.life = "over"
    BY <2>1, RowChanges
  <2> HIDE DEF c
  <2>3. /\ copy' = [copy EXCEPT ![s] = c]
        /\ lock' = [lock EXCEPT ![s] = "plan"] /\ "plan" \in Body
    BY <1>2 DEF FinishPlan, BodyLoads, Body, c
  <2> QED  BY <1>1, <1>2, <2>2, <2>3, LoadKeeps DEF FinishPlan
<1>3. CASE ~Exists(s)
  BY <1>1, <1>3, BodyMoves DEF FinishPlan
<1> QED  BY <1>2, <1>3

LEMMA HandlerSavedKeeps ==
    ASSUME Inv, NEW s \in Sessions, HandlerSaved(s) PROVE Inv'
<1> USE NoRow DEF Inv, TypeOK, Listed, Half, Holds, Over, Early, Exists,
    Unsaved, bodies, history, Overwritten, Holding, Body, AskStage,
    HandlerSaved, Save, Locked, Born, OverForGood, CopyAgrees
<1>1. TypeOK'
  BY DEF TypeOK
<1>2. Locked'
  BY DEF Locked
<1>3. Born'
  BY DEF Born
<1>4. OverForGood'
  BY DEF OverForGood
<1>5. Clones'
  BY DEF Clones
<1>6. FilesFirst'
  BY DEF FilesFirst
<1>7. CopyAgrees'
  BY DEF CopyAgrees
<1>8. GoneForGood'
  BY DEF GoneForGood
<1>9. RowsMatchDisk'
  BY DEF RowsMatchDisk
<1>10. Orphaned'
  BY DEF Orphaned
<1> QED  BY <1>1, <1>2, <1>3, <1>4, <1>5, <1>6, <1>7, <1>8, <1>9,
    <1>10

LEMMA BodySavedKeeps ==
    ASSUME Inv, NEW s \in Sessions, BodySaved(s) PROVE Inv'
<1> USE NoRow DEF Inv, TypeOK, Listed, Half, Holds, Over, Early, Exists,
    Unsaved, bodies, history, Overwritten, Holding, Body, AskStage,
    BodySaved, Cleared, Save, Locked, Born, OverForGood, CopyAgrees
<1>1. TypeOK'
  BY DEF TypeOK
<1>2. Locked'
  BY DEF Locked
<1>3. Born'
  BY DEF Born
<1>4. OverForGood'
  BY DEF OverForGood
<1>5. Clones'
  BY DEF Clones
<1>6. FilesFirst'
  BY DEF FilesFirst
<1>7. CopyAgrees'
  BY DEF CopyAgrees
<1>8. GoneForGood'
  BY DEF GoneForGood
<1>9. RowsMatchDisk'
  BY DEF RowsMatchDisk
<1>10. Orphaned'
  BY DEF Orphaned
<1> QED  BY <1>1, <1>2, <1>3, <1>4, <1>5, <1>6, <1>7, <1>8, <1>9,
    <1>10

\* A strike outside a save moves the body on; inside one, it leaves an orphan.
LEMMA AbandonsKeeps ==
    ASSUME Inv, NEW s \in Sessions, lock[s] \in Body, Abandons(s),
           asking' \in [Sessions -> AskStage], closing' \subseteq Sessions,
           Unsaved, UNCHANGED <<disk, prep, sweep, crashes, history>>
    PROVE  Inv'
<1> USE NoRow DEF Inv, TypeOK, Listed, Half, Holds, Over, Early, Exists,
    Unsaved, bodies, history, Overwritten, Holding, Body, AskStage,
    Abandons, Locked, Born, OverForGood, CopyAgrees
<1>a. copy[s] \in Row
  OBVIOUS
<1>b. [s |-> s, over |-> row[s], save |-> copy[s]]
         \in [s : Sessions, over : Row \cup {Absent}, save : Row]
  BY <1>a
<1>c. orphans' \subseteq [s : Sessions, over : Row \cup {Absent}, save : Row]
  BY <1>b
<1>1. TypeOK'
  BY <1>c DEF TypeOK
<1>2. Locked'
  BY DEF Locked
<1>3. Born'
  BY DEF Born
<1>4. OverForGood'
  BY DEF OverForGood
<1>5. Clones'
  BY DEF Clones
<1>6. FilesFirst'
  BY DEF FilesFirst
<1>7. CopyAgrees'
  BY DEF CopyAgrees
<1>8. GoneForGood'
  BY DEF GoneForGood
<1>9. RowsMatchDisk'
  BY DEF RowsMatchDisk
<1>10. Orphaned'
  BY DEF Orphaned
<1> QED  BY <1>1, <1>2, <1>3, <1>4, <1>5, <1>6, <1>7, <1>8, <1>9,
    <1>10

LEMMA StrikeAskKeeps ==
    ASSUME Inv, NEW s \in Sessions, StrikeAsk(s) PROVE Inv'
<1>1. asking' \in [Sessions -> AskStage] /\ closing' \subseteq Sessions
  BY DEF StrikeAsk, Inv, TypeOK, AskStage
<1>2. CASE lock[s] \in {"answer", "clear"}
  BY <1>1, <1>2, AbandonsKeeps DEF StrikeAsk, Body
<1>3. CASE lock[s] \notin {"answer", "clear"}
  BY <1>1, <1>3, BodyMoves DEF StrikeAsk
<1> QED  BY <1>2, <1>3

LEMMA StrikePlanKeeps ==
    ASSUME Inv, NEW s \in Sessions, StrikePlan(s) PROVE Inv'
<1>1. asking' \in [Sessions -> AskStage] /\ closing' \subseteq Sessions
  BY DEF StrikePlan, Inv, TypeOK, AskStage
<1> QED  BY <1>1, AbandonsKeeps DEF StrikePlan, Body

\* A late save that meets no other write leaves the row about the same
\* checkout, as the copy would have.
LEMMA OrphanLandsKeeps ==
    ASSUME Inv, NEW o \in orphans, OrphanLands(o) PROVE Inv'
<1> USE NoRow DEF Inv, TypeOK, Listed, Half, Holds, Over, Early, Exists,
    Unsaved, bodies, history, Overwritten, Holding, Body, AskStage,
    OrphanLands, Save, Locked, Born, OverForGood, Orphaned
<1>1. TypeOK'
  BY DEF TypeOK
<1>2. Locked'
  BY DEF Locked
<1>3. Born'
  BY DEF Born
<1>4. OverForGood'
  BY DEF OverForGood
<1>5. Clones'
  BY DEF Clones
<1>6. FilesFirst'
  BY DEF FilesFirst
<1>7. CopyAgrees'
  BY DEF CopyAgrees
<1>8. GoneForGood'
  BY DEF GoneForGood
<1>9. RowsMatchDisk'
  BY DEF RowsMatchDisk
<1>10. Orphaned'
  BY DEF Orphaned
<1> QED  BY <1>1, <1>2, <1>3, <1>4, <1>5, <1>6, <1>7, <1>8, <1>9,
    <1>10

LEMMA DeleteKeeps ==
    ASSUME Inv, NEW s \in Sessions, Delete(s) PROVE Inv'
<1> USE NoRow DEF Inv, TypeOK, Listed, Half, Holds, Over, Early, Exists,
    Unsaved, bodies, history, Overwritten, Holding, Body, AskStage,
    Delete, Locked, Born, OverForGood, Clones
<1>1. TypeOK'
  BY DEF TypeOK
<1>2. Locked'
  BY DEF Locked
<1>3. Born'
  BY DEF Born
<1>4. OverForGood'
  BY DEF OverForGood
<1>5. Clones'
  BY DEF Clones
<1>6. FilesFirst'
  BY DEF FilesFirst
<1>7. CopyAgrees'
  BY DEF CopyAgrees
<1>8. GoneForGood'
  BY DEF GoneForGood
<1>9. RowsMatchDisk'
  BY DEF RowsMatchDisk
<1>10. Orphaned'
  BY DEF Orphaned
<1> QED  BY <1>1, <1>2, <1>3, <1>4, <1>5, <1>6, <1>7, <1>8, <1>9,
    <1>10

LEMMA DeleteRowKeeps ==
    ASSUME Inv, NEW s \in Sessions, DeleteRow(s) PROVE Inv'
<1> USE NoRow DEF Inv, TypeOK, Listed, Half, Holds, Over, Early, Exists,
    Unsaved, bodies, history, Overwritten, Holding, Body, AskStage,
    DeleteRow, DropRow, Locked, Born, OverForGood, FilesFirst
<1>1. TypeOK'
  BY DEF TypeOK
<1>2. Locked'
  BY DEF Locked
<1>3. Born'
  BY DEF Born
<1>4. OverForGood'
  BY DEF OverForGood
<1>5. Clones'
  BY DEF Clones
<1>6. FilesFirst'
  BY DEF FilesFirst
<1>7. CopyAgrees'
  BY DEF CopyAgrees
<1>8. GoneForGood'
  BY DEF GoneForGood
<1>9. RowsMatchDisk'
  BY DEF RowsMatchDisk
<1>10. Orphaned'
  BY DEF Orphaned
<1> QED  BY <1>1, <1>2, <1>3, <1>4, <1>5, <1>6, <1>7, <1>8, <1>9,
    <1>10

LEMMA CloneEndsKeeps ==
    ASSUME Inv, NEW s \in Sessions, CloneEnds(s) PROVE Inv'
<1> USE NoRow DEF Inv, TypeOK, Listed, Half, Holds, Over, Early, Exists,
    Unsaved, bodies, history, Overwritten, Holding, Body, AskStage,
    CloneEnds, Locked, Born, OverForGood
<1>a. \E news \in {"cloned", "cloneFailed"} :
        prep' = [prep EXCEPT ![s] = <<"tell", news>>]
  OBVIOUS
<1>b. prep' \in [Sessions -> Preparing \cup {Idle}]
  BY <1>a DEF Preparing, Stages, News
<1>1. TypeOK'
  BY <1>b DEF TypeOK
<1>2. Locked'
  BY DEF Locked
<1>3. Born'
  BY DEF Born
<1>4. OverForGood'
  BY DEF OverForGood
<1>5. Clones'
  BY DEF Clones
<1>6. FilesFirst'
  BY DEF FilesFirst
<1>7. CopyAgrees'
  BY DEF CopyAgrees
<1>8. GoneForGood'
  BY DEF GoneForGood
<1>9. RowsMatchDisk'
  BY DEF RowsMatchDisk
<1>10. Orphaned'
  BY DEF Orphaned
<1> QED  BY <1>1, <1>2, <1>3, <1>4, <1>5, <1>6, <1>7, <1>8, <1>9,
    <1>10

LEMMA RecordBeginsKeeps ==
    ASSUME Inv, NEW s \in Sessions, RecordBegins(s) PROVE Inv'
<1> USE NoRow DEF Inv, TypeOK, Listed, Half, Holds, Over, Early, Exists,
    Unsaved, bodies, history, Overwritten, Holding, Body, AskStage,
    RecordBegins, Locked, Born, OverForGood
<1>a. prep[s][2] \in News
  BY DEF Preparing, Stages, Idle
<1>b. CASE ~Exists(s)
  <2> USE <1>b
  <2>1. PICK next \in After(prep[s][2]) : prep' = [prep EXCEPT ![s] = next]
    OBVIOUS
  <2>2. next \in Preparing \cup {Idle} /\ next[1] # "save" /\ ~Early(s)'
    BY <1>a, <2>1 DEF After, News, Preparing, Stages, Idle
  <2> QED  BY <2>1, <2>2 DEF Clones, FilesFirst, CopyAgrees, Orphaned,
      GoneForGood, RowsMatchDisk
<1> SUFFICES ASSUME Exists(s) PROVE Inv'
  BY <1>b
<1> DEFINE c == Recorded(row[s], prep[s][2])
<1>c. row[s] \in Row
  OBVIOUS
<1>d. /\ c \in Row /\ c.life = row[s].life /\ c.talk = row[s].talk
      /\ prep[s][2] = "cloned" => c.ws = "ready"
      /\ prep[s][2] = "cloneFailed" => c.ws = "failed"
      /\ prep[s][2] \in {"indexing", "indexEnded"} => c.ws = row[s].ws
  BY <1>a, <1>c, RowRecords
<1>e. copy' = [copy EXCEPT ![s] = c]
  OBVIOUS
<1> HIDE DEF c
<1>f. /\ prep' = [prep EXCEPT ![s] = <<"save", prep[s][2]>>]
      /\ prep' \in [Sessions -> Preparing \cup {Idle}]
  BY <1>a DEF Preparing
<1>g. s \notin torn \cup Overwritten \cup Half =>
         (c.ws = "ready" => s \in disk) /\ (c.ws = "evicted" => s \notin disk)
  <2>1. CASE prep[s][2] \in {"cloned", "cloneFailed"}
    BY <2>1, <1>d DEF Clones
  <2>2. CASE prep[s][2] \in {"indexing", "indexEnded"}
    BY <2>2, <1>d DEF RowsMatchDisk
  <2> QED  BY <1>a, <2>1, <2>2 DEF News
<1>1. TypeOK'
  BY <1>a, <1>c, <1>d, <1>e, <1>f DEF TypeOK, RowsMatchDisk, Clones, News
<1>2. Locked'
  BY <1>a, <1>c, <1>d, <1>e, <1>f DEF Locked, RowsMatchDisk, Clones, News
<1>3. Born'
  BY <1>a, <1>c, <1>d, <1>e, <1>f DEF Born, RowsMatchDisk, Clones, News
<1>4. OverForGood'
  BY <1>a, <1>c, <1>d, <1>e, <1>f DEF OverForGood, RowsMatchDisk, Clones, News
<1>5. Clones'
  BY <1>a, <1>c, <1>d, <1>e, <1>f DEF Clones, RowsMatchDisk, News
<1>6. FilesFirst'
  BY <1>a, <1>c, <1>d, <1>e, <1>f DEF FilesFirst, RowsMatchDisk, Clones, News
<1>7. CopyAgrees'
  BY FilesAssumption, <1>c, <1>d, <1>e, <1>g DEF CopyAgrees, Row
<1>8. GoneForGood'
  BY <1>a, <1>c, <1>d, <1>e, <1>f DEF GoneForGood, RowsMatchDisk, Clones, News
<1>9. RowsMatchDisk'
  BY <1>a, <1>c, <1>d, <1>e, <1>f DEF RowsMatchDisk, Clones, News
<1>10. Orphaned'
  BY <1>a, <1>c, <1>d, <1>e, <1>f DEF Orphaned, Clones, News
<1> QED  BY <1>1, <1>2, <1>3, <1>4, <1>5, <1>6, <1>7, <1>8, <1>9,
    <1>10

LEMMA RecordSavedKeeps ==
    ASSUME Inv, NEW s \in Sessions, RecordSaved(s) PROVE Inv'
<1> USE NoRow DEF Inv, TypeOK, Listed, Half, Holds, Over, Early, Exists,
    Unsaved, bodies, history, Overwritten, Holding, Body, AskStage,
    RecordSaved, Save, Locked, Born, OverForGood, CopyAgrees
<1>a. prep[s][2] \in News
  BY DEF Preparing, Stages, Idle
<1>b. PICK next \in After(prep[s][2]) : prep' = [prep EXCEPT ![s] = next]
  OBVIOUS
<1>c. next \in Preparing \cup {Idle} /\ next[1] # "save" /\ ~Early(s)'
  BY <1>a, <1>b DEF After, News, Preparing, Stages, Idle
<1>1. TypeOK'
  BY <1>b, <1>c DEF TypeOK
<1>2. Locked'
  BY <1>b, <1>c DEF Locked
<1>3. Born'
  BY DEF Born
<1>4. OverForGood'
  BY DEF OverForGood
<1>5. Clones'
  BY <1>b, <1>c DEF Clones
<1>6. FilesFirst'
  BY DEF FilesFirst
<1>7. CopyAgrees'
  BY DEF CopyAgrees
<1>8. GoneForGood'
  BY DEF GoneForGood
<1>9. RowsMatchDisk'
  BY DEF RowsMatchDisk
<1>10. Orphaned'
  BY DEF Orphaned
<1> QED  BY <1>1, <1>2, <1>3, <1>4, <1>5, <1>6, <1>7, <1>8, <1>9,
    <1>10

LEMMA IndexEndsKeeps ==
    ASSUME Inv, NEW s \in Sessions, IndexEnds(s) PROVE Inv'
<1> USE NoRow DEF Inv, TypeOK, Listed, Half, Holds, Over, Early, Exists,
    Unsaved, bodies, history, Overwritten, Holding, Body, AskStage,
    IndexEnds, Locked, Born, OverForGood
<1>b. prep' \in [Sessions -> Preparing \cup {Idle}]
  BY DEF Preparing, Stages, News
<1>1. TypeOK'
  BY <1>b DEF TypeOK
<1>2. Locked'
  BY DEF Locked
<1>3. Born'
  BY DEF Born
<1>4. OverForGood'
  BY DEF OverForGood
<1>5. Clones'
  BY DEF Clones
<1>6. FilesFirst'
  BY DEF FilesFirst
<1>7. CopyAgrees'
  BY DEF CopyAgrees
<1>8. GoneForGood'
  BY DEF GoneForGood
<1>9. RowsMatchDisk'
  BY DEF RowsMatchDisk
<1>10. Orphaned'
  BY DEF Orphaned
<1> QED  BY <1>1, <1>2, <1>3, <1>4, <1>5, <1>6, <1>7, <1>8, <1>9,
    <1>10

LEMMA ExpireKeeps ==
    ASSUME Inv, NEW s \in Sessions, Expire(s) PROVE Inv'
<1> USE NoRow DEF Inv, TypeOK, Listed, Half, Holds, Over, Early, Exists,
    Unsaved, bodies, history, Overwritten, Holding, Body, AskStage,
    Expire, Locked, Born, OverForGood, Idle
<1>1. TypeOK'
  BY DEF TypeOK
<1>2. Locked'
  BY DEF Locked
<1>3. Born'
  BY DEF Born
<1>4. OverForGood'
  BY DEF OverForGood
<1>5. Clones'
  BY DEF Clones
<1>6. FilesFirst'
  BY DEF FilesFirst
<1>7. CopyAgrees'
  BY DEF CopyAgrees
<1>8. GoneForGood'
  BY DEF GoneForGood
<1>9. RowsMatchDisk'
  BY DEF RowsMatchDisk
<1>10. Orphaned'
  BY DEF Orphaned
<1> QED  BY <1>1, <1>2, <1>3, <1>4, <1>5, <1>6, <1>7, <1>8, <1>9,
    <1>10

LEMMA SweepStartsKeeps ==
    ASSUME Inv, NEW s \in Sessions, SweepStarts(s) PROVE Inv'
<1> USE NoRow DEF Inv, TypeOK, Listed, Half, Holds, Over, Early, Exists,
    Unsaved, bodies, history, Overwritten, Holding, Body, AskStage,
    SweepStarts, Locked, Born, OverForGood, Expired
<1>1. TypeOK'
  BY DEF TypeOK
<1>2. Locked'
  BY DEF Locked
<1>3. Born'
  BY DEF Born
<1>4. OverForGood'
  BY DEF OverForGood
<1>5. Clones'
  BY DEF Clones
<1>6. FilesFirst'
  BY DEF FilesFirst
<1>7. CopyAgrees'
  BY DEF CopyAgrees
<1>8. GoneForGood'
  BY DEF GoneForGood
<1>9. RowsMatchDisk'
  BY DEF RowsMatchDisk
<1>10. Orphaned'
  BY DEF Orphaned
<1> QED  BY <1>1, <1>2, <1>3, <1>4, <1>5, <1>6, <1>7, <1>8, <1>9,
    <1>10

LEMMA SweepFilesKeeps ==
    ASSUME Inv, NEW t \in sweep.todo, SweepFiles(t) PROVE Inv'
<1> USE NoRow DEF Inv, TypeOK, Listed, Half, Holds, Over, Early, Exists,
    Unsaved, bodies, history, Overwritten, Holding, Body, AskStage,
    SweepFiles, Locked, Born, OverForGood, Clones
<1>1. TypeOK'
  BY DEF TypeOK
<1>2. Locked'
  BY DEF Locked
<1>3. Born'
  BY DEF Born
<1>4. OverForGood'
  BY DEF OverForGood
<1>5. Clones'
  BY DEF Clones
<1>6. FilesFirst'
  BY DEF FilesFirst
<1>7. CopyAgrees'
  BY DEF CopyAgrees
<1>8. GoneForGood'
  BY DEF GoneForGood
<1>9. RowsMatchDisk'
  BY DEF RowsMatchDisk
<1>10. Orphaned'
  BY DEF Orphaned
<1> QED  BY <1>1, <1>2, <1>3, <1>4, <1>5, <1>6, <1>7, <1>8, <1>9,
    <1>10

LEMMA SweepRowKeeps ==
    ASSUME Inv, NEW t \in sweep.todo, SweepRow(t) PROVE Inv'
<1> USE NoRow DEF Inv, TypeOK, Listed, Half, Holds, Over, Early, Exists,
    Unsaved, bodies, history, Overwritten, Holding, Body, AskStage,
    Locked, Born, OverForGood, Clones, FilesFirst
<1> DEFINE c == [t.row EXCEPT !.ws = "evicted"]
<1>a. t.s \in Sessions /\ c \in Row /\ c.life = "over" /\ c.ws = "evicted"
      /\ c.talk = t.row.talk
  <2>1. t.s \in Sessions /\ t.row \in Row /\ t.row.life = "over"
    OBVIOUS
  <2> QED  BY <2>1, RowEvicted
<1> HIDE DEF c
<1>b. /\ \/ row' = [row EXCEPT ![t.s] = Absent] /\ gone' = gone \cup {t.s}
         \/ row' = [row EXCEPT ![t.s] = c] /\ gone' = gone
      /\ warmer' \in [Sessions -> SUBSET Sessions]
      /\ expired' = expired \ {t.s}
  BY <1>a DEF SweepRow, DropRow, Save, c
<1>c. /\ sweep'.todo = sweep.todo \ {t} /\ sweep'.half = {} /\ sweep.half = {t}
      /\ sweep'.at = sweep.at /\ sweep'.by = sweep.by
  BY DEF SweepRow
<1>d. /\ raced' \in {raced, raced \cup {t.s}}
      /\ row[t.s] # t.row \/ lock[t.s] \notin {"free", "get"} => t.s \in raced'
      /\ UNCHANGED <<disk, prep, lock, copy, bodies, crashes, born, undone, torn>>
  BY DEF SweepRow, Blind
<1>1. TypeOK'
  BY <1>a, <1>b, <1>c, <1>d DEF TypeOK
<1>2. Locked'
  BY <1>a, <1>b, <1>c, <1>d DEF Locked
<1>3. Born'
  BY <1>a, <1>b, <1>c, <1>d DEF Born
<1>4. OverForGood'
  BY <1>a, <1>b, <1>c, <1>d DEF OverForGood
<1>5. Clones'
  BY <1>a, <1>b, <1>c, <1>d DEF Clones
<1>6. FilesFirst'
  BY <1>a, <1>b, <1>c, <1>d DEF FilesFirst
<1>7. CopyAgrees'
  BY <1>a, <1>b, <1>c, <1>d DEF CopyAgrees
<1>8. GoneForGood'
  BY <1>a, <1>b, <1>c, <1>d DEF GoneForGood
<1>9. RowsMatchDisk'
  BY <1>a, <1>b, <1>c, <1>d DEF RowsMatchDisk
<1>10. Orphaned'
  BY <1>a, <1>b, <1>c, <1>d DEF Orphaned
<1> QED  BY <1>1, <1>2, <1>3, <1>4, <1>5, <1>6, <1>7, <1>8, <1>9,
    <1>10

LEMMA SweepTurnsKeeps ==
    ASSUME Inv, SweepTurns PROVE Inv'
<1> USE NoRow DEF Inv, TypeOK, Listed, Half, Holds, Over, Early, Exists,
    Unsaved, bodies, history, Overwritten, Holding, Body, AskStage,
    SweepTurns, Coldest, Held, Locked, Born, OverForGood
<1>1. TypeOK'
  BY DEF TypeOK
<1>2. Locked'
  BY DEF Locked
<1>3. Born'
  BY DEF Born
<1>4. OverForGood'
  BY DEF OverForGood
<1>5. Clones'
  BY DEF Clones
<1>6. FilesFirst'
  BY DEF FilesFirst
<1>7. CopyAgrees'
  BY DEF CopyAgrees
<1>8. GoneForGood'
  BY DEF GoneForGood
<1>9. RowsMatchDisk'
  BY DEF RowsMatchDisk
<1>10. Orphaned'
  BY DEF Orphaned
<1> QED  BY <1>1, <1>2, <1>3, <1>4, <1>5, <1>6, <1>7, <1>8, <1>9,
    <1>10

LEMMA SweepEndsKeeps ==
    ASSUME Inv, SweepEnds PROVE Inv'
<1> USE NoRow DEF Inv, TypeOK, Listed, Half, Holds, Over, Early, Exists,
    Unsaved, bodies, history, Overwritten, Holding, Body, AskStage,
    SweepEnds, SweepOff, Locked, Born, OverForGood
<1>1. TypeOK'
  BY DEF TypeOK
<1>2. Locked'
  BY DEF Locked
<1>3. Born'
  BY DEF Born
<1>4. OverForGood'
  BY DEF OverForGood
<1>5. Clones'
  BY DEF Clones
<1>6. FilesFirst'
  BY DEF FilesFirst
<1>7. CopyAgrees'
  BY DEF CopyAgrees
<1>8. GoneForGood'
  BY DEF GoneForGood
<1>9. RowsMatchDisk'
  BY DEF RowsMatchDisk
<1>10. Orphaned'
  BY DEF Orphaned
<1> QED  BY <1>1, <1>2, <1>3, <1>4, <1>5, <1>6, <1>7, <1>8, <1>9,
    <1>10

LEMMA RestartKeeps ==
    ASSUME Inv, Restart PROVE Inv'
<1> USE NoRow DEF Inv, TypeOK, Listed, Half, Holds, Over, Early, Exists,
    Unsaved, bodies, history, Overwritten, Holding, Body, AskStage,
    HalfDeleted, Locked, Born, OverForGood
<1>a. /\ row' \in [Sessions -> Row \cup {Absent}]
      /\ \A s \in Sessions : ~Exists(s) => row'[s] = Absent
      /\ \A s \in Sessions : Exists(s) =>
            /\ row'[s] \in Row /\ row'[s].talk = row[s].talk
            /\ row[s].life = "over" => row'[s].life = "over"
            /\ row'[s].ws \in {"ready", "evicted"} => row'[s].ws = row[s].ws
  <2>1. \A s \in Sessions : row'[s] = Interrupted(row[s])
    BY DEF Restart
  <2>2. \A s \in Sessions : ~Exists(s) => row'[s] = Absent
    BY <2>1 DEF Interrupted
  <2>3. \A s \in Sessions : Exists(s) => row[s] \in Row
    OBVIOUS
  <2> QED  BY <2>1, <2>2, <2>3, RowInterrupted DEF Restart
<1>b. warmer' \in [Sessions -> SUBSET Sessions] /\ expired' \subseteq expired
  BY DEF Restart
<1>c. /\ prep' = [s \in Sessions |-> Idle]
      /\ lock' = [s \in Sessions |-> "free"]
      /\ copy' = [s \in Sessions |-> Absent]
      /\ asking' = [s \in Sessions |-> "none"] /\ closing' = {}
      /\ orphans' = {}
      /\ torn' = torn \cup HalfDeleted
                   \cup {s \in Sessions : lock[s] = "web" /\ ~Exists(s)}
      /\ born' = born \cup {s \in Sessions : lock[s] = "web"}
      /\ crashes' \in Nat /\ UNCHANGED <<disk, gone, raced, undone>>
  BY FilesAssumption DEF Restart
<1>d. /\ sweep'.at = "reap" /\ sweep'.by = Absent /\ sweep'.half = {}
      /\ sweep'.todo = {[s |-> x, row |-> row'[x]] : x \in expired'}
  BY DEF Restart, SweepOff
<1>e. \A t \in sweep'.todo : t.s \in expired /\ t.row = row'[t.s]
  BY <1>b, <1>d
<1>1. TypeOK'
  BY <1>a, <1>b, <1>c, <1>e, <1>d DEF TypeOK, Idle
<1>2. Locked'
  BY <1>a, <1>b, <1>c, <1>e, <1>d DEF Locked, Idle
<1>3. Born'
  BY <1>a, <1>b, <1>c, <1>e, <1>d DEF Born, Idle
<1>4. OverForGood'
  BY <1>a, <1>b, <1>c, <1>e, <1>d DEF OverForGood, Idle
<1>5. Clones'
  BY <1>a, <1>b, <1>c, <1>e, <1>d DEF Clones, Idle
<1>6. FilesFirst'
  BY <1>a, <1>b, <1>c, <1>e, <1>d DEF FilesFirst, Idle
<1>7. CopyAgrees'
  BY <1>a, <1>b, <1>c, <1>e, <1>d DEF CopyAgrees, Idle
<1>8. GoneForGood'
  BY <1>a, <1>b, <1>c, <1>e, <1>d DEF GoneForGood, Idle
<1>9. RowsMatchDisk'
  <2> SUFFICES ASSUME NEW s \in born',
                      s \notin raced \cup undone \cup torn'
               PROVE  IF row'[s] = Absent THEN s \notin disk
                      ELSE /\ row'[s].ws = "ready" => s \in disk
                           /\ row'[s].ws = "evicted" => s \notin disk
    BY <1>c DEF RowsMatchDisk
  <2>1. s \in Sessions /\ s \in born /\ s \notin torn /\ lock[s] # "purge"
        /\ s \notin Half
    BY <1>c
  <2>2. row'[s] = Absent <=> row[s] = Absent
    BY <1>a, <2>1
  <2> QED  BY <1>a, <2>1, <2>2 DEF RowsMatchDisk
<1>10. Orphaned'
  BY <1>a, <1>b, <1>c, <1>e, <1>d DEF Orphaned, Idle
<1> QED  BY <1>1, <1>2, <1>3, <1>4, <1>5, <1>6, <1>7, <1>8, <1>9,
    <1>10

-----------------------------------------------------------------------------
(* The invariant of the checkouts *)

LEMMA InitInv == Init => Inv
<1> SUFFICES ASSUME Init PROVE Inv
  OBVIOUS
<1>1. \A s \in Elders :
        [life |-> "over", ws |-> "ready", ix |-> "ended", talk |-> 0] \in Row
  BY FilesAssumption DEF Row, Life, WsKind, IxKind
<1>2. warmer \in [Sessions -> SUBSET Sessions]
  BY FilesAssumption DEF Init
<1>3. TypeOK
  BY <1>1, <1>2, FilesAssumption DEF Init, TypeOK, SweepOff, AskStage
<1> USE NoRow, FilesAssumption DEF Init, Exists, Idle, Listed, Half, Holds,
    Over, Early, SweepOff, Overwritten
<1>4. Locked
  BY DEF Locked, Holding, Body
<1>5. Born /\ OverForGood
  BY DEF Born, OverForGood
<1>6. Clones /\ FilesFirst /\ GoneForGood
  BY DEF Clones, FilesFirst, GoneForGood
<1>7. CopyAgrees /\ Orphaned
  BY DEF CopyAgrees, Orphaned, Holding, Body
<1>8. RowsMatchDisk
  BY <1>1 DEF RowsMatchDisk
<1> QED  BY <1>3, <1>4, <1>5, <1>6, <1>7, <1>8 DEF Inv

LEMMA StepInv == Inv /\ [Next]_vars => Inv'
<1> SUFFICES ASSUME Inv, [Next]_vars PROVE Inv'
  OBVIOUS
<1>1. CASE UNCHANGED vars
  BY <1>1 DEF vars, Inv, TypeOK, Locked, Born, OverForGood, Clones,
      FilesFirst, CopyAgrees, Orphaned, GoneForGood, RowsMatchDisk, Exists,
      Overwritten, Listed, Half, Holds, Over, Early
<1>2. ASSUME NEW s \in Sessions, Request(s) PROVE Inv'
  BY <1>2, CreateKeeps, HandleKeeps, AskKeeps, DeleteKeeps, SweepStartsKeeps
     DEF Request
<1>3. ASSUME NEW s \in Sessions, Leaves(s) \/ Works(s) PROVE Inv'
  BY <1>3, HandlerSavedKeeps, BodySavedKeeps, DeleteRowKeeps, RecordSavedKeeps,
     CloneEndsKeeps, IndexEndsKeeps DEF Leaves, Works
<1>4. ASSUME NEW s \in Sessions, Bodies(s) \/ Strike(s) PROVE Inv'
  BY <1>4, RecordAnswerKeeps, AskFailsKeeps, ClearAskKeeps, FinishPlanKeeps,
     StrikeAskKeeps, StrikePlanKeeps DEF Bodies, Strike
<1>5. CASE Sweeping
  BY <1>5, SweepFilesKeeps, SweepRowKeeps, SweepTurnsKeeps, SweepEndsKeeps
     DEF Sweeping
<1> QED
  BY <1>1, <1>2, <1>3, <1>4, <1>5, OrphanLandsKeeps, RecordBeginsKeeps,
     ExpireKeeps, RestartKeeps DEF Next

LEMMA Invariant == Spec => []Inv
  BY InitInv, StepInv, PTL DEF Spec

-----------------------------------------------------------------------------
(* The theorems about the checkouts *)

\* Rows, copies, tasks and the sweeper keep their types.
THEOREM FilesTyped == Spec => []TypeOK
<1>1. Inv => TypeOK
  BY DEF Inv
<1> QED  BY <1>1, Invariant, PTL

\* A session that is open or runs keeps its ready checkout, whatever list the
\* sweeper works through: what is listed is over, and stays so - where no
\* struck body's late save undid it, and no crash cut a deletion in two.
THEOREM LiveCheckoutKept == Spec => []LiveKeepsCheckout
<1>1. Inv => LiveKeepsCheckout
  BY NoRow DEF Inv, TypeOK, LiveKeepsCheckout, RowsMatchDisk, Born,
      OverForGood, Over, Exists, Listed, Half, Overwritten
<1> QED  BY <1>1, Invariant, PTL

\* Except where the sweeper's blind write, a struck body's late save, a
\* deletion during the clone or a crash came between, ready and evicted mean
\* what they say.
THEOREM RowsTellTheDisk == Spec => []RowsMatchDisk
<1>1. Inv => RowsMatchDisk
  BY DEF Inv
<1> QED  BY <1>1, Invariant, PTL

\* Nobody's write undoes another's, the sweeper's blind one and a struck body's
\* late one apart: whoever else saves a copy has held the lock since it was
\* loaded, and a late save that met no other write is about the row it loaded.
THEOREM WritesStand == Spec => WritesKeepWrites
<1> DEFINE Stands(s) ==
          /\ (Exists(s) /\ row'[s] # Absent) => row'[s].talk >= row[s].talk
          /\ s \in gone => row'[s] = Absent
<1>1. ASSUME Inv, Next, NEW s \in Sessions \ (raced' \cup undone')
      PROVE  Stands(s)
  <2> USE <1>1 DEF Exists
  <2>1. raced \subseteq raced' /\ undone \subseteq undone'
    BY DEF Next, Request, Bodies, Strike, Leaves, Works, Sweeping, Create,
        Handle, Ask, Delete, SweepStarts, RecordAnswer, AskFails, ClearAsk,
        FinishPlan, StrikeAsk, StrikePlan, OrphanLands, RecordBegins,
        HandlerSaved, BodySaved, DeleteRow, CloneEnds, RecordSaved, IndexEnds,
        Expire, SweepFiles, SweepRow, Blind, SweepTurns, SweepEnds, Restart,
        history
  <2>2. /\ s \in gone => row[s] = Absent
        /\ row[s] # Absent => row[s] \in Row /\ row[s].talk >= row[s].talk
    BY <2>1, FilesAssumption DEF Inv, TypeOK, GoneForGood, Overwritten, Row
  <2>3. CASE UNCHANGED row
    BY <2>2, <2>3
  <2>4. ASSUME NEW q \in Sessions,
               HandlerSaved(q) \/ BodySaved(q) \/ RecordSaved(q)
        PROVE  Stands(s)
    <3>1. row' = [row EXCEPT ![q] = copy[q]] /\ Holds(q)
      BY <2>4 DEF HandlerSaved, BodySaved, RecordSaved, Save, Holding, Holds
    <3>2. s \in gone => s \in born
      BY DEF Inv, Born
    <3> QED
      BY <2>1, <2>2, <3>1, <3>2 DEF Inv, TypeOK, CopyAgrees, Overwritten
  <2>5. ASSUME NEW q \in Sessions, DeleteRow(q) PROVE Stands(s)
    BY <2>2, <2>5 DEF DeleteRow, DropRow, Inv, TypeOK
  <2>6. ASSUME NEW t \in sweep.todo, SweepRow(t) PROVE Stands(s)
    <3>1. t.s \in Sessions /\ t.row \in Row
      BY DEF Inv, TypeOK
    <3>2. CASE s # t.s
      BY <2>2, <2>6, <3>1, <3>2 DEF SweepRow, DropRow, Save, Inv, TypeOK
    <3>3. CASE s = t.s
      <4>1. row[s] = t.row
        BY <2>6, <3>3 DEF SweepRow, Blind
      <4>2. row'[s] = Absent \/ row'[s] = [t.row EXCEPT !.ws = "evicted"]
        BY <2>6, <3>3 DEF SweepRow, DropRow, Save, Inv, TypeOK
      <4> QED  BY <2>2, <3>1, <4>1, <4>2, NoRow DEF Row
    <3> QED  BY <3>2, <3>3
  <2>7. CASE Restart
    <3>1. row'[s] = Interrupted(row[s])
      BY <2>7 DEF Restart
    <3>2. row[s] = Absent => row'[s] = Absent
      BY <3>1 DEF Interrupted
    <3> QED  BY <2>2, <3>1, <3>2, RowInterrupted
  <2>8. ASSUME NEW o \in orphans, OrphanLands(o) PROVE Stands(s)
    <3>1. o.s \in Sessions /\ row' = [row EXCEPT ![o.s] = o.save]
      BY <2>8 DEF OrphanLands, Save, Inv, TypeOK
    <3>2. CASE s # o.s
      BY <2>2, <3>1, <3>2 DEF Inv, TypeOK
    <3>3. CASE s = o.s
      <4>1. row[s] = o.over
        BY <2>8, <3>3 DEF OrphanLands
      <4>2. o.over # Absent /\ o.save.talk >= o.over.talk
        BY <2>1, <3>3 DEF Inv, Orphaned, Overwritten
      <4> QED  BY <2>2, <3>1, <3>3, <4>1, <4>2 DEF Inv, TypeOK
    <3> QED  BY <3>2, <3>3
  <2>9. ASSUME NEW q \in Sessions,
               Request(q) \/ Bodies(q) \/ Strike(q) \/ RecordBegins(q)
                 \/ Works(q) \/ Expire(q)
        PROVE  UNCHANGED row
    BY <2>9 DEF Request, Bodies, Strike, Works, Create, Handle, Ask, Delete,
        SweepStarts, RecordAnswer, AskFails, ClearAsk, FinishPlan, StrikeAsk,
        StrikePlan, RecordBegins, CloneEnds, IndexEnds, Expire, Unsaved
  <2> QED
    BY <2>3, <2>4, <2>5, <2>6, <2>7, <2>8, <2>9 DEF Next, Leaves, Sweeping,
        SweepFiles, SweepTurns, SweepEnds, Unsaved
<1>2. Inv /\ [Next]_vars
        => [\A s \in Sessions \ (raced' \cup undone') : Stands(s)]_vars
  BY <1>1 DEF vars
<1> QED  BY <1>2, Invariant, PTL DEF Spec, WritesKeepWrites

-----------------------------------------------------------------------------
(* The index: what holds of every collection. *)

\* Where two passes meet on a collection, or a pass and its eviction, it is
\* in met.
OneWriter ==
    \A c \in Kept \ met :
        /\ \A t, u \in Active(c) : t = u
        /\ Active(c) # {} => evicting.c # c

\* A collection Qdrant does not have holds nothing.
Unmade == \A c \in Kept \ made : \A f \in Files : points[c][f] = {}

Exact(c, f) == points[c][f] = {manifest[c][f]} \ {0}

\* What a pass has still to embed is part of its plan.
Plans ==
    \A t \in Threads :
        LET p == pass[t]
        IN  /\ p.todo \subseteq Changed(p.old, p.target)
            /\ p.at = "drop" => p.todo = Changed(p.old, p.target)

\* What a pass that nothing disturbed has done so far: what it has dropped or
\* embedded is as it wants it, except the files it has still to embed.
AsPlanned(c, p) ==
    /\ p.at \in {"drop", "embed"} => p.old = manifest[c]
    /\ p.at = "embed" => \A f \in Files :
          points[c][f] = IF f \in p.todo THEN {} ELSE {p.target[f]} \ {0}
    /\ p.at # "embed" => \A f \in Files : Exact(c, f)

Undisturbed ==
    faults = 0 =>
        \A c \in Kept \ met :
            /\ Active(c) = {} /\ (evicting.c = c => c \in made) =>
                  \A f \in Files : Exact(c, f)
            /\ \A t \in Active(c) : AsPlanned(c, pass[t])

\* Content moves forward, and what is gone stays gone.
Reached(f, v) == newest[f] = 0 \/ v <= newest[f]
Passed(f, v) == newest[f] = 0 \/ v < newest[f]

\* While sessions index in the order they cloned in, the shared collection
\* follows the newest clone a pass has begun with: its manifest never leads, and
\* a pass works from it towards a clone that was newest when it began.
Follows ==
    /\ manifest["repo"] # Nothing => "repo" \in ToSet(used)
    /\ ~late =>
          /\ \A f \in Files : Reached(f, manifest["repo"][f])
          /\ \A t \in Preparers : pass[t].at # "idle" =>
                /\ pass[t].at # "done" /\ "repo" \notin met =>
                      /\ pass[t].old = manifest["repo"]
                      /\ \A f \in Files : \/ newest[f] = 0
                                          \/ pass[t].old[f] <= pass[t].target[f]
                /\ \A f \in Files : /\ Reached(f, pass[t].target[f])
                                    /\ pass[t].target[f] = 0 => newest[f] = 0

\* A version the manifest names and the collection lacks is behind that clone,
\* so the next pass embeds the file anew.
Heals ==
    "repo" \notin met /\ ~late =>
        /\ evicting.c # "repo" => \A f \in Files :
              manifest["repo"][f] \in points["repo"][f] \cup {0}
                 \/ Passed(f, manifest["repo"][f])
        /\ \A t \in Preparers : pass[t].at # "idle" => \A f \in Files :
              LET p == pass[t]
              IN  \/ p.target[f] \in points["repo"][f] \cup {0}
                  \/ p.at = "drop" /\ f \in Changed(p.old, p.target)
                  \/ p.at = "embed" /\ f \in p.todo

IndexInv == /\ IndexTypeOK /\ OneWriter /\ Unmade /\ Plans /\ Undisturbed
            /\ Follows /\ Heals

USE DEF clones

-----------------------------------------------------------------------------
(* Sequences and minima *)

LEMMA MinIn ==
    ASSUME NEW S \in SUBSET Nat, S # {}
    PROVE  Min(S) \in S /\ \A y \in S : Min(S) =< y
<1> DEFINE R == OpToRel(<, Nat)
<1>1. \A x, y \in Nat : y < x => <<y, x>> \in R
  BY Zenon DEF OpToRel
<1>2. IsWellFoundedOn(R, Nat)
  BY NatLessThanWellFounded
<1> HIDE DEF R
<1>4. PICK x \in S : \A y \in S : ~(<<y, x>> \in R)
  BY <1>2, WFMin
<1>3. ASSUME NEW y \in S PROVE x =< y
  <2>1. x \in Nat /\ y \in Nat
    OBVIOUS
  <2>2. ~(y < x)
    BY <1>1, <1>4, <2>1, Zenon
  <2> QED  BY <2>1, <2>2
<1> QED  BY <1>3 DEF Min

LEMMA Removed ==
    ASSUME NEW S, NEW s \in Seq(S), NEW e
    PROVE  /\ RemoveFirst(s, e) \in Seq(S)
           /\ ToSet(s) \ {e} \subseteq ToSet(RemoveFirst(s, e))
<1>1. CASE ~\E i \in 1..Len(s) : s[i] = e
  BY <1>1 DEF RemoveFirst
<1>2. CASE \E i \in 1..Len(s) : s[i] = e
  <2> DEFINE I == {i \in 1..Len(s) : s[i] = e}
             m == Min(I)
             a == SubSeq(s, 1, m - 1)
             b == SubSeq(s, m + 1, Len(s))
  <2>1. m \in I
    <3>1. I \in SUBSET Nat /\ I # {}
      BY <1>2
    <3> HIDE DEF I
    <3> QED  BY <3>1, MinIn
  <2>2. RemoveFirst(s, e) = a \o b
    BY <1>2, <2>1 DEF RemoveFirst, RemoveAt, SelectInSeq
  <2> HIDE DEF m
  <2>3. /\ a \in Seq(S) /\ Len(a) = m - 1
        /\ \A i \in 1..m - 1 : a[i] = s[i]
    BY <2>1, SubSeqProperties
  <2>4. /\ b \in Seq(S) /\ Len(b) = Len(s) - m
        /\ \A i \in 1..Len(s) - m : b[i] = s[m + i]
    BY <2>1, SubSeqProperties
  <2> HIDE DEF a, b
  <2>5. /\ a \o b \in Seq(S) /\ Len(a \o b) = Len(s) - 1
        /\ \A i \in 1..Len(s) - 1 :
              (a \o b)[i] = IF i <= m - 1 THEN s[i] ELSE s[i + 1]
    <3>1. Len(a) + Len(b) = Len(s) - 1
      BY <2>1, <2>3, <2>4
    <3>2. /\ a \o b \in Seq(S) /\ Len(a \o b) = Len(s) - 1
          /\ \A i \in 1..Len(s) - 1 : (a \o b)[i] =
                IF i <= m - 1 THEN a[i] ELSE b[i - (m - 1)]
      BY <2>3, <2>4, <3>1, ConcatProperties
    <3>3. ASSUME NEW i \in 1..Len(s) - 1, i > m - 1
          PROVE  b[i - (m - 1)] = s[i + 1]
      BY <2>1, <2>4, <3>3
    <3> QED  BY <2>1, <2>3, <3>2, <3>3
  <2>6. ASSUME NEW i \in 1..Len(s), s[i] # e
        PROVE  \E j \in DOMAIN (a \o b) : (a \o b)[j] = s[i]
    <3>1. CASE i < m
      <4>1. i \in 1..Len(s) - 1 /\ i <= m - 1
        BY <2>1, <3>1
      <4> QED  BY <2>5, <4>1
    <3>2. CASE i > m
      <4> DEFINE j == i - 1
      <4>1. j \in 1..Len(s) - 1 /\ ~(j <= m - 1) /\ j + 1 = i
        BY <2>1, <3>2
      <4> HIDE DEF j
      <4>2. j \in DOMAIN (a \o b) /\ (a \o b)[j] = s[j + 1]
        BY <2>5, <4>1
      <4> QED  BY <4>1, <4>2
    <3>3. i # m /\ m \in Nat
      BY <2>1, <2>6
    <3> QED  BY <3>1, <3>2, <3>3
  <2> HIDE DEF I
  <2> DEFINE r == a \o b
  <2> HIDE DEF r
  <2>7. ASSUME NEW x \in ToSet(s) \ {e} PROVE x \in ToSet(r)
    <3>1. PICK i \in 1..Len(s) : x = s[i]
      BY DEF ToSet
    <3> QED  BY <2>6, <3>1 DEF ToSet, r
  <2> QED  BY <2>2, <2>5, <2>7 DEF r
<1> QED  BY <1>1, <1>2

LEMMA TouchedLast ==
    ASSUME used \in Seq(Collections), NEW c \in Collections
    PROVE  /\ Touched(c) \in Seq(Collections)
           /\ ToSet(used) \cup {c} \subseteq ToSet(Touched(c))
<1> DEFINE r == RemoveFirst(used, c)
<1>1. r \in Seq(Collections) /\ ToSet(used) \ {c} \subseteq ToSet(r)
  BY Removed
<1> HIDE DEF r
<1>2. Append(r, c) \in Seq(Collections)
  BY <1>1
<1>3. ToSet(r) \cup {c} \subseteq ToSet(Append(r, c))
  <2>1. /\ DOMAIN Append(r, c) = 1..Len(r) + 1 /\ Append(r, c)[Len(r) + 1] = c
        /\ DOMAIN r = 1..Len(r) /\ \A i \in DOMAIN r : Append(r, c)[i] = r[i]
        /\ Len(r) \in Nat
    BY <1>1
  <2> QED  BY <2>1 DEF ToSet
<1> QED  BY <1>1, <1>2, <1>3 DEF Touched, r

LEMMA CoolestFirst ==
    ASSUME NEW order \in Seq(Collections)
    PROVE  /\ Evictable(order) \in Seq(Collections)
           /\ Evictable(order) # <<>> =>
                 /\ Head(Evictable(order)) \in Collections
                 /\ Tail(Evictable(order)) \in Seq(Collections)
<1>1. Evictable(order) \in Seq(Collections)
  BY IndexAssumption, SubSeqProperties DEF Evictable
<1> QED  BY <1>1, HeadTailProperties

LEMMA Contents ==
    ASSUME IndexTypeOK
    PROVE  Clone \in Content /\ Overlay(work) \in Content /\ Nothing \in Content
  BY IndexAssumption DEF IndexTypeOK, Clone, Overlay, Content, Nothing, Gone,
      Kept

\* What nobody touches stays as planned.
LEMMA Stable ==
    ASSUME NEW c \in Kept, points'[c] = points[c], manifest'[c] = manifest[c],
           \A t \in Threads : Coll(t) = c => pass'[t] = pass[t]
    PROVE  /\ Active(c)' = Active(c)
           /\ \A f \in Files : Exact(c, f)' <=> Exact(c, f)
           /\ \A t \in Active(c) : AsPlanned(c, pass[t])' <=> AsPlanned(c, pass[t])
  BY DEF Active, Exact, AsPlanned

\* A file is not touched by a plan only if it is already as planned.
LEMMA Planned ==
    ASSUME NEW old \in Content, NEW target \in Content, NEW f \in Files
    PROVE  /\ f \notin Changed(old, target) \cup ToDrop(old, target)
                 <=> old[f] = target[f]
           /\ f \in Changed(old, target) => target[f] # 0
           /\ f \in ToDrop(old, target) \ Changed(old, target) => target[f] = 0
           /\ f \in Changed(old, target) \ ToDrop(old, target) => old[f] = 0
  BY DEF Changed, ToDrop, Content

LEMMA Typed ==
    ASSUME IndexInv, NEW t \in Threads
    PROVE  /\ Coll(t) \in Kept /\ pass[t].old \in Content
           /\ pass[t].target \in Content /\ pass[t].todo \in SUBSET Files
           /\ pass[t].at \in {"idle", "drop", "embed", "done"}
           /\ Coll(t) = "repo" <=> t \in Preparers
  BY IndexAssumption DEF IndexInv, IndexTypeOK, Coll, Kept, Threads

LEMMA Alone ==
    ASSUME IndexInv, "repo" \notin met, NEW t \in Preparers, NEW u \in Preparers,
           pass[t].at # "idle", pass[u].at # "idle"
    PROVE  t = u /\ evicting.c # "repo"
  BY IndexAssumption DEF IndexInv, OneWriter, Active, Threads, Coll, Kept

-----------------------------------------------------------------------------
(* A pass *)

\* A step of a pass that was alone on its collection: if the pass is as
\* planned after it, everything stays undisturbed.
LEMMA PassStep ==
    ASSUME IndexInv, NEW t \in Threads,
           pass[t].at # "idle", pass'[t].at # "idle",
           \A u \in Threads \ {t} : pass'[u] = pass[u],
           \A c \in Kept \ {Coll(t)} : points'[c] = points[c]
                                       /\ manifest'[c] = manifest[c],
           made \subseteq made', made' \subseteq made \cup {Coll(t)},
           UNCHANGED <<evicting, faults, met>>,
           faults = 0 /\ Coll(t) \notin met /\ AsPlanned(Coll(t), pass[t])
              => AsPlanned(Coll(t), pass[t])'
    PROVE  OneWriter' /\ Undisturbed'
<1> DEFINE k == Coll(t)
<1>1. \A c \in Kept : Active(c)' = Active(c)
  BY DEF Active
<1>2. OneWriter'
  BY <1>1 DEF IndexInv, OneWriter
<1>3. ASSUME faults = 0, NEW c \in Kept \ met
      PROVE  /\ Active(c)' = {} /\ (evicting'.c = c => c \in made')
                  => \A f \in Files : Exact(c, f)'
             /\ \A u \in Active(c)' : AsPlanned(c, pass[u])'
  <2>1. CASE c # k
    <3>1. \A f \in Files : Exact(c, f)' <=> Exact(c, f)
      BY <2>1, Stable DEF Exact
    <3>2. \A u \in Active(c) : AsPlanned(c, pass[u])' <=> AsPlanned(c, pass[u])
      <4>1. ASSUME NEW u \in Active(c) PROVE pass'[u] = pass[u]
        BY <2>1 DEF Active
      <4> QED  BY <2>1, <4>1, <3>1 DEF AsPlanned
    <3> QED
      BY <1>1, <1>3, <2>1, <3>1, <3>2 DEF IndexInv, Undisturbed
  <2>2. CASE c = k
    <3>1. t \in Active(c) /\ \A u \in Active(c) : u = t
      BY <2>2 DEF Active, IndexInv, OneWriter
    <3>2. AsPlanned(c, pass[t])
      BY <1>3, <3>1 DEF IndexInv, Undisturbed
    <3> QED  BY <1>1, <1>3, <2>2, <3>1, <3>2
  <2> QED  BY <2>1, <2>2
<1> QED  BY <1>2, <1>3 DEF Undisturbed

LEMMA DropKeeps ==
    ASSUME IndexInv, NEW t \in Threads, Drop(t) PROVE IndexInv'
<1> DEFINE k == Coll(t)  old == pass[t].old  target == pass[t].target
<1>1. /\ pass[t].at = "drop"
      /\ pass' = [pass EXCEPT ![t].at = "embed"]
      /\ UNCHANGED <<moves, head, work, manifest, made, used, evicting, faults,
                     met, clones>>
  BY DEF Drop
<1>2. /\ \A c \in Kept \ {k} : points'[c] = points[c]
      /\ \A f \in Files : points'[k][f] =
            IF f \in ToDrop(old, target) THEN {} ELSE points[k][f]
      /\ points' \in [Kept -> [Files -> SUBSET (1..MaxVersion)]]
  BY Typed DEF Drop, IndexInv, IndexTypeOK
<1>3. /\ \A u \in Threads \ {t} : pass'[u] = pass[u]
      /\ pass'[t] = [pass[t] EXCEPT !.at = "embed"]
      /\ pass'[t].at = "embed" /\ pass'[t].old = old /\ pass'[t].target = target
      /\ pass'[t].todo = pass[t].todo
      /\ pass' \in [Threads -> [at : {"idle", "drop", "embed", "done"},
                      target : Content, old : Content, todo : SUBSET Files]]
  BY <1>1 DEF IndexInv, IndexTypeOK
<1>4. IndexTypeOK'
  BY <1>1, <1>2, <1>3 DEF IndexInv, IndexTypeOK
<1>5. Unmade'
  BY <1>1, <1>2, Typed DEF IndexInv, Unmade
<1>6. OneWriter' /\ Undisturbed'
  <2>1. ASSUME AsPlanned(k, pass[t]) PROVE AsPlanned(k, pass[t])'
    <3>1. pass[t].todo = Changed(old, target)
      BY <1>1 DEF IndexInv, Plans
    <3>2. ASSUME NEW f \in Files PROVE points'[k][f] =
                IF f \in pass[t].todo THEN {} ELSE {target[f]} \ {0}
      <4>1. points[k][f] = {old[f]} \ {0}
        BY <1>1, <2>1 DEF AsPlanned, Exact
      <4>2. /\ points'[k][f] = IF f \in ToDrop(old, target) THEN {} ELSE points[k][f]
            /\ old \in Content /\ target \in Content
        BY <1>2, Typed
      <4>3. /\ f \in Changed(old, target) => points'[k][f] = {}
            /\ f \notin Changed(old, target) => points'[k][f] = {target[f]} \ {0}
        <5> HIDE DEF k, old, target
        <5> QED  BY <4>1, <4>2, Planned
      <4> QED  BY <3>1, <4>3
    <3> QED  BY <1>1, <1>3, <2>1, <3>1, <3>2 DEF AsPlanned
  <2> QED  BY <1>1, <1>2, <1>3, <2>1, PassStep
<1>7. Follows'
  BY <1>1, <1>3 DEF IndexInv, Follows, Reached, Threads
<1>8. Heals'
  <2> SUFFICES ASSUME "repo" \notin met, ~late PROVE Heals'
    BY <1>1 DEF Heals
  <2>1. CASE t = "run"
    BY <1>1, <1>2, <1>3, <2>1, IndexAssumption
       DEF IndexInv, Heals, Passed, Coll, Threads, Kept
  <2>2. CASE t \in Preparers
    <3>1. k = "repo" /\ old = manifest["repo"]
      BY <1>1, <2>2, Typed DEF IndexInv, Follows
    <3>2. ASSUME NEW f \in Files, f \in ToDrop(old, target)
          PROVE  /\ Passed(f, old[f])
                 /\ target[f] = 0 \/ f \in Changed(old, target)
      <4>1. /\ Reached(f, target[f]) /\ (newest[f] = 0 \/ old[f] <= target[f])
            /\ target[f] = 0 => newest[f] = 0
        BY <1>1, <2>2 DEF IndexInv, Follows
      <4>2. /\ old[f] \in Nat /\ target[f] \in Nat /\ newest[f] \in Nat
            /\ old[f] # target[f]
        BY <3>2, Typed, IndexAssumption
           DEF ToDrop, IndexInv, IndexTypeOK, Content
      <4> HIDE DEF old, target
      <4> QED  BY <4>1, <4>2 DEF Reached, Passed, Changed
    <3>3. \A f \in Files :
             target[f] \in points[k][f] \cup {0} \/ f \in Changed(old, target)
      BY <1>1, <2>2, <3>1 DEF IndexInv, Heals
    <3>4. evicting.c # "repo" => \A f \in Files :
             manifest["repo"][f] \in points[k][f] \cup {0}
                \/ Passed(f, manifest["repo"][f])
      BY <3>1 DEF IndexInv, Heals
    <3>5. pass[t].todo = Changed(old, target)
      BY <1>1 DEF IndexInv, Plans
    <3>6. \A f \in Files :
             Passed(f, manifest["repo"][f])' <=> Passed(f, manifest["repo"][f])
      BY <1>1 DEF Passed
    <3>7. ASSUME NEW u \in Preparers, pass'[u].at # "idle" PROVE u = t
      BY <1>1, <1>3, <2>2, <3>7, Alone DEF Threads
    <3> HIDE DEF k, old, target
    <3> QED
      BY <1>1, <1>2, <1>3, <2>2, <3>1, <3>2, <3>3, <3>4, <3>5, <3>6, <3>7
         DEF Heals
  <2> QED  BY <2>1, <2>2 DEF Threads
<1>9. Plans'
  BY <1>1, <1>3 DEF IndexInv, Plans
<1> QED  BY <1>4, <1>5, <1>6, <1>7, <1>8, <1>9 DEF IndexInv

LEMMA UpsertKeeps ==
    ASSUME IndexInv, NEW t \in Threads, Upsert(t) PROVE IndexInv'
<1> DEFINE k == Coll(t)  old == pass[t].old  target == pass[t].target
           todo == pass[t].todo  g == Min(todo)
<1>1. /\ pass[t].at = "embed" /\ todo # {}
      /\ pass' = [pass EXCEPT ![t].todo = todo \ {g}]
      /\ points' = [points EXCEPT ![k][g] = @ \cup {target[g]}]
      /\ made' = made \cup {k}
      /\ UNCHANGED <<moves, head, work, manifest, used, evicting, faults, met,
                     clones>>
  BY DEF Upsert
<1>2. /\ g \in todo /\ g \in Files /\ g \in Changed(old, target)
      /\ target[g] \in 1..MaxVersion
  <2>1. todo \in SUBSET Nat /\ todo # {} /\ todo \subseteq Files
    BY <1>1, Typed, IndexAssumption
  <2>2. g \in todo
    <3> HIDE DEF todo
    <3> QED  BY <2>1, MinIn
  <2>3. g \in Changed(old, target)
    BY <2>2 DEF IndexInv, Plans
  <2> HIDE DEF g
  <2> QED  BY <2>1, <2>2, <2>3, Typed, IndexAssumption DEF Changed, Content
<1> HIDE DEF g
<1>3. /\ \A c \in Kept \ {k} : points'[c] = points[c]
      /\ \A f \in Files : points'[k][f] =
            IF f = g THEN points[k][f] \cup {target[g]} ELSE points[k][f]
      /\ points' \in [Kept -> [Files -> SUBSET (1..MaxVersion)]]
  BY <1>1, <1>2, Typed DEF IndexInv, IndexTypeOK
<1>4. /\ \A u \in Threads \ {t} : pass'[u] = pass[u]
      /\ pass'[t].at = "embed" /\ pass'[t].old = old /\ pass'[t].target = target
      /\ pass'[t].todo = todo \ {g}
      /\ pass' \in [Threads -> [at : {"idle", "drop", "embed", "done"},
                      target : Content, old : Content, todo : SUBSET Files]]
  BY <1>1 DEF IndexInv, IndexTypeOK
<1>5. IndexTypeOK'
  BY <1>1, <1>3, <1>4, Typed DEF IndexInv, IndexTypeOK, Collections
<1>6. Unmade'
  BY <1>1, <1>3, Typed DEF IndexInv, Unmade
<1>7. Plans'
  BY <1>1, <1>4 DEF IndexInv, Plans
<1>8. OneWriter' /\ Undisturbed'
  <2>1. ASSUME AsPlanned(k, pass[t]) PROVE AsPlanned(k, pass[t])'
    <3>1. \A f \in Files :
             points[k][f] = IF f \in todo THEN {} ELSE {target[f]} \ {0}
      BY <1>1, <2>1 DEF AsPlanned
    <3>2. \A f \in Files :
             points'[k][f] = IF f \in todo \ {g} THEN {} ELSE {target[f]} \ {0}
      <4>1. target[g] # 0
        BY <1>2
      <4>2. points[k][g] = {}
        BY <1>2, <3>1
      <4>3. points'[k][g] = {target[g]} \ {0}
        BY <1>2, <1>3, <4>1, <4>2
      <4> QED  BY <1>3, <3>1, <4>3
    <3> QED  BY <1>1, <1>4, <2>1, <3>2 DEF AsPlanned
  <2> QED  BY <1>1, <1>3, <1>4, <2>1, PassStep
<1>9. Follows'
  BY <1>1, <1>4 DEF IndexInv, Follows, Reached, Threads
<1>10. Heals'
  <2>1. /\ \A f \in Files : points["repo"][f] \subseteq points'["repo"][f]
        /\ \A f \in Files :
              Passed(f, manifest["repo"][f])' <=> Passed(f, manifest["repo"][f])
    BY <1>1, <1>3 DEF Passed, Kept
  <2>2. t \in Preparers => target[g] \in points'["repo"][g]
    BY <1>2, <1>3, Typed
  <2>3. \A u \in Preparers : u \in Threads /\ (u = t \/ pass'[u] = pass[u])
    BY <1>4 DEF Threads
  <2>4. ASSUME "repo" \notin met, ~late, evicting.c # "repo", NEW f \in Files
        PROVE  \/ manifest["repo"][f] \in points'["repo"][f] \cup {0}
               \/ Passed(f, manifest["repo"][f])
    BY <2>1, <2>4 DEF IndexInv, Heals
  <2>5. ASSUME "repo" \notin met, ~late, NEW u \in Preparers,
               pass'[u].at # "idle", NEW f \in Files
        PROVE  \/ pass'[u].target[f] \in points'["repo"][f] \cup {0}
               \/ pass'[u].at = "drop"
                    /\ f \in Changed(pass'[u].old, pass'[u].target)
               \/ pass'[u].at = "embed" /\ f \in pass'[u].todo
    <3>1. \/ pass[u].target[f] \in points["repo"][f] \cup {0}
          \/ pass[u].at = "drop" /\ f \in Changed(pass[u].old, pass[u].target)
          \/ pass[u].at = "embed" /\ f \in pass[u].todo
      BY <1>1, <2>3, <2>5 DEF IndexInv, Heals
    <3>2. CASE u # t
      BY <2>1, <2>3, <3>1, <3>2
    <3>3. CASE u = t
      BY <1>1, <1>4, <2>1, <2>2, <2>5, <3>1, <3>3
    <3> QED  BY <3>2, <3>3
  <2> QED  BY <1>1, <2>1, <2>4, <2>5 DEF Heals
<1> QED  BY <1>5, <1>6, <1>7, <1>8, <1>9, <1>10 DEF IndexInv

LEMMA ApplyKeeps ==
    ASSUME IndexInv, NEW t \in Threads, Apply(t) PROVE IndexInv'
<1> DEFINE k == Coll(t)  old == pass[t].old  target == pass[t].target
           delta == Changed(old, target) \cup ToDrop(old, target)
<1>1. /\ pass[t].at = "embed" /\ pass[t].todo = {}
      /\ pass' = [pass EXCEPT ![t] = Done(target)] /\ used' = Touched(k)
      /\ manifest' = [manifest EXCEPT ![k] =
            [f \in Files |-> IF f \in delta THEN target[f] ELSE @[f]]]
      /\ UNCHANGED <<moves, head, work, points, made, evicting, faults, met,
                     clones>>
  BY DEF Apply
<1>2. /\ \A c \in Kept \ {k} : manifest'[c] = manifest[c]
      /\ \A f \in Files :
            manifest'[k][f] = IF f \in delta THEN target[f] ELSE manifest[k][f]
      /\ manifest' \in [Kept -> Content]
  BY <1>1, Typed DEF IndexInv, IndexTypeOK, Content
<1>3. /\ \A u \in Threads \ {t} : pass'[u] = pass[u]
      /\ pass'[t].at = "done" /\ pass'[t].target = target
      /\ pass'[t].todo = {}
      /\ pass' \in [Threads -> [at : {"idle", "drop", "embed", "done"},
                      target : Content, old : Content, todo : SUBSET Files]]
  BY <1>1, Contents, Typed DEF IndexInv, IndexTypeOK, Done, NoPass
<1>4. used' \in Seq(Collections) /\ ToSet(used) \cup {k} \subseteq ToSet(used')
  BY <1>1, TouchedLast, Typed DEF IndexInv, IndexTypeOK, Collections
<1>5. IndexTypeOK'
  BY <1>1, <1>2, <1>3, <1>4 DEF IndexInv, IndexTypeOK
<1>6. Unmade' /\ Plans'
  BY <1>1, <1>3 DEF IndexInv, Unmade, Plans
<1>7. ASSUME k \notin met, old = manifest[k], NEW f \in Files
      PROVE  manifest'[k][f] = target[f]
  <2> HIDE DEF k, old, target
  <2>1. old \in Content /\ target \in Content
    BY Typed DEF old, target
  <2> QED  BY <1>2, <1>7, <2>1, Planned
<1>8. OneWriter' /\ Undisturbed'
  <2>1. ASSUME k \notin met, AsPlanned(k, pass[t]) PROVE AsPlanned(k, pass[t])'
    <3>1. \A f \in Files : points[k][f] = {target[f]} \ {0}
      BY <1>1, <2>1 DEF AsPlanned
    <3>2. old = manifest[k]
      BY <1>1, <2>1 DEF AsPlanned
    <3> QED
      BY <1>1, <1>3, <1>7, <2>1, <3>1, <3>2 DEF AsPlanned, Exact
  <2> QED  BY <1>1, <1>2, <1>3, <2>1, PassStep
<1>9. Follows'
  <2>1. /\ ~late => \A f \in Files : Reached(f, manifest'["repo"][f])
        /\ manifest'["repo"] # Nothing => "repo" \in ToSet(used')
    <3>1. CASE t = "run"
      BY <1>1, <1>2, <1>4, <3>1 DEF IndexInv, Follows, Kept, Coll
    <3>2. CASE t \in Preparers
      <4>1. k = "repo"
        BY <3>2, Typed
      <4>2. ~late => \A f \in Files : Reached(f, target[f])
        BY <1>1, <3>2 DEF IndexInv, Follows
      <4> QED  BY <1>1, <1>2, <1>4, <4>1, <4>2 DEF IndexInv, Follows
    <3> QED  BY <3>1, <3>2 DEF Threads
  <2>2. ASSUME NEW u \in Preparers, pass'[u].at # "idle"
        PROVE  /\ pass'[u].at # "done" /\ "repo" \notin met =>
                     pass'[u] = pass[u] /\ manifest'["repo"] = manifest["repo"]
               /\ pass'[u].target = pass[u].target /\ pass[u].at # "idle"
    <3>1. CASE t \in Preparers
      BY <1>1, <1>3, <2>2, <3>1, Alone DEF Threads
    <3>2. CASE t = "run"
      BY <1>2, <1>3, <2>2, <3>2, IndexAssumption DEF Threads, Coll, Kept
    <3> QED  BY <3>1, <3>2 DEF Threads
  <2>3. ASSUME ~late, NEW u \in Preparers, pass'[u].at # "idle"
        PROVE  /\ pass'[u].at # "done" /\ "repo" \notin met =>
                     /\ pass'[u].old = manifest'["repo"]
                     /\ \A f \in Files :
                           \/ newest[f] = 0
                           \/ pass'[u].old[f] <= pass'[u].target[f]
               /\ \A f \in Files : /\ Reached(f, pass'[u].target[f])
                                   /\ pass'[u].target[f] = 0 => newest[f] = 0
    BY <2>2, <2>3 DEF IndexInv, Follows
  <2> QED  BY <1>1, <2>1, <2>3 DEF Follows, Reached
<1>10. Heals'
  <2> SUFFICES ASSUME "repo" \notin met, ~late PROVE Heals'
    BY <1>1 DEF Heals
  <2>1. \A f \in Files, v \in Nat : Passed(f, v)' <=> Passed(f, v)
    BY <1>1 DEF Passed
  <2>2. CASE t = "run"
    <3>1. /\ manifest'["repo"] = manifest["repo"]
          /\ \A u \in Preparers : pass'[u] = pass[u]
      BY <1>2, <1>3, <2>2, IndexAssumption DEF Threads, Coll, Kept
    <3>2. \A f \in Files : manifest["repo"][f] \in Nat
      BY IndexAssumption DEF Kept, IndexInv, IndexTypeOK, Content
    <3> QED  BY <1>1, <2>1, <3>1, <3>2 DEF IndexInv, Heals
  <2>3. CASE t \in Preparers
    <3>1. k = "repo" /\ old = manifest[k]
      BY <1>1, <2>3, Typed DEF IndexInv, Follows
    <3>2. \A f \in Files : target[f] \in points["repo"][f] \cup {0}
      BY <1>1, <2>3 DEF IndexInv, Heals
    <3>3. ASSUME NEW u \in Preparers, pass'[u].at # "idle" PROVE u = t
      BY <1>1, <1>3, <2>3, <3>3, Alone DEF Threads
    <3> QED  BY <1>1, <1>3, <1>7, <3>1, <3>2, <3>3 DEF Heals
  <2> QED  BY <2>2, <2>3 DEF Threads
<1> QED  BY <1>5, <1>6, <1>8, <1>9, <1>10 DEF IndexInv

LEMMA PassFailsKeeps ==
    ASSUME IndexInv, NEW t \in Threads, PassFails(t) PROVE IndexInv'
<1>1. /\ pass[t].at \in {"drop", "embed"} /\ faults' = faults + 1
      /\ faults' \in 0..MaxFaults /\ faults' # 0
      /\ UNCHANGED <<moves, head, work, manifest, points, made, used, evicting,
                     met, clones>>
  BY IndexAssumption DEF PassFails, IndexInv, IndexTypeOK
<1>2. /\ \A u \in Threads \ {t} : pass'[u] = pass[u]
      /\ pass'[t] = NoPass /\ NoPass.at = "idle" /\ NoPass.todo = {}
      /\ pass' \in [Threads -> [at : {"idle", "drop", "embed", "done"},
                      target : Content, old : Content, todo : SUBSET Files]]
  BY Contents DEF PassFails, IndexInv, IndexTypeOK, NoPass
<1>3. IndexTypeOK'
  BY <1>1, <1>2 DEF IndexInv, IndexTypeOK
<1>4. OneWriter' /\ Unmade'
  BY <1>1, <1>2 DEF IndexInv, OneWriter, Unmade, Active
<1>5. Plans'
  BY <1>2 DEF IndexInv, Plans
<1>6. Undisturbed'
  BY <1>1 DEF Undisturbed
<1>7. Follows'
  BY <1>1, <1>2 DEF IndexInv, Follows, Reached, Threads
<1>8. Heals'
  BY <1>1, <1>2 DEF IndexInv, Heals, Passed, Threads
<1> QED  BY <1>3, <1>4, <1>5, <1>6, <1>7, <1>8 DEF IndexInv

LEMMA BeginKeeps ==
    ASSUME IndexInv, NEW t \in Threads, NEW target \in Content,
           Begin(t, target), clone' \in [Preparers -> Content],
           IF t \in Preparers
           THEN IF Overtaken(target) THEN late' = TRUE /\ newest' = newest
                ELSE late' = late /\ newest' = target
           ELSE late' = late /\ newest' = newest,
           UNCHANGED <<moves, head, work, manifest, points, made, evicting,
                       faults>>
    PROVE  IndexInv'
<1> DEFINE k == Coll(t)  old == manifest[k]
<1>1. /\ pass[t].at = "idle" /\ k \in Kept /\ old \in Content
      /\ met \subseteq met' /\ met' \subseteq met \cup {k}
      /\ k \notin met' => Active(k) = {} /\ evicting.c # k
  BY Typed DEF Begin, IndexInv, IndexTypeOK
<1>2. /\ \A u \in Threads \ {t} : pass'[u] = pass[u]
      /\ pass'[t].at \in {"drop", "done"}
      /\ pass'[t].at = "drop" => pass'[t].old = old
      /\ pass'[t].target = target /\ pass'[t].todo = Changed(old, target)
      /\ pass'[t].at = "done" => Changed(old, target) = {}
      /\ pass' \in [Threads -> [at : {"idle", "drop", "embed", "done"},
                      target : Content, old : Content, todo : SUBSET Files]]
  <2>1. Changed(old, target) \subseteq Files
    BY DEF Changed
  <2> QED
    BY <1>1, <2>1, Contents DEF Begin, Done, NoPass, IndexInv, IndexTypeOK
<1>3. used' \in Seq(Collections) /\ ToSet(used) \subseteq ToSet(used')
  BY <1>1, TouchedLast DEF Begin, IndexInv, IndexTypeOK, Collections
<1>4. IndexTypeOK'
  BY <1>1, <1>2, <1>3 DEF IndexInv, IndexTypeOK
<1>5. OneWriter'
  <2>1. \A c \in Kept \ {k} : Active(c)' = Active(c)
    BY <1>2 DEF Active
  <2>2. k \notin met' => Active(k)' = {t}
    BY <1>1, <1>2 DEF Active
  <2> QED  BY <1>1, <2>1, <2>2 DEF IndexInv, OneWriter
<1>6. Unmade' /\ Plans'
  BY <1>2 DEF IndexInv, Unmade, Plans
<1>7. Undisturbed'
  <2> SUFFICES ASSUME faults = 0, NEW c \in Kept \ met'
               PROVE  /\ Active(c)' = {} /\ (evicting.c = c => c \in made)
                           => \A f \in Files : Exact(c, f)'
                      /\ \A u \in Active(c)' : AsPlanned(c, pass[u])'
    BY DEF Undisturbed
  <2>1. CASE c # k
    <3>1. /\ Active(c)' = Active(c) /\ c \notin met
          /\ \A f \in Files : Exact(c, f)' <=> Exact(c, f)
          /\ \A u \in Active(c) : AsPlanned(c, pass[u])' <=> AsPlanned(c, pass[u])
      BY <1>1, <1>2, <2>1, Stable
    <3> QED  BY <3>1 DEF IndexInv, Undisturbed
  <2>2. CASE c = k
    <3>1. Active(c)' = {t}
      BY <1>1, <1>2, <2>2 DEF Active
    <3>2. \A f \in Files : Exact(c, f)'
      BY <1>1, <2>2 DEF IndexInv, Undisturbed, Exact
    <3>3. AsPlanned(c, pass[t])'
      BY <1>2, <2>2, <3>2 DEF AsPlanned
    <3> QED  BY <3>1, <3>2, <3>3
  <2> QED  BY <2>1, <2>2
<1>8. /\ newest' \in Content /\ late' \in BOOLEAN /\ late => late'
      /\ t \notin Preparers => newest' = newest
  BY DEF IndexInv, IndexTypeOK
<1>9. ASSUME ~late', NEW f \in Files, NEW v \in Nat
      PROVE  /\ Reached(f, v) => Reached(f, v)'
             /\ Passed(f, v) => Passed(f, v)'
             /\ newest[f] = 0 => newest'[f] = 0
             /\ t \in Preparers => newest'[f] = target[f]
             /\ t \in Preparers /\ target[f] # 0 =>
                   newest[f] # 0 /\ newest[f] <= target[f]
  <2>1. newest[f] \in Nat /\ target[f] \in Nat
    BY IndexAssumption DEF IndexInv, IndexTypeOK, Content
  <2>2. t \in Preparers => newest' = target /\ ~Overtaken(target)
    BY <1>9
  <2>3. t \in Preparers /\ target[f] # 0 =>
           newest[f] # 0 /\ newest[f] <= target[f]
    BY <2>1, <2>2 DEF Overtaken
  <2> QED  BY <1>8, <2>1, <2>2, <2>3 DEF Reached, Passed
<1>10. ASSUME t \in Preparers, NEW f \in Files
       PROVE  /\ k = "repo" /\ old[f] = manifest["repo"][f] /\ old[f] \in Nat
              /\ target[f] \in Nat /\ newest[f] \in Nat
  <2>1. k = "repo"
    BY <1>10, Typed
  <2>2. newest \in Content /\ manifest["repo"] \in Content
    BY DEF IndexInv, IndexTypeOK, Kept
  <2> QED  BY <2>1, <2>2, IndexAssumption DEF Content
<1>11. \A u \in Preparers : /\ u \in Threads /\ (u = t \/ pass'[u] = pass[u])
                            /\ \A f \in Files : pass[u].target[f] \in Nat
  BY <1>2, IndexAssumption DEF Threads, IndexInv, IndexTypeOK, Content
<1>12. \A f \in Files : manifest["repo"][f] \in Nat
  BY IndexAssumption DEF IndexInv, IndexTypeOK, Content, Kept
<1>13. Follows'
  <2> DEFINE Later(f, v) == newest'[f] = 0 \/ v <= newest'[f]
  <2>1. manifest'["repo"] # Nothing => "repo" \in ToSet(used')
    BY <1>3 DEF IndexInv, Follows
  <2> SUFFICES ASSUME ~late'
               PROVE  /\ \A f \in Files : Later(f, manifest["repo"][f])
                      /\ \A u \in Preparers : pass'[u].at # "idle" =>
                            /\ pass'[u].at # "done" /\ "repo" \notin met' =>
                                  /\ pass'[u].old = manifest["repo"]
                                  /\ \A f \in Files :
                                        \/ newest'[f] = 0
                                        \/ pass'[u].old[f] <= pass'[u].target[f]
                            /\ \A f \in Files :
                                  /\ Later(f, pass'[u].target[f])
                                  /\ pass'[u].target[f] = 0 => newest'[f] = 0
    BY <2>1 DEF Follows, Reached
  <2>2. ~late
    BY <1>8
  <2>3. \A f \in Files : Later(f, manifest["repo"][f])
    BY <1>9, <1>12, <2>2 DEF IndexInv, Follows, Reached
  <2>4. ASSUME NEW u \in Preparers, u # t, pass'[u].at # "idle"
        PROVE  /\ pass'[u].at # "done" /\ "repo" \notin met' =>
                     /\ pass'[u].old = manifest["repo"]
                     /\ \A f \in Files : \/ newest'[f] = 0
                                         \/ pass'[u].old[f] <= pass'[u].target[f]
               /\ \A f \in Files : /\ Later(f, pass'[u].target[f])
                                   /\ pass'[u].target[f] = 0 => newest'[f] = 0
    <3>1. pass'[u] = pass[u] /\ \A f \in Files : pass[u].target[f] \in Nat
      BY <1>11, <2>4
    <3>2. /\ pass[u].at # "done" /\ "repo" \notin met =>
                /\ pass[u].old = manifest["repo"]
                /\ \A f \in Files : \/ newest[f] = 0
                                    \/ pass[u].old[f] <= pass[u].target[f]
          /\ \A f \in Files : /\ Reached(f, pass[u].target[f])
                              /\ pass[u].target[f] = 0 => newest[f] = 0
      BY <2>2, <2>4, <3>1 DEF IndexInv, Follows
    <3>3. \A f \in Files : /\ Later(f, pass[u].target[f])
                           /\ newest[f] = 0 => newest'[f] = 0
      BY <1>9, <3>1, <3>2 DEF Reached
    <3> QED  BY <1>1, <3>1, <3>2, <3>3
  <2>5. ASSUME t \in Preparers
        PROVE  /\ pass'[t].at # "done" =>
                     /\ pass'[t].old = manifest["repo"]
                     /\ \A f \in Files : \/ newest'[f] = 0
                                         \/ pass'[t].old[f] <= pass'[t].target[f]
               /\ \A f \in Files : /\ Later(f, pass'[t].target[f])
                                   /\ pass'[t].target[f] = 0 => newest'[f] = 0
    <3>1. \A f \in Files :
             /\ newest'[f] = target[f] /\ target[f] \in Nat /\ old[f] \in Nat
             /\ Later(f, old[f])
      BY <1>9, <1>10, <2>3, <2>5
    <3>2. old = manifest["repo"]
      BY <2>5, Typed
    <3> QED  BY <1>2, <3>1, <3>2
  <2> QED  BY <1>11, <2>3, <2>4, <2>5
<1>14. Heals'
  <2> SUFFICES ASSUME "repo" \notin met', ~late' PROVE Heals'
    BY DEF Heals
  <2>1. "repo" \notin met /\ ~late
    BY <1>1, <1>8
  <2>2. ASSUME t \in Preparers, NEW f \in Files
        PROVE  target[f] \in points["repo"][f] \cup {0} \/ f \in Changed(old, target)
    <3>1. \/ manifest["repo"][f] \in points["repo"][f] \cup {0}
          \/ Passed(f, manifest["repo"][f])
      BY <1>1, <1>10, <2>1, <2>2 DEF IndexInv, Heals
    <3>2. old[f] = manifest["repo"][f] /\ old[f] \in Nat /\ target[f] \in Nat
          /\ newest[f] \in Nat
      BY <1>10, <2>2
    <3>3. target[f] # 0 => newest[f] # 0 /\ newest[f] <= target[f]
      BY <1>9, <2>2, <3>2
    <3> HIDE DEF old, k
    <3> QED  BY <3>1, <3>2, <3>3 DEF Changed, Passed
  <2>3. \A f \in Files :
           evicting.c # "repo" => \/ manifest["repo"][f] \in points["repo"][f] \cup {0}
                                  \/ Passed(f, manifest["repo"][f])'
    BY <1>9, <1>12, <2>1 DEF IndexInv, Heals
  <2>4. ASSUME NEW u \in Preparers, u # t, pass'[u].at # "idle", NEW f \in Files
        PROVE  \/ pass'[u].target[f] \in points["repo"][f] \cup {0}
               \/ pass'[u].at = "drop"
                    /\ f \in Changed(pass'[u].old, pass'[u].target)
               \/ pass'[u].at = "embed" /\ f \in pass'[u].todo
    BY <1>11, <2>1, <2>4 DEF IndexInv, Heals
  <2>5. ASSUME t \in Preparers, NEW f \in Files
        PROVE  \/ pass'[t].target[f] \in points["repo"][f] \cup {0}
               \/ pass'[t].at = "drop"
                    /\ f \in Changed(pass'[t].old, pass'[t].target)
    BY <1>2, <2>2, <2>5
  <2> QED  BY <2>3, <2>4, <2>5 DEF Heals
<1> QED  BY <1>4, <1>5, <1>6, <1>7, <1>13, <1>14 DEF IndexInv

LEMMA IndexingKeeps ==
    ASSUME IndexInv, (\E s \in Preparers : IndexShared(s)) \/ IndexOverlay
    PROVE  IndexInv'
<1>1. /\ Overlay(work) \in Content /\ Nothing \in Content
      /\ clone \in [Preparers -> Content]
  BY Contents DEF IndexInv, IndexTypeOK
<1>2. ASSUME NEW s \in Preparers, IndexShared(s) PROVE IndexInv'
  <2>1. clone[s] \in Content /\ clone' \in [Preparers -> Content]
    BY <1>1, <1>2 DEF IndexShared
  <2> QED  BY <1>2, <2>1, BeginKeeps DEF IndexShared, Threads
<1>3. CASE IndexOverlay
  <2>1. "run" \in Threads /\ "run" \notin Preparers
    BY IndexAssumption DEF Threads
  <2> QED  BY <1>1, <1>3, <2>1, BeginKeeps DEF IndexOverlay
<1> QED  BY <1>2, <1>3

-----------------------------------------------------------------------------
(* Eviction *)

\* Evictions that start or go on, and passes that end, leave every collection
\* as its manifest says, or meet whoever writes to it.
LEMMA EvictionMoves ==
    ASSUME IndexInv, UNCHANGED <<points, faults>>,
           \A t \in Threads : \/ pass'[t] = pass[t]
                              \/ pass[t].at = "done" /\ pass'[t] = NoPass,
           \A c \in Kept :
              \/ manifest'[c] = manifest[c]
                    /\ (evicting.c = c => evicting'.c = c)
              \/ evicting.c = c /\ c \notin made /\ manifest'[c] = Nothing,
           made' \cap Kept \subseteq made, met \subseteq met',
           \A c \in Kept :
              evicting'.c = c /\ evicting' # evicting /\ Active(c)' # {}
                 => c \in met'
    PROVE  OneWriter' /\ Undisturbed'
<1>1. ASSUME NEW c \in Kept
      PROVE  /\ Active(c)' \subseteq Active(c)
             /\ \A t \in Active(c)' : pass'[t] = pass[t]
             /\ \A t \in Active(c) \ Active(c)' : pass[t].at = "done"
  BY DEF Active, NoPass
<1>2. ASSUME NEW c \in Kept \ met', Active(c)' # {}
      PROVE  evicting'.c # c /\ evicting.c # c /\ manifest'[c] = manifest[c]
  <2>1. Active(c) # {} /\ c \notin met
    BY <1>1, <1>2
  <2>2. evicting.c # c
    BY <2>1 DEF IndexInv, OneWriter
  <2> QED  BY <1>2, <2>2
<1>3. OneWriter'
  BY <1>1, <1>2 DEF IndexInv, OneWriter
<1>4. ASSUME faults = 0, NEW c \in Kept \ met', Active(c)' = {},
             evicting'.c = c => c \in made', NEW f \in Files
      PROVE  Exact(c, f)'
  <2>1. CASE evicting.c = c /\ c \notin made /\ manifest'[c] = Nothing
    <3>1. points[c][f] = {} /\ manifest'[c][f] = 0
      BY <2>1 DEF IndexInv, Unmade, Nothing
    <3> QED  BY <3>1 DEF Exact
  <2>2. CASE manifest'[c] = manifest[c] /\ (evicting.c = c => evicting'.c = c)
    <3>1. Exact(c, f)
      <4>1. CASE Active(c) = {}
        BY <1>4, <2>2, <4>1 DEF IndexInv, Undisturbed
      <4>2. CASE Active(c) # {}
        <5>1. PICK t \in Active(c) : pass[t].at = "done"
          BY <1>1, <1>4, <4>2
        <5> QED  BY <1>4, <5>1 DEF IndexInv, Undisturbed, AsPlanned
      <4> QED  BY <4>1, <4>2
    <3> QED  BY <2>2, <3>1 DEF Exact
  <2> QED  BY <2>1, <2>2
<1>5. ASSUME faults = 0, NEW c \in Kept \ met', NEW t \in Active(c)'
      PROVE  AsPlanned(c, pass[t])'
  <2>1. manifest'[c] = manifest[c] /\ pass'[t] = pass[t] /\ t \in Active(c)
    BY <1>1, <1>2, <1>5
  <2>2. AsPlanned(c, pass[t])
    BY <1>5, <2>1 DEF IndexInv, Undisturbed
  <2> QED  BY <2>1, <2>2 DEF AsPlanned, Exact
<1>6. Undisturbed'
  BY <1>4, <1>5 DEF Undisturbed
<1> QED  BY <1>3, <1>6

LEMMA PassEndsKeeps ==
    ASSUME IndexInv, NEW t \in Threads, PassEnds(t) PROVE IndexInv'
<1>1. /\ pass[t].at = "done"
      /\ UNCHANGED <<moves, head, work, manifest, points, made, used, faults,
                     clones>>
      /\ evicting' = evicting \/ evicting = NoEviction
  BY DEF PassEnds, StartEviction
<1>2. /\ \A u \in Threads \ {t} : pass'[u] = pass[u]
      /\ pass'[t] = NoPass /\ NoPass.at = "idle" /\ NoPass.todo = {}
      /\ pass' \in [Threads -> [at : {"idle", "drop", "embed", "done"},
                      target : Content, old : Content, todo : SUBSET Files]]
  BY Contents DEF PassEnds, IndexInv, IndexTypeOK, NoPass
<1>3. /\ evicting'.c \in Collections \cup {"none"}
      /\ evicting'.left \in Seq(Collections)
  <2>1. used \in Seq(Collections) /\ <<>> \in Seq(Collections)
        /\ evicting.c \in Collections \cup {"none"}
        /\ evicting.left \in Seq(Collections)
    BY DEF IndexInv, IndexTypeOK
  <2>2. evicting' = evicting \/ StartEviction(used)
    BY DEF PassEnds
  <2>3. ASSUME StartEviction(used)
        PROVE  /\ evicting'.c \in Collections \cup {"none"}
               /\ evicting'.left \in Seq(Collections)
    BY <2>1, <2>3, CoolestFirst DEF StartEviction, NoEviction
  <2> QED  BY <2>1, <2>2, <2>3
<1>4. /\ met \subseteq met' /\ met' \subseteq Kept
      /\ \A c \in Kept : evicting'.c = c /\ evicting' # evicting
            /\ Active(c) \ {t} # {} => c \in met'
  BY DEF PassEnds, IndexInv, IndexTypeOK
<1>5. IndexTypeOK'
  BY <1>1, <1>2, <1>3, <1>4 DEF IndexInv, IndexTypeOK
<1>6. Unmade' /\ Plans'
  BY <1>1, <1>2 DEF IndexInv, Unmade, Plans
<1>7. OneWriter' /\ Undisturbed'
  <2>1. \A c \in Kept : Active(c)' \subseteq Active(c) \ {t}
    BY <1>2 DEF Active
  <2>2. \A c \in Kept : evicting.c = c => evicting'.c = c
    BY <1>1 DEF NoEviction, Kept
  <2> QED  BY <1>1, <1>2, <1>4, <2>1, <2>2, EvictionMoves
<1>8. Follows'
  BY <1>1, <1>2, <1>4 DEF IndexInv, Follows, Reached, Threads
<1>9. Heals'
  <2>1. evicting'.c # "repo" => evicting.c # "repo"
    BY <1>1 DEF NoEviction
  <2> QED  BY <1>1, <1>2, <1>4, <2>1 DEF IndexInv, Heals, Passed, Threads
<1> QED  BY <1>5, <1>6, <1>7, <1>8, <1>9 DEF IndexInv

LEMMA OtherIndexedKeeps ==
    ASSUME IndexInv, OtherIndexed PROVE IndexInv'
<1>1. /\ UNCHANGED <<head, work, manifest, points, pass, faults, clones>>
      /\ evicting = NoEviction /\ made' = made \cup {"other"}
      /\ moves' \in 0..MaxMoves
  BY IndexAssumption DEF OtherIndexed, StartEviction, IndexInv, IndexTypeOK
<1>2. used' \in Seq(Collections) /\ ToSet(used) \subseteq ToSet(used')
  BY TouchedLast DEF OtherIndexed, IndexInv, IndexTypeOK, Collections
<1>3. /\ evicting'.c \in Collections \cup {"none"}
      /\ evicting'.left \in Seq(Collections)
  BY <1>2, CoolestFirst DEF OtherIndexed, StartEviction, NoEviction
<1>4. /\ met \subseteq met' /\ met' \subseteq Kept
      /\ \A c \in Kept : evicting'.c = c /\ Active(c) # {} => c \in met'
  BY DEF OtherIndexed, IndexInv, IndexTypeOK
<1>5. \A c \in Kept : Active(c)' = Active(c) /\ c # "other" /\ evicting.c # c
  BY <1>1 DEF Active, Kept, NoEviction
<1>6. IndexTypeOK'
  BY <1>1, <1>2, <1>3, <1>4 DEF IndexInv, IndexTypeOK, Collections
<1>7. Unmade' /\ Plans'
  BY <1>1 DEF IndexInv, Unmade, Plans
<1>8. OneWriter' /\ Undisturbed'
  BY <1>1, <1>4, <1>5, EvictionMoves
<1>9. Follows'
  BY <1>1, <1>2, <1>4 DEF IndexInv, Follows, Reached
<1>10. Heals'
  BY <1>1, <1>4, <1>5 DEF IndexInv, Heals, Passed, Kept
<1> QED  BY <1>6, <1>7, <1>8, <1>9, <1>10 DEF IndexInv

LEMMA DropCollectionKeeps ==
    ASSUME IndexInv, DropCollection PROVE IndexInv'
<1>1. /\ evicting.c \in made /\ made' = made \ {evicting.c}
      /\ UNCHANGED <<moves, head, work, manifest, used, pass, evicting, faults,
                     met, clones>>
  BY DEF DropCollection
<1>2. /\ \A c \in Kept \ {evicting.c} : points'[c] = points[c]
      /\ \A c \in Kept, f \in Files : c = evicting.c => points'[c][f] = {}
      /\ points' \in [Kept -> [Files -> SUBSET (1..MaxVersion)]]
  BY DEF DropCollection, IndexInv, IndexTypeOK
<1>3. \A c \in Kept : Active(c)' = Active(c)
  BY <1>1 DEF Active
<1>4. IndexTypeOK'
  BY <1>1, <1>2 DEF IndexInv, IndexTypeOK
<1>5. OneWriter' /\ Unmade' /\ Plans'
  BY <1>1, <1>2, <1>3 DEF IndexInv, OneWriter, Unmade, Plans
<1>6. Undisturbed'
  <2> SUFFICES ASSUME faults = 0, NEW c \in Kept \ met
               PROVE  /\ Active(c) = {} /\ (evicting.c = c => c \in made')
                           => \A f \in Files : Exact(c, f)'
                      /\ \A u \in Active(c) : AsPlanned(c, pass[u])'
    BY <1>1, <1>3 DEF Undisturbed
  <2>1. CASE c # evicting.c
    <3>1. /\ \A f \in Files : Exact(c, f)' <=> Exact(c, f)
          /\ \A u \in Active(c) : AsPlanned(c, pass[u])' <=> AsPlanned(c, pass[u])
      BY <1>1, <1>2, <2>1, Stable
    <3> QED  BY <2>1, <3>1 DEF IndexInv, Undisturbed
  <2>2. CASE c = evicting.c
    BY <1>1, <2>2 DEF IndexInv, OneWriter
  <2> QED  BY <2>1, <2>2
<1>7. Follows'
  BY <1>1 DEF IndexInv, Follows, Reached
<1>8. Heals'
  <2>1. CASE evicting.c # "repo"
    BY <1>1, <1>2, <2>1 DEF IndexInv, Heals, Passed, Kept
  <2>2. CASE evicting.c = "repo"
    <3>1. ASSUME "repo" \notin met, NEW u \in Preparers
          PROVE  pass[u].at = "idle"
      BY <2>2, <3>1, Alone
    <3> QED  BY <1>1, <2>2, <3>1 DEF Heals
  <2> QED  BY <2>1, <2>2
<1> QED  BY <1>4, <1>5, <1>6, <1>7, <1>8 DEF IndexInv

LEMMA ForgetKeeps ==
    ASSUME IndexInv, Forget PROVE IndexInv'
<1>1. /\ evicting.c \notin made \cup {"none"} /\ evicting.c \in Collections
      /\ UNCHANGED <<moves, head, work, points, made, pass, faults, clones>>
  BY DEF Forget, IndexInv, IndexTypeOK
<1>2. /\ \A c \in Kept \ {evicting.c} : manifest'[c] = manifest[c]
      /\ \A c \in Kept : c = evicting.c => manifest'[c] = Nothing
      /\ manifest' \in [Kept -> Content]
  BY Contents DEF Forget, IndexInv, IndexTypeOK
<1>3. /\ used' \in Seq(Collections)
      /\ ToSet(used) \ {evicting.c} \subseteq ToSet(used')
  BY Removed DEF Forget, IndexInv, IndexTypeOK
<1>4. /\ evicting'.c \in Collections \cup {"none"}
      /\ evicting'.left \in Seq(Collections)
  BY HeadTailProperties DEF Forget, IndexInv, IndexTypeOK, NoEviction
<1>5. /\ met \subseteq met' /\ met' \subseteq Kept
      /\ \A c \in Kept : evicting'.c = c /\ Active(c) # {} => c \in met'
  BY DEF Forget, IndexInv, IndexTypeOK
<1>6. \A c \in Kept : Active(c)' = Active(c)
  BY <1>1 DEF Active
<1>7. IndexTypeOK'
  BY <1>1, <1>2, <1>3, <1>4, <1>5 DEF IndexInv, IndexTypeOK
<1>8. Unmade' /\ Plans'
  BY <1>1 DEF IndexInv, Unmade, Plans
<1>9. OneWriter' /\ Undisturbed'
  BY <1>1, <1>2, <1>5, <1>6, EvictionMoves
<1>10. Follows'
  <2>1. CASE evicting.c # "repo"
    BY <1>1, <1>2, <1>3, <1>5, <2>1 DEF IndexInv, Follows, Reached, Kept
  <2>2. CASE evicting.c = "repo"
    <3>1. \A f \in Files : manifest'["repo"][f] = 0 /\ Reached(f, 0)
      BY <1>2, <2>2, IndexAssumption
         DEF Kept, Nothing, IndexInv, IndexTypeOK, Follows, Reached, Content
    <3>2. ASSUME "repo" \notin met', NEW u \in Preparers
          PROVE  pass[u].at = "idle"
      BY <1>5, <2>2, <3>2, Alone
    <3> QED
      BY <1>1, <1>2, <2>2, <3>1, <3>2 DEF IndexInv, Follows, Reached, Kept
  <2> QED  BY <2>1, <2>2
<1>11. Heals'
  <2>1. CASE evicting.c # "repo"
    BY <1>1, <1>2, <1>5, <2>1 DEF IndexInv, Heals, Passed, Kept
  <2>2. CASE evicting.c = "repo"
    <3>1. ASSUME "repo" \notin met, NEW u \in Preparers
          PROVE  pass[u].at = "idle"
      BY <2>2, <3>1, Alone
    <3>2. \A f \in Files : manifest'["repo"][f] = 0
      BY <1>2, <2>2 DEF Kept, Nothing
    <3> QED  BY <1>1, <1>5, <2>2, <3>1, <3>2 DEF Heals
  <2> QED  BY <2>1, <2>2
<1> QED  BY <1>7, <1>8, <1>9, <1>10, <1>11 DEF IndexInv

-----------------------------------------------------------------------------
(* The repository, the run and the process *)

\* What touches neither the collections nor the passes leaves their relation.
LEMMA Rests ==
    ASSUME IndexInv, UNCHANGED <<manifest, points, made, pass, evicting, faults, met>>
    PROVE  OneWriter' /\ Unmade' /\ Plans' /\ Undisturbed'
<1>1. Unmade' /\ Plans'
  BY DEF IndexInv, Unmade, Plans
<1>2. OneWriter' /\ Undisturbed'
  BY EvictionMoves DEF Active
<1> QED  BY <1>1, <1>2

LEMMA ClonedKeeps ==
    ASSUME IndexInv, NEW s \in Preparers, Cloned(s) PROVE IndexInv'
<1>1. /\ clone' \in [Preparers -> Content]
      /\ UNCHANGED <<moves, head, work, manifest, points, made, used, pass,
                     evicting, faults, met, newest, late>>
  BY Contents DEF Cloned, IndexInv, IndexTypeOK
<1>2. IndexTypeOK'
  BY <1>1 DEF IndexInv, IndexTypeOK
<1>3. OneWriter' /\ Unmade' /\ Plans' /\ Undisturbed'
  BY <1>1, Rests
<1>4. Follows' /\ Heals'
  BY <1>1 DEF IndexInv, Follows, Heals, Reached, Passed
<1> QED  BY <1>2, <1>3, <1>4 DEF IndexInv

LEMMA PushKeeps ==
    ASSUME IndexInv, NEW f \in Files, NEW v \in Gone..MaxVersion, Push(f, v)
    PROVE  IndexInv'
<1>1. /\ moves' \in 0..MaxMoves /\ head' \in [Files -> Gone..MaxVersion]
      /\ UNCHANGED <<work, manifest, points, made, used, pass, evicting, faults,
                     met, clones>>
  BY IndexAssumption DEF Push, IndexInv, IndexTypeOK
<1>2. IndexTypeOK'
  BY <1>1 DEF IndexInv, IndexTypeOK
<1>3. OneWriter' /\ Unmade' /\ Plans' /\ Undisturbed'
  BY <1>1, Rests
<1>4. Follows' /\ Heals'
  BY <1>1 DEF IndexInv, Follows, Heals, Reached, Passed
<1> QED  BY <1>2, <1>3, <1>4 DEF IndexInv

LEMMA WorkKeeps ==
    ASSUME IndexInv, RunStarts \/ \E f \in Files : CoderWrites(f)
    PROVE  IndexInv'
<1>1. /\ moves < MaxMoves /\ moves' = moves + 1
      /\ UNCHANGED <<head, manifest, points, made, used, pass, evicting, faults,
                     met, clones>>
  BY DEF RunStarts, CoderWrites
<1>2. work' \in Content
  <2>1. CASE RunStarts
    BY <2>1, Contents DEF RunStarts, IndexInv
  <2>2. ASSUME NEW f \in Files, CoderWrites(f) PROVE work' \in Content
    <3>1. work[f] \in Nat /\ work[f] < MaxVersion /\ MaxVersion \in Nat
      BY <2>2, IndexAssumption DEF CoderWrites, IndexInv, IndexTypeOK, Content
    <3>2. work[f] + 1 \in 0..MaxVersion
      BY <3>1
    <3> QED  BY <2>2, <3>2 DEF CoderWrites, IndexInv, IndexTypeOK, Content
  <2> QED  BY <2>1, <2>2
<1>3. IndexTypeOK'
  BY <1>1, <1>2, IndexAssumption DEF IndexInv, IndexTypeOK
<1>4. OneWriter' /\ Unmade' /\ Plans' /\ Undisturbed'
  BY <1>1, Rests
<1>5. Follows' /\ Heals'
  BY <1>1 DEF IndexInv, Follows, Heals, Reached, Passed
<1> QED  BY <1>3, <1>4, <1>5 DEF IndexInv

LEMMA RunEndsKeeps ==
    ASSUME IndexInv, RunEnds PROVE IndexInv'
<1>1. /\ work' \in Content /\ pass["run"].at = "idle" /\ evicting = NoEviction
      /\ evicting' = [c |-> "run", left |-> <<>>]
      /\ UNCHANGED <<moves, head, manifest, points, made, used, pass, faults,
                     met, clones>>
  BY Contents DEF RunEnds, IndexInv
<1>2. \A c \in Kept : Active(c)' = Active(c) /\ evicting.c # c
  BY <1>1 DEF Active, Kept, NoEviction
<1>3. Active("run") = {}
  BY <1>1, IndexAssumption DEF Active, Coll, Threads
<1>4. IndexTypeOK' /\ Unmade' /\ Plans'
  BY <1>1 DEF IndexInv, IndexTypeOK, Unmade, Plans, Collections, Kept
<1>5. OneWriter' /\ Undisturbed'
  BY <1>1, <1>2, <1>3, EvictionMoves
<1>6. Follows' /\ Heals'
  BY <1>1, <1>2 DEF IndexInv, Follows, Heals, Reached, Passed, Kept
<1> QED  BY <1>4, <1>5, <1>6 DEF IndexInv

LEMMA CrashKeeps ==
    ASSUME IndexInv, Crash PROVE IndexInv'
<1>1. /\ faults' \in 0..MaxFaults /\ faults' # 0 /\ work' \in Content
      /\ pass' = [t \in Threads |-> NoPass] /\ evicting' = NoEviction
      /\ made' = made \cap ToSet(used) /\ met' = met \cup ({evicting.c} \cap Kept)
      /\ clone' \in [Preparers -> Content]
      /\ UNCHANGED <<moves, head, manifest, used, newest, late>>
  BY Contents, IndexAssumption DEF Crash, IndexInv, IndexTypeOK
<1>2. /\ \A c \in Kept : IF c \in made' THEN points'[c] = points[c]
                         ELSE \A f \in Files : points'[c][f] = {}
      /\ points' \in [Kept -> [Files -> SUBSET (1..MaxVersion)]]
  BY DEF Crash, IndexInv, IndexTypeOK
<1>3. /\ NoPass.at = "idle" /\ NoPass.todo = {} /\ NoEviction.c = "none"
      /\ NoPass \in [at : {"idle", "drop", "embed", "done"},
                     target : Content, old : Content, todo : SUBSET Files]
  BY Contents DEF NoPass, NoEviction, IndexInv
<1>4. IndexTypeOK'
  <2>1. <<>> \in Seq(Collections) /\ NoEviction.left = <<>>
    BY DEF NoEviction
  <2> QED  BY <1>1, <1>2, <1>3, <2>1 DEF IndexInv, IndexTypeOK
<1>5. OneWriter' /\ Unmade' /\ Plans' /\ Undisturbed'
  BY <1>1, <1>2, <1>3 DEF OneWriter, Unmade, Plans, Undisturbed, Active
<1>6. \A t \in Preparers : pass'[t].at = "idle"
  BY <1>1, <1>3 DEF Threads
<1>7. Follows'
  BY <1>1, <1>6 DEF IndexInv, Follows, Reached
<1>8. Heals'
  <2> SUFFICES ASSUME "repo" \notin met', ~late, NEW f \in Files
               PROVE  \/ manifest["repo"][f] \in points'["repo"][f] \cup {0}
                      \/ Passed(f, manifest["repo"][f])
    BY <1>1, <1>6 DEF Heals, Passed
  <2>1. evicting.c # "repo" /\ "repo" \notin met
    BY <1>1 DEF Kept
  <2>2. \/ manifest["repo"][f] \in points["repo"][f] \cup {0}
        \/ Passed(f, manifest["repo"][f])
    BY <2>1 DEF IndexInv, Heals
  <2>3. CASE "repo" \in made'
    BY <1>2, <2>2, <2>3 DEF Kept
  <2>4. CASE "repo" \notin made
    BY <1>1, <1>2, <2>2, <2>4 DEF IndexInv, Unmade, Kept
  <2>5. CASE "repo" \notin ToSet(used)
    BY <2>5 DEF IndexInv, Follows, Nothing
  <2> QED  BY <1>1, <2>3, <2>4, <2>5
<1> QED  BY <1>4, <1>5, <1>7, <1>8 DEF IndexInv

-----------------------------------------------------------------------------
(* The invariant and the theorems of the index *)

LEMMA IndexInitInv == IndexInit => IndexInv
<1> SUFFICES ASSUME IndexInit PROVE IndexInv
  OBVIOUS
<1>1. /\ Nothing \in Content /\ <<>> \in Seq(Collections)
      /\ NoEviction.c = "none" /\ NoEviction.left = <<>>
      /\ NoPass.at = "idle" /\ NoPass.todo = {}
      /\ NoPass \in [at : {"idle", "drop", "embed", "done"},
                     target : Content, old : Content, todo : SUBSET Files]
  BY IndexAssumption DEF Nothing, Content, NoEviction, NoPass
<1>2. IndexTypeOK
  <2>1. newest \in Content /\ clone \in [Preparers -> Content] /\ late = FALSE
    BY <1>1, IndexAssumption DEF IndexInit, Content
  <2>2. head \in [Files -> Gone..MaxVersion] /\ manifest \in [Kept -> Content]
    BY <1>1, IndexAssumption DEF IndexInit, Gone
  <2>3. points \in [Kept -> [Files -> SUBSET (1..MaxVersion)]]
    BY DEF IndexInit
  <2>4. 0 \in 0..MaxFaults /\ 0 \in 0..MaxMoves
    BY IndexAssumption
  <2> QED  BY <1>1, <2>1, <2>2, <2>3, <2>4 DEF IndexInit, IndexTypeOK
<1>3. OneWriter /\ Unmade /\ Plans
  BY <1>1 DEF IndexInit, OneWriter, Unmade, Plans, Active, Kept
<1>4. Undisturbed
  BY <1>1 DEF IndexInit, Undisturbed, Active, Exact, Nothing, Kept
<1>5. \A f \in Files : newest[f] = 1 /\ manifest["repo"][f] = 0
  BY DEF IndexInit, Nothing, Kept
<1>6. manifest["repo"] = Nothing /\ \A t \in Preparers : pass[t].at = "idle"
  BY <1>1 DEF IndexInit, Kept, Threads
<1>7. Follows /\ Heals
  BY <1>5, <1>6 DEF Follows, Heals, Reached
<1> QED  BY <1>2, <1>3, <1>4, <1>7 DEF IndexInv

LEMMA IndexStepInv == IndexInv /\ [IndexNext]_indexVars => IndexInv'
<1> SUFFICES ASSUME IndexInv, [IndexNext]_indexVars PROVE IndexInv'
  OBVIOUS
<1>1. CASE UNCHANGED indexVars
  <2>1. IndexTypeOK'
    BY <1>1 DEF indexVars, IndexInv, IndexTypeOK
  <2>2. OneWriter' /\ Unmade' /\ Plans' /\ Undisturbed'
    BY <1>1, Rests DEF indexVars
  <2>3. Follows'
    BY <1>1 DEF indexVars, IndexInv, Follows, Reached
  <2>4. Heals'
    BY <1>1 DEF indexVars, IndexInv, Heals, Passed
  <2> QED  BY <2>1, <2>2, <2>3, <2>4 DEF IndexInv
<1>2. CASE IndexNext
  BY <1>2, ClonedKeeps, IndexingKeeps, DropKeeps, UpsertKeeps, ApplyKeeps,
     PassFailsKeeps, PassEndsKeeps, OtherIndexedKeeps, DropCollectionKeeps, ForgetKeeps,
     PushKeeps, WorkKeeps, RunEndsKeeps, CrashKeeps DEF IndexNext
<1> QED  BY <1>1, <1>2

LEMMA IndexInvariant == IndexSpec => []IndexInv
  BY IndexInitInv, IndexStepInv, PTL DEF IndexSpec

\* Head, manifest, collections and passes keep their types.
THEOREM IndexTyped == IndexSpec => []IndexTypeOK
<1>1. IndexInv => IndexTypeOK
  BY DEF IndexInv
<1> QED  BY <1>1, IndexInvariant, PTL

\* While no pass fails and no writers meet, a collection at rest holds the
\* points its manifest names, and no others.
THEOREM StoreKept == IndexSpec => []StoreMatchesManifest
<1>1. IndexInv => StoreMatchesManifest
  BY DEF IndexInv, StoreMatchesManifest, Undisturbed, Exact
<1> QED  BY <1>1, IndexInvariant, PTL

\* However many passes failed before, one on the shared collection that ends
\* and met nobody leaves points for every file of its clone, as long as no
\* session indexes an older clone than one that was indexed before.
THEOREM PassesHeal == IndexSpec => []PassHeals
<1>1. IndexInv => PassHeals
  BY DEF IndexInv, PassHeals, Heals
<1> QED  BY <1>1, IndexInvariant, PTL
=============================================================================
