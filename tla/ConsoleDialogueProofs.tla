------------------------ MODULE ConsoleDialogueProofs ------------------------
(***************************************************************************)
(* The safety properties of one console session, for every set of          *)
(* questions and every bound.                                              *)
(*                                                                         *)
(* What the properties say of the stored row has to be known of every copy *)
(* of it that may yet be written: the one its holder is saving and those   *)
(* that struck tasks left to their threads.  WellFormed says it of one     *)
(* such row; Grows compares a copy with the row it was made from, which is *)
(* still the stored one unless a late save has undone something.           *)
(***************************************************************************)
EXTENDS ConsoleDialogue, TLAPS

\* What is true of a session whoever wrote it.
WellFormed(r) ==
    /\ r.answers \subseteq r.questions
    /\ r.status = "collecting" => r.questions = {}
    /\ r.status \in {"collecting", "clarifying"} => ~r.confirmed
    /\ r.status = "ready" => r.answers = r.questions
    /\ r.confirmed => r.agreed = r.round /\ r.answers = r.questions
    /\ r.status \in Started => r.confirmed

\* A writer keeps what the row it loaded already held.
Grows(old, new) ==
    /\ IsPrefix(old.msgs, new.msgs)
    /\ old.answers \cup old.prior \subseteq new.answers \cup new.prior
    /\ old.status \in Terminal => new.status \in Terminal

\* A session is completed only when its plan is stored, and the library keeps
\* what it stored.
Backed(r) == r.status = "completed" => library

RowsAreSound ==
    /\ WellFormed(row) /\ WellFormed(copy)
    /\ \A o \in orphans : WellFormed(o.save)

RowsAreBacked ==
    /\ Backed(row) /\ Backed(copy)
    /\ \A o \in orphans : Backed(o.save)
    /\ aim = "completed" => library

\* Who holds the lock is saving, and a question is stored before its body is
\* submitted.
Bodies ==
    /\ holder = "ask" => ask \in {"saving", "clearSaving"}
    /\ holder = "plan" => plan = "finSaving"
    /\ ask # "none" => asked > 0
    /\ holder = "webAsk" => asked < MaxAsks

\* A copy was made from the row that is stored now; only _finish changes the
\* outcome of a session that has one.
CopiesGrow ==
    ~undone =>
        /\ holder # "free" => Grows(row, copy)
        /\ \A o \in orphans : Grows(o.over, o.save)
        /\ holder \notin {"free", "plan"} /\ row.status \in Terminal
              => copy.status = row.status

Inv == TypeOK /\ RowsAreSound /\ RowsAreBacked /\ Bodies /\ CopiesGrow

-----------------------------------------------------------------------------
(* What the handlers make of the row they loaded *)

\* A sequence is a prefix of itself and of what is appended to it.
LEMMA PrefixGrows ==
    ASSUME NEW S, NEW s \in Seq(S), NEW t \in Seq(S)
    PROVE  IsPrefix(s, s) /\ IsPrefix(s, s \o t)
<1>1. IsPrefix(s, s)
  BY DEF IsPrefix
<1>2. IsPrefix(s, s \o t)
  <2>1. Len(s) <= Len(s \o t)
    OBVIOUS
  <2>2. SubSeq(s, 1, Len(s)) = SubSeq(s \o t, 1, Len(s))
    OBVIOUS
  <2> QED
    BY <2>1, <2>2 DEF IsPrefix
<1> QED
  BY <1>1, <1>2

\* A new round of questions is a new understanding: what was answered moves to
\* the prior rounds and the confirmation is gone.
LEMMA ClarifyingMakes ==
    ASSUME DialogueAssumption, NEW asks \in Interpreted,
           row \in Row, WellFormed(row), row.round < MaxRounds,
           row.status \notin Started \cup Terminal
    PROVE  LET c == Clarifying(Rolled, asks)
           IN  /\ c \in Row /\ WellFormed(c) /\ Grows(row, c)
               /\ c.status \notin Terminal
<1> USE DialogueAssumption
<1>1. Rolled \in Row /\ Rolled.msgs = row.msgs
  <2>1. row.round \in Rounds /\ row.round + 1 \in Rounds
    BY DEF Row, Rounds
  <2>2. row.prior \cup (row.answers \cap row.questions) \in SUBSET Ids
    BY DEF Row
  <2> QED
    BY <2>1, <2>2 DEF Rolled, Row
<1>2. row.answers \cup row.prior \subseteq Rolled.answers \cup Rolled.prior
  BY DEF Rolled, Rolls, Row, WellFormed
<1>3. Rolled.answers = {}
  BY DEF Rolled, Rolls, Row, WellFormed, Started, Terminal
<1> DEFINE c == Clarifying(Rolled, asks)
           said == <<<<"user", 0>>, <<"clarify", 0>>>>
<1>4. said \in Seq(Turns)
  BY DEF Turns
<1>5. {<<Rolled.round, q>> : q \in asks} \in SUBSET Ids
  BY <1>1 DEF Ids, Interpreted, Row
<1>6. c \in Row
  <2>1. Rolled.msgs \o said \in Seq(Turns)
    BY <1>1, <1>4 DEF Row
  <2>2. (IF asks = {} THEN "ready" ELSE "clarifying")
           \in {"collecting", "clarifying", "ready"} \cup Started \cup Terminal
    OBVIOUS
  <2>3. (IF Rolls THEN FALSE ELSE Rolled.confirmed) \in BOOLEAN
    BY <1>1 DEF Row
  <2> HIDE DEF said
  <2> QED
    BY <1>1, <1>5, <2>1, <2>2, <2>3 DEF Clarifying, Row, said
<1>7. /\ c.msgs = row.msgs \o said
      /\ c.answers = Rolled.answers /\ c.prior = Rolled.prior
      /\ c.questions = {<<Rolled.round, q>> : q \in asks}
      /\ c.status = IF asks = {} THEN "ready" ELSE "clarifying"
      /\ c.confirmed = IF Rolls THEN FALSE ELSE Rolled.confirmed
  BY <1>1 DEF Clarifying, Row
<1>8. ~c.confirmed
  BY <1>7 DEF Rolls, Rolled, WellFormed, Row, Started, Terminal
<1>9. WellFormed(c)
  BY <1>3, <1>7, <1>8 DEF WellFormed, Started
<1>10. Grows(row, c)
  <2>1. IsPrefix(row.msgs, c.msgs)
    <3>1. row.msgs \in Seq(Turns)
      BY DEF Row
    <3>2. IsPrefix(row.msgs, row.msgs \o said)
      BY <3>1, <1>4, PrefixGrows
    <3> QED
      BY <3>2, <1>7
  <2> QED
    BY <1>2, <1>7, <2>1 DEF Grows, Started, Terminal
<1> QED
  BY <1>6, <1>7, <1>9, <1>10 DEF Terminal

\* An accepted answer answers a question of the open round, and the last one
\* makes the session ready.
LEMMA AnsweredMakes ==
    ASSUME row \in Row, WellFormed(row), row.status = "clarifying",
           NEW given \in SUBSET Ids, Acceptable(given)
    PROVE  LET c == Answered(given)
           IN  /\ c \in Row /\ WellFormed(c) /\ Grows(row, c)
               /\ c.status \notin Terminal
<1> DEFINE c == Answered(given)
<1>1. /\ c.answers = row.answers \cup given
      /\ c.status = IF row.questions \subseteq row.answers \cup given
                    THEN "ready" ELSE "clarifying"
      /\ c.questions = row.questions /\ c.confirmed = row.confirmed
      /\ c.msgs = row.msgs /\ c.prior = row.prior
  BY DEF Answered, Row
<1>2. c \in Row
  BY DEF Answered, Row
<1>3. WellFormed(c)
  BY <1>1 DEF WellFormed, Acceptable, Started
<1>4. Grows(row, c)
  BY <1>1, PrefixGrows DEF Grows, Row, Terminal
<1> QED
  BY <1>1, <1>2, <1>3, <1>4 DEF Terminal

\* Confirm, and then the plan run: what is started was confirmed.
LEMMA ConfirmMakes ==
    ASSUME row \in Row, WellFormed(row), row.status = "ready"
    PROVE  LET c == [row EXCEPT !.confirmed = TRUE, !.agreed = row.round]
           IN  /\ c \in Row /\ WellFormed(c) /\ Grows(row, c)
               /\ c.status \notin Terminal
<1> DEFINE c == [row EXCEPT !.confirmed = TRUE, !.agreed = row.round]
<1>1. c \in Row /\ c.status = "ready"
  BY DEF Row
<1>2. WellFormed(c)
  BY DEF WellFormed, Started, Row
<1>3. Grows(row, c)
  BY PrefixGrows DEF Grows, Row, Terminal
<1> QED
  BY <1>1, <1>2, <1>3 DEF Terminal

\* What a started run stores is a sound successor of the row it read.
LEMMA StartMakes ==
    ASSUME row \in Row, WellFormed(row), row.status = "ready", row.confirmed,
           NEW status \in Started
    PROVE  LET c == [row EXCEPT !.planned = TRUE, !.result = FALSE,
                                !.status = status]
           IN  /\ c \in Row /\ WellFormed(c) /\ Grows(row, c)
               /\ c.status \notin Terminal
<1> DEFINE c == [row EXCEPT !.planned = TRUE, !.result = FALSE,
                            !.status = status]
<1>1. c \in Row /\ c.status = status
  BY DEF Row, Started
<1>2. WellFormed(c)
  BY DEF WellFormed, Started, Row
<1>3. Grows(row, c)
  BY PrefixGrows DEF Grows, Row, Terminal
<1> QED
  BY <1>1, <1>2, <1>3 DEF Terminal, Started

\* An outcome may be written over any status.
LEMMA EndMakes ==
    ASSUME row \in Row, WellFormed(row),
           NEW outcome \in Terminal, NEW result \in BOOLEAN
    PROVE  LET c == [row EXCEPT !.status = outcome, !.result = result]
           IN  c \in Row /\ WellFormed(c) /\ Grows(row, c)
<1> DEFINE c == [row EXCEPT !.status = outcome, !.result = result]
<1>1. c \in Row /\ c.status = outcome
  BY DEF Row
<1>2. WellFormed(c)
  BY DEF WellFormed, Started, Row, Terminal
<1>3. Grows(row, c)
  BY PrefixGrows DEF Grows, Row, Terminal
<1> QED
  BY <1>1, <1>2, <1>3

\* A question and an answer are appended to the conversation.
LEMMA SpeechMakes ==
    ASSUME row \in Row, WellFormed(row), NEW turn \in Turns
    PROVE  LET c == [row EXCEPT !.msgs = Append(@, turn)]
           IN  /\ c \in Row /\ WellFormed(c) /\ Grows(row, c)
               /\ c.status = row.status
<1> DEFINE c == [row EXCEPT !.msgs = Append(@, turn)]
<1>1. c \in Row /\ c.status = row.status
  <2>1. Append(row.msgs, turn) \in Seq(Turns)
    BY DEF Row
  <2> QED
    BY <2>1 DEF Row
<1>2. WellFormed(c)
  BY DEF WellFormed, Row
<1>3. IsPrefix(row.msgs, c.msgs)
  <2>1. row.msgs \in Seq(Turns) /\ <<turn>> \in Seq(Turns)
    BY DEF Row
  <2>2. c.msgs = row.msgs \o <<turn>>
    BY <2>1 DEF Row
  <2> QED
    BY <2>1, <2>2, PrefixGrows
<1>4. Grows(row, c)
  BY <1>1, <1>3 DEF Grows, Row
<1> QED
  BY <1>1, <1>2, <1>4

\* Saving the row as it was loaded.
LEMMA SameMakes ==
    ASSUME NEW r \in Row
    PROVE  Grows(r, r)
BY PrefixGrows DEF Grows, Row

-----------------------------------------------------------------------------
(* The steps *)

\* A handler or a body has loaded the row and made its copy.
Made ==
    /\ row' = row /\ copy' \in Row /\ WellFormed(copy') /\ Backed(copy')
    /\ Grows(row, copy')
    /\ holder' # "plan" /\ row.status \in Terminal => copy'.status = row.status

Makers == \/ PostMessage \/ SubmitAnswers \/ Confirm \/ StartPlan
          \/ CancelSession \/ Ask \/ RecordAnswer \/ ClearAsk \/ Finish

\* Every copy that will be saved is sound and keeps what the row held.
LEMMA CopiesAreMade ==
    ASSUME Inv, Makers PROVE Made
<1> USE DialogueAssumption
<1>0. row \in Row /\ WellFormed(row) /\ Backed(row)
  BY DEF Inv, TypeOK, RowsAreSound, RowsAreBacked
<1>1. CASE PostMessage
  <2>1. PICK asks \in Interpreted : Hold("web", Clarifying(Rolled, asks))
    BY <1>1 DEF PostMessage
  <2> DEFINE c == Clarifying(Rolled, asks)
  <2>2. /\ c \in Row /\ WellFormed(c) /\ Grows(row, c)
        /\ c.status \notin Terminal
    BY <1>0, <1>1, ClarifyingMakes DEF PostMessage
  <2>3. row' = row /\ copy' = c /\ row.status \notin Terminal
    BY <1>1, <2>1 DEF PostMessage, Hold
  <2> QED
    BY <2>2, <2>3 DEF Made, Backed, Terminal
<1>2. CASE SubmitAnswers
  <2>1. PICK given \in SUBSET Ids :
           Acceptable(given) /\ Hold("web", Answered(given))
    BY <1>2 DEF SubmitAnswers
  <2> DEFINE c == Answered(given)
  <2>2. /\ c \in Row /\ WellFormed(c) /\ Grows(row, c)
        /\ c.status \notin Terminal
    BY <1>0, <1>2, <2>1, AnsweredMakes DEF SubmitAnswers
  <2>3. row' = row /\ copy' = c /\ row.status \notin Terminal
    BY <1>2, <2>1 DEF SubmitAnswers, Hold, Terminal
  <2> QED
    BY <2>2, <2>3 DEF Made, Backed, Terminal
<1>3. CASE Confirm
  <2> DEFINE c == [row EXCEPT !.confirmed = TRUE, !.agreed = row.round]
  <2>1. /\ c \in Row /\ WellFormed(c) /\ Grows(row, c)
        /\ c.status \notin Terminal
    BY <1>0, <1>3, ConfirmMakes DEF Confirm
  <2>2. row' = row /\ copy' = c /\ row.status \notin Terminal
    BY <1>3 DEF Confirm, Hold, Terminal
  <2> QED
    BY <2>1, <2>2 DEF Made, Backed, Terminal
<1>4. CASE StartPlan
  <2> DEFINE status == IF SlotBusy \/ ask = "queued" THEN "queued"
                       ELSE "running"
             c == [row EXCEPT !.planned = TRUE, !.result = FALSE,
                              !.status = status]
  <2>1. status \in Started
    BY DEF Started
  <2>2. row.status = "ready" /\ row.confirmed
    BY <1>4 DEF StartPlan
  <2>3. row' = row /\ copy' = c
    BY <1>4 DEF StartPlan, Hold
  <2> HIDE DEF status
  <2>4. /\ c \in Row /\ WellFormed(c) /\ Grows(row, c)
        /\ c.status \notin Terminal
    BY <1>0, <2>1, <2>2, StartMakes
  <2> QED
    BY <2>2, <2>3, <2>4 DEF Made, Backed, Terminal
<1>5. CASE CancelSession
  <2>1. row' = row /\ row.status \notin Terminal
    BY <1>5 DEF CancelSession
  <2>2. CASE plan \in PlanAdmitted
    <3>1. copy' = row
      BY <1>5, <2>2 DEF CancelSession, Hold
    <3> QED
      BY <1>0, <2>1, <3>1, SameMakes DEF Made
  <2>3. CASE plan \notin PlanAdmitted
    <3> DEFINE c == [row EXCEPT !.status = "cancelled", !.result = row.result]
    <3>1. copy' = [row EXCEPT !.status = "cancelled"]
      BY <1>5, <2>3 DEF CancelSession, Hold
    <3>2. c = copy' /\ c.status = "cancelled" /\ row.result \in BOOLEAN
      BY <1>0, <3>1 DEF Row
    <3>3. c \in Row /\ WellFormed(c) /\ Grows(row, c)
      BY <1>0, <3>2, EndMakes DEF Terminal
    <3> QED
      BY <2>1, <3>2, <3>3 DEF Made, Backed
  <2> QED
    BY <2>2, <2>3
<1>6. CASE Ask
  <2> DEFINE turn == <<"question", asked + 1>>
             c == [row EXCEPT !.msgs = Append(@, turn)]
  <2>1. turn \in Turns
    BY <1>6 DEF Ask, Turns, Inv, TypeOK
  <2>2. row' = row /\ copy' = c
    BY <1>6 DEF Ask, Hold
  <2> HIDE DEF turn
  <2>3. /\ c \in Row /\ WellFormed(c) /\ Grows(row, c)
        /\ c.status = row.status
    BY <1>0, <2>1, SpeechMakes
  <2> QED
    BY <1>0, <2>2, <2>3 DEF Made, Backed
<1>7. CASE RecordAnswer
  <2> DEFINE turn == <<"answer", asked>>
             c == [row EXCEPT !.msgs = Append(@, turn)]
  <2>1. turn \in Turns
    BY <1>7 DEF RecordAnswer, Turns, Inv, TypeOK, Bodies
  <2>2. row' = row /\ copy' = c
    BY <1>7 DEF RecordAnswer, Hold
  <2> HIDE DEF turn
  <2>3. /\ c \in Row /\ WellFormed(c) /\ Grows(row, c)
        /\ c.status = row.status
    BY <1>0, <2>1, SpeechMakes
  <2> QED
    BY <1>0, <2>2, <2>3 DEF Made, Backed
<1>8. CASE ClearAsk
  <2>1. row' = row /\ copy' = row
    BY <1>8 DEF ClearAsk, Hold
  <2> QED
    BY <1>0, <2>1, SameMakes DEF Made
<1>9. CASE Finish
  <2> DEFINE result == (aim = "completed") \/ row.result
             c == [row EXCEPT !.status = aim, !.result = result]
  <2>1. aim \in Terminal /\ result \in BOOLEAN
    BY DEF Inv, TypeOK
  <2>2. row' = row /\ copy' = c /\ holder' = "plan"
    BY <1>9 DEF Finish, Hold
  <2> HIDE DEF result
  <2>3. c \in Row /\ WellFormed(c) /\ Grows(row, c)
    BY <1>0, <2>1, EndMakes
  <2>4. Backed(c)
    <3>1. c.status = aim
      BY <1>0 DEF Row
    <3> QED
      BY <3>1 DEF Backed, Inv, RowsAreBacked
  <2> QED
    BY <2>2, <2>3, <2>4 DEF Made
<1> QED
  BY <1>1, <1>2, <1>3, <1>4, <1>5, <1>6, <1>7, <1>8, <1>9 DEF Makers

\* Every step keeps the types.
LEMMA TypeStep == Inv /\ [Next]_vars => TypeOK'
<1> SUFFICES ASSUME Inv, [Next]_vars PROVE TypeOK'
  OBVIOUS
<1> USE DialogueAssumption
    DEF Inv, TypeOK, Bodies, bodyVars, lockVars, AskAdmitted, PlanAdmitted,
        Terminal
<1>1. CASE PostMessage
  <2>1. Made
    BY <1>1, CopiesAreMade DEF Makers
  <2> QED
    BY <1>1, <2>1 DEF PostMessage, Hold, Made
<1>2. CASE SubmitAnswers
  <2>1. Made
    BY <1>2, CopiesAreMade DEF Makers
  <2> QED
    BY <1>2, <2>1 DEF SubmitAnswers, Hold, Made
<1>3. CASE Confirm
  <2>1. Made
    BY <1>3, CopiesAreMade DEF Makers
  <2> QED
    BY <1>3, <2>1 DEF Confirm, Hold, Made
<1>4. CASE StartPlan
  <2>1. Made
    BY <1>4, CopiesAreMade DEF Makers
  <2> QED
    BY <1>4, <2>1 DEF StartPlan, Hold, Made
<1>5. CASE CancelSession
  <2>1. Made
    BY <1>5, CopiesAreMade DEF Makers
  <2> QED
    BY <1>5, <2>1 DEF CancelSession, Hold, Made
<1>6. CASE Ask
  <2>1. Made
    BY <1>6, CopiesAreMade DEF Makers
  <2> QED
    BY <1>6, <2>1 DEF Ask, Hold, Made
<1>7. CASE CancelAsk
  BY <1>7 DEF CancelAsk
<1>8. CASE WebSaved
  BY <1>8 DEF WebSaved, Saved
<1>9. CASE AskSaved
  <2>1. /\ row' \in Row /\ copy' \in Row
        /\ orphans' \subseteq [over : Row, save : Row]
    BY <1>9 DEF AskSaved, Saved
  <2>2. /\ holder' \in {"free", "web", "webAsk", "ask", "plan"}
        /\ (ask \in {"none", "queued"} \cup AskAdmitted)'
        /\ (plan \in {"none", "queued"} \cup PlanAdmitted)'
        /\ aim' \in Terminal
    BY <1>9 DEF AskSaved, Saved
  <2>3. /\ stops' \subseteq {"ask", "plan"} /\ struck' \subseteq stops'
    BY <1>9 DEF AskSaved, Saved
  <2>4. /\ library' \in BOOLEAN /\ busy' \in BOOLEAN
         /\ undone' \in BOOLEAN /\ cut' \in BOOLEAN
    BY <1>9 DEF AskSaved, Saved
  <2>5. /\ crashes' \in 0..MaxCrashes /\ asked' \in 0..MaxAsks
    BY <1>9 DEF AskSaved, Saved
  <2> QED
    BY <2>1, <2>2, <2>3, <2>4, <2>5
<1>10. CASE AskAdmit
  BY <1>10 DEF AskAdmit
<1>11. CASE Answering
  BY <1>11 DEF Answering
<1>12. CASE RecordAnswer
  <2>1. Made
    BY <1>12, CopiesAreMade DEF Makers
  <2> QED
    BY <1>12, <2>1 DEF RecordAnswer, Hold, Made
<1>13. CASE AnswerSaved
  BY <1>13 DEF AnswerSaved, Saved
<1>14. CASE ClearAsk
  <2>1. Made
    BY <1>14, CopiesAreMade DEF Makers
  <2> QED
    BY <1>14, <2>1 DEF ClearAsk, Hold, Made
<1>15. CASE AskCleared
  BY <1>15 DEF AskCleared, Saved
<1>16. CASE PlanAdmit
  BY <1>16 DEF PlanAdmit
<1>17. CASE PlanFails
  BY <1>17 DEF PlanFails, FinishWith
<1>18. CASE PlanStopped
  BY <1>18 DEF PlanStopped, FinishWith
<1>19. CASE Planned
  BY <1>19 DEF Planned
<1>20. CASE StorePlan
  BY <1>20 DEF StorePlan
<1>21. CASE StoreFails
  BY <1>21 DEF StoreFails, FinishWith
<1>22. CASE Finish
  <2>1. Made
    BY <1>22, CopiesAreMade DEF Makers
  <2> QED
    BY <1>22, <2>1 DEF Finish, Hold, Made
<1>23. CASE FinishSuperseded
  BY <1>23 DEF FinishSuperseded
<1>24. CASE FinishSaved
  BY <1>24 DEF FinishSaved, Saved
<1>25. CASE Reaped
  BY <1>25 DEF Reaped
<1>26. CASE ReaperRaises
  BY <1>26 DEF ReaperRaises, FinishWith
<1>27. CASE StrikeAsk
  <2>1. Orphan \in [over : Row, save : Row]
    BY DEF Orphan
  <2>2. /\ row' \in Row /\ copy' \in Row
        /\ orphans' \subseteq [over : Row, save : Row]
    BY <1>27, <2>1 DEF StrikeAsk
  <2>3. /\ holder' \in {"free", "web", "webAsk", "ask", "plan"}
        /\ (ask \in {"none", "queued"} \cup AskAdmitted)'
        /\ (plan \in {"none", "queued"} \cup PlanAdmitted)'
        /\ aim' \in Terminal
    BY <1>27 DEF StrikeAsk
  <2>4. /\ stops' \subseteq {"ask", "plan"} /\ struck' \subseteq stops'
    <3>1. \/ stops' = stops /\ struck' = struck \cup {"ask"}
          \/ stops' = stops \ {"ask"} /\ struck' \subseteq struck
      BY <1>27 DEF StrikeAsk
    <3>2. "ask" \in stops \ struck 
      BY <1>27 DEF StrikeAsk
    <3>3. stops \subseteq {"ask", "plan"} /\ struck \subseteq stops
      OBVIOUS
    <3> HIDE DEF TypeOK, Inv
    <3> QED
      BY <3>1, <3>2, <3>3
  <2>5. /\ library' \in BOOLEAN /\ busy' \in BOOLEAN
         /\ undone' \in BOOLEAN /\ cut' \in BOOLEAN
    BY <1>27 DEF StrikeAsk
  <2>6. /\ crashes' \in 0..MaxCrashes /\ asked' \in 0..MaxAsks
    BY <1>27 DEF StrikeAsk
  <2> QED
    BY <2>2, <2>3, <2>4, <2>5, <2>6
<1>28. CASE StrikePlan
  <2>1. Orphan \in [over : Row, save : Row]
    BY DEF Orphan
  <2>2. /\ row' \in Row /\ copy' \in Row
        /\ orphans' \subseteq [over : Row, save : Row]
    BY <1>28, <2>1 DEF StrikePlan
  <2>3. /\ holder' \in {"free", "web", "webAsk", "ask", "plan"}
        /\ (ask \in {"none", "queued"} \cup AskAdmitted)'
        /\ (plan \in {"none", "queued"} \cup PlanAdmitted)'
        /\ aim' \in Terminal
    BY <1>28 DEF StrikePlan
  <2>4. /\ stops' \subseteq {"ask", "plan"} /\ struck' \subseteq stops'
    <3>1. \/ stops' = stops /\ struck' = struck \cup {"plan"}
          \/ stops' = stops \ {"plan"} /\ struck' \subseteq struck
      BY <1>28 DEF StrikePlan
    <3>2. "plan" \in stops \ struck 
      BY <1>28 DEF StrikePlan
    <3>3. stops \subseteq {"ask", "plan"} /\ struck \subseteq stops
      OBVIOUS
    <3> HIDE DEF TypeOK, Inv
    <3> QED
      BY <3>1, <3>2, <3>3
  <2>5. /\ library' \in BOOLEAN /\ busy' \in BOOLEAN
         /\ undone' \in BOOLEAN /\ cut' \in BOOLEAN
    BY <1>28 DEF StrikePlan
  <2>6. /\ crashes' \in 0..MaxCrashes /\ asked' \in 0..MaxAsks
    BY <1>28 DEF StrikePlan
  <2> QED
    BY <2>2, <2>3, <2>4, <2>5, <2>6
<1>29. CASE OrphanLands
  BY <1>29 DEF OrphanLands
<1>30. CASE OthersStart
  BY <1>30 DEF OthersStart
<1>31. CASE OthersEnd
  <2>1. /\ row' \in Row /\ copy' \in Row
        /\ orphans' \subseteq [over : Row, save : Row]
    BY <1>31 DEF OthersEnd
  <2>2. /\ holder' \in {"free", "web", "webAsk", "ask", "plan"}
        /\ (ask \in {"none", "queued"} \cup AskAdmitted)'
        /\ (plan \in {"none", "queued"} \cup PlanAdmitted)'
        /\ aim' \in Terminal
    BY <1>31 DEF OthersEnd
  <2>3. /\ stops' \subseteq {"ask", "plan"} /\ struck' \subseteq stops'
    BY <1>31 DEF OthersEnd
  <2>4. /\ library' \in BOOLEAN /\ busy' \in BOOLEAN
         /\ undone' \in BOOLEAN /\ cut' \in BOOLEAN
    BY <1>31 DEF OthersEnd
  <2>5. /\ crashes' \in 0..MaxCrashes /\ asked' \in 0..MaxAsks
    BY <1>31 DEF OthersEnd
  <2> QED
    BY <2>1, <2>2, <2>3, <2>4, <2>5
<1>32. CASE Restart
  <2>1. [row EXCEPT !.status = IF row.status \in Started
                             THEN "failed" ELSE row.status] \in Row
    BY DEF Row, Terminal, Started
  <2>2. /\ row' \in Row /\ copy' \in Row
        /\ orphans' \subseteq [over : Row, save : Row]
    BY <1>32, <2>1 DEF Restart
  <2>3. /\ holder' \in {"free", "web", "webAsk", "ask", "plan"}
        /\ (ask \in {"none", "queued"} \cup AskAdmitted)'
        /\ (plan \in {"none", "queued"} \cup PlanAdmitted)'
        /\ aim' \in Terminal
    BY <1>32 DEF Restart
  <2>4. /\ stops' \subseteq {"ask", "plan"} /\ struck' \subseteq stops'
    BY <1>32 DEF Restart
  <2>5. /\ library' \in BOOLEAN /\ busy' \in BOOLEAN
         /\ undone' \in BOOLEAN /\ cut' \in BOOLEAN
    BY <1>32 DEF Restart
  <2>6. /\ crashes' \in 0..MaxCrashes /\ asked' \in 0..MaxAsks
    BY <1>32 DEF Restart
  <2> QED
    BY <2>2, <2>3, <2>4, <2>5, <2>6
<1>33. CASE UNCHANGED vars
  BY <1>33 DEF vars
<1> QED
  BY <1>1, <1>2, <1>3, <1>4, <1>5, <1>6, <1>7, <1>8, <1>9, <1>10, <1>11,
     <1>12, <1>13, <1>14, <1>15, <1>16, <1>17, <1>18, <1>19, <1>20,
     <1>21, <1>22, <1>23, <1>24, <1>25, <1>26, <1>27, <1>28, <1>29,
     <1>30, <1>31, <1>32, <1>33
  DEF Next, Requests, AskWaits, AskWorks, PlanWaits, PlanWorks

\* Every row that is or may be written is well formed.
LEMMA SoundStep == Inv /\ [Next]_vars => RowsAreSound'
<1> SUFFICES ASSUME Inv, [Next]_vars PROVE RowsAreSound'
  OBVIOUS
<1> USE DialogueAssumption DEF Inv, RowsAreSound, bodyVars, lockVars
<1>1. CASE PostMessage
  <2>1. Made
    BY <1>1, CopiesAreMade DEF Makers
  <2> QED
    BY <1>1, <2>1 DEF PostMessage, Hold, Made, Hold
<1>2. CASE SubmitAnswers
  <2>1. Made
    BY <1>2, CopiesAreMade DEF Makers
  <2> QED
    BY <1>2, <2>1 DEF SubmitAnswers, Hold, Made, Hold
<1>3. CASE Confirm
  <2>1. Made
    BY <1>3, CopiesAreMade DEF Makers
  <2> QED
    BY <1>3, <2>1 DEF Confirm, Hold, Made, Hold
<1>4. CASE StartPlan
  <2>1. Made
    BY <1>4, CopiesAreMade DEF Makers
  <2> QED
    BY <1>4, <2>1 DEF StartPlan, Hold, Made, Hold
<1>5. CASE CancelSession
  <2>1. Made
    BY <1>5, CopiesAreMade DEF Makers
  <2> QED
    BY <1>5, <2>1 DEF CancelSession, Hold, Made, Hold
<1>6. CASE Ask
  <2>1. Made
    BY <1>6, CopiesAreMade DEF Makers
  <2> QED
    BY <1>6, <2>1 DEF Ask, Hold, Made, Hold
<1>7. CASE CancelAsk
  BY <1>7 DEF CancelAsk
<1>8. CASE WebSaved
  BY <1>8 DEF WebSaved, Saved
<1>9. CASE AskSaved
  BY <1>9 DEF AskSaved, Saved
<1>10. CASE AskAdmit
  BY <1>10 DEF AskAdmit
<1>11. CASE Answering
  BY <1>11 DEF Answering
<1>12. CASE RecordAnswer
  <2>1. Made
    BY <1>12, CopiesAreMade DEF Makers
  <2> QED
    BY <1>12, <2>1 DEF RecordAnswer, Hold, Made, Hold
<1>13. CASE AnswerSaved
  BY <1>13 DEF AnswerSaved, Saved
<1>14. CASE ClearAsk
  <2>1. Made
    BY <1>14, CopiesAreMade DEF Makers
  <2> QED
    BY <1>14, <2>1 DEF ClearAsk, Hold, Made, Hold
<1>15. CASE AskCleared
  BY <1>15 DEF AskCleared, Saved
<1>16. CASE PlanAdmit
  BY <1>16 DEF PlanAdmit
<1>17. CASE PlanFails
  BY <1>17 DEF PlanFails, FinishWith
<1>18. CASE PlanStopped
  BY <1>18 DEF PlanStopped, FinishWith
<1>19. CASE Planned
  BY <1>19 DEF Planned
<1>20. CASE StorePlan
  BY <1>20 DEF StorePlan
<1>21. CASE StoreFails
  BY <1>21 DEF StoreFails, FinishWith
<1>22. CASE Finish
  <2>1. Made
    BY <1>22, CopiesAreMade DEF Makers
  <2> QED
    BY <1>22, <2>1 DEF Finish, Hold, Made, Hold
<1>23. CASE FinishSuperseded
  BY <1>23 DEF FinishSuperseded
<1>24. CASE FinishSaved
  BY <1>24 DEF FinishSaved, Saved
<1>25. CASE Reaped
  BY <1>25 DEF Reaped
<1>26. CASE ReaperRaises
  BY <1>26 DEF ReaperRaises, FinishWith
<1>27. CASE StrikeAsk
  BY <1>27 DEF StrikeAsk, Orphan
<1>28. CASE StrikePlan
  BY <1>28 DEF StrikePlan, Orphan
<1>29. CASE OrphanLands
  BY <1>29 DEF OrphanLands
<1>30. CASE OthersStart
  BY <1>30 DEF OthersStart
<1>31. CASE OthersEnd
  BY <1>31 DEF OthersEnd
<1>32. CASE Restart
  <2> DEFINE r == [row EXCEPT !.status = IF row.status \in Started
                             THEN "failed" ELSE row.status]
  <2>1. WellFormed(r)
    <3>1. /\ r.status = IF row.status \in Started
                       THEN "failed" ELSE row.status
          /\ r.questions = row.questions /\ r.answers = row.answers
          /\ r.confirmed = row.confirmed /\ r.agreed = row.agreed
          /\ r.round = row.round
      BY DEF TypeOK, Row
    <3> QED
      BY <3>1 DEF WellFormed, Started
  <2> QED
    BY <1>32, <2>1 DEF Restart
<1>33. CASE UNCHANGED vars
  BY <1>33 DEF vars
<1> QED
  BY <1>1, <1>2, <1>3, <1>4, <1>5, <1>6, <1>7, <1>8, <1>9, <1>10, <1>11,
     <1>12, <1>13, <1>14, <1>15, <1>16, <1>17, <1>18, <1>19, <1>20,
     <1>21, <1>22, <1>23, <1>24, <1>25, <1>26, <1>27, <1>28, <1>29,
     <1>30, <1>31, <1>32, <1>33
  DEF Next, Requests, AskWaits, AskWorks, PlanWaits, PlanWorks

\* A plan is in the library before any row says completed.
LEMMA BackedStep == Inv /\ [Next]_vars => RowsAreBacked'
<1> SUFFICES ASSUME Inv, [Next]_vars PROVE RowsAreBacked'
  OBVIOUS
<1> USE DialogueAssumption DEF Inv, RowsAreBacked, Backed, bodyVars, lockVars
<1>1. CASE PostMessage
  <2>1. Made
    BY <1>1, CopiesAreMade DEF Makers
  <2> QED
    BY <1>1, <2>1 DEF PostMessage, Hold, Made, Hold
<1>2. CASE SubmitAnswers
  <2>1. Made
    BY <1>2, CopiesAreMade DEF Makers
  <2> QED
    BY <1>2, <2>1 DEF SubmitAnswers, Hold, Made, Hold
<1>3. CASE Confirm
  <2>1. Made
    BY <1>3, CopiesAreMade DEF Makers
  <2> QED
    BY <1>3, <2>1 DEF Confirm, Hold, Made, Hold
<1>4. CASE StartPlan
  <2>1. Made
    BY <1>4, CopiesAreMade DEF Makers
  <2> QED
    BY <1>4, <2>1 DEF StartPlan, Hold, Made, Hold
<1>5. CASE CancelSession
  <2>1. Made
    BY <1>5, CopiesAreMade DEF Makers
  <2> QED
    BY <1>5, <2>1 DEF CancelSession, Hold, Made, Hold
<1>6. CASE Ask
  <2>1. Made
    BY <1>6, CopiesAreMade DEF Makers
  <2> QED
    BY <1>6, <2>1 DEF Ask, Hold, Made, Hold
<1>7. CASE CancelAsk
  BY <1>7 DEF CancelAsk
<1>8. CASE WebSaved
  BY <1>8 DEF WebSaved, Saved
<1>9. CASE AskSaved
  BY <1>9 DEF AskSaved, Saved
<1>10. CASE AskAdmit
  BY <1>10 DEF AskAdmit
<1>11. CASE Answering
  BY <1>11 DEF Answering
<1>12. CASE RecordAnswer
  <2>1. Made
    BY <1>12, CopiesAreMade DEF Makers
  <2> QED
    BY <1>12, <2>1 DEF RecordAnswer, Hold, Made, Hold
<1>13. CASE AnswerSaved
  BY <1>13 DEF AnswerSaved, Saved
<1>14. CASE ClearAsk
  <2>1. Made
    BY <1>14, CopiesAreMade DEF Makers
  <2> QED
    BY <1>14, <2>1 DEF ClearAsk, Hold, Made, Hold
<1>15. CASE AskCleared
  BY <1>15 DEF AskCleared, Saved
<1>16. CASE PlanAdmit
  BY <1>16 DEF PlanAdmit
<1>17. CASE PlanFails
  BY <1>17 DEF PlanFails, FinishWith
<1>18. CASE PlanStopped
  BY <1>18 DEF PlanStopped, FinishWith
<1>19. CASE Planned
  BY <1>19 DEF Planned
<1>20. CASE StorePlan
  BY <1>20 DEF StorePlan
<1>21. CASE StoreFails
  BY <1>21 DEF StoreFails, FinishWith
<1>22. CASE Finish
  <2>1. Made
    BY <1>22, CopiesAreMade DEF Makers
  <2> QED
    BY <1>22, <2>1 DEF Finish, Hold, Made, Hold
<1>23. CASE FinishSuperseded
  BY <1>23 DEF FinishSuperseded
<1>24. CASE FinishSaved
  BY <1>24 DEF FinishSaved, Saved
<1>25. CASE Reaped
  BY <1>25 DEF Reaped
<1>26. CASE ReaperRaises
  BY <1>26 DEF ReaperRaises, FinishWith
<1>27. CASE StrikeAsk
  BY <1>27 DEF StrikeAsk, Orphan
<1>28. CASE StrikePlan
  BY <1>28 DEF StrikePlan, Orphan
<1>29. CASE OrphanLands
  BY <1>29 DEF OrphanLands
<1>30. CASE OthersStart
  BY <1>30 DEF OthersStart
<1>31. CASE OthersEnd
  BY <1>31 DEF OthersEnd
<1>32. CASE Restart
  <2> DEFINE r == [row EXCEPT !.status = IF row.status \in Started
                             THEN "failed" ELSE row.status]
  <2>1. Backed(r)
    <3>1. r.status = IF row.status \in Started
                     THEN "failed" ELSE row.status
      BY DEF TypeOK, Row
    <3> QED
      BY <3>1
  <2> QED
    BY <1>32, <2>1 DEF Restart
<1>33. CASE UNCHANGED vars
  BY <1>33 DEF vars
<1> QED
  BY <1>1, <1>2, <1>3, <1>4, <1>5, <1>6, <1>7, <1>8, <1>9, <1>10, <1>11,
     <1>12, <1>13, <1>14, <1>15, <1>16, <1>17, <1>18, <1>19, <1>20,
     <1>21, <1>22, <1>23, <1>24, <1>25, <1>26, <1>27, <1>28, <1>29,
     <1>30, <1>31, <1>32, <1>33
  DEF Next, Requests, AskWaits, AskWorks, PlanWaits, PlanWorks

\* Only a saving body is inside the lock.
LEMMA BodiesStep == Inv /\ [Next]_vars => Bodies'
<1> SUFFICES ASSUME Inv, [Next]_vars PROVE Bodies'
  OBVIOUS
<1> USE DialogueAssumption
    DEF Inv, TypeOK, Bodies, AskInFlight, PlanLive, bodyVars, lockVars,
        AskAdmitted, PlanAdmitted
<1>1. CASE PostMessage
  BY <1>1 DEF PostMessage, Hold
<1>2. CASE SubmitAnswers
  BY <1>2 DEF SubmitAnswers, Hold
<1>3. CASE Confirm
  BY <1>3 DEF Confirm, Hold
<1>4. CASE StartPlan
  BY <1>4 DEF StartPlan, Hold
<1>5. CASE CancelSession
  BY <1>5 DEF CancelSession, Hold
<1>6. CASE Ask
  BY <1>6 DEF Ask, Hold
<1>7. CASE CancelAsk
  BY <1>7 DEF CancelAsk
<1>8. CASE WebSaved
  BY <1>8 DEF WebSaved, Saved
<1>9. CASE AskSaved
  BY <1>9 DEF AskSaved, Saved
<1>10. CASE AskAdmit
  BY <1>10 DEF AskAdmit
<1>11. CASE Answering
  BY <1>11 DEF Answering
<1>12. CASE RecordAnswer
  BY <1>12 DEF RecordAnswer, Hold
<1>13. CASE AnswerSaved
  BY <1>13 DEF AnswerSaved, Saved
<1>14. CASE ClearAsk
  BY <1>14 DEF ClearAsk, Hold
<1>15. CASE AskCleared
  BY <1>15 DEF AskCleared, Saved
<1>16. CASE PlanAdmit
  BY <1>16 DEF PlanAdmit
<1>17. CASE PlanFails
  BY <1>17 DEF PlanFails, FinishWith
<1>18. CASE PlanStopped
  BY <1>18 DEF PlanStopped, FinishWith
<1>19. CASE Planned
  BY <1>19 DEF Planned
<1>20. CASE StorePlan
  BY <1>20 DEF StorePlan
<1>21. CASE StoreFails
  BY <1>21 DEF StoreFails, FinishWith
<1>22. CASE Finish
  BY <1>22 DEF Finish, Hold
<1>23. CASE FinishSuperseded
  BY <1>23 DEF FinishSuperseded
<1>24. CASE FinishSaved
  BY <1>24 DEF FinishSaved, Saved
<1>25. CASE Reaped
  BY <1>25 DEF Reaped
<1>26. CASE ReaperRaises
  BY <1>26 DEF ReaperRaises, FinishWith
<1>27. CASE StrikeAsk
  BY <1>27 DEF StrikeAsk, Orphan
<1>28. CASE StrikePlan
  BY <1>28 DEF StrikePlan, Orphan
<1>29. CASE OrphanLands
  BY <1>29 DEF OrphanLands
<1>30. CASE OthersStart
  BY <1>30 DEF OthersStart
<1>31. CASE OthersEnd
  BY <1>31 DEF OthersEnd
<1>32. CASE Restart
  BY <1>32 DEF Restart
<1>33. CASE UNCHANGED vars
  BY <1>33 DEF vars
<1> QED
  BY <1>1, <1>2, <1>3, <1>4, <1>5, <1>6, <1>7, <1>8, <1>9, <1>10, <1>11,
     <1>12, <1>13, <1>14, <1>15, <1>16, <1>17, <1>18, <1>19, <1>20,
     <1>21, <1>22, <1>23, <1>24, <1>25, <1>26, <1>27, <1>28, <1>29,
     <1>30, <1>31, <1>32, <1>33
  DEF Next, Requests, AskWaits, AskWorks, PlanWaits, PlanWorks

\* A copy keeps what the stored row holds, until a late save undoes it.
LEMMA GrowStep == Inv /\ [Next]_vars => CopiesGrow'
<1> SUFFICES ASSUME Inv, [Next]_vars PROVE CopiesGrow'
  OBVIOUS
<1> USE DialogueAssumption
    DEF Inv, TypeOK, CopiesGrow, Bodies, bodyVars, lockVars
<1>1. CASE PostMessage
  <2>1. Made
    BY <1>1, CopiesAreMade DEF Makers
  <2> QED
    BY <1>1, <2>1 DEF PostMessage, Hold, Made, Hold
<1>2. CASE SubmitAnswers
  <2>1. Made
    BY <1>2, CopiesAreMade DEF Makers
  <2> QED
    BY <1>2, <2>1 DEF SubmitAnswers, Hold, Made, Hold
<1>3. CASE Confirm
  <2>1. Made
    BY <1>3, CopiesAreMade DEF Makers
  <2> QED
    BY <1>3, <2>1 DEF Confirm, Hold, Made, Hold
<1>4. CASE StartPlan
  <2>1. Made
    BY <1>4, CopiesAreMade DEF Makers
  <2> QED
    BY <1>4, <2>1 DEF StartPlan, Hold, Made, Hold
<1>5. CASE CancelSession
  <2>1. Made
    BY <1>5, CopiesAreMade DEF Makers
  <2> QED
    BY <1>5, <2>1 DEF CancelSession, Hold, Made, Hold
<1>6. CASE Ask
  <2>1. Made
    BY <1>6, CopiesAreMade DEF Makers
  <2> QED
    BY <1>6, <2>1 DEF Ask, Hold, Made, Hold
<1>7. CASE CancelAsk
  BY <1>7 DEF CancelAsk
<1>8. CASE WebSaved
  BY <1>8 DEF WebSaved, Saved
<1>9. CASE AskSaved
  BY <1>9 DEF AskSaved, Saved
<1>10. CASE AskAdmit
  BY <1>10 DEF AskAdmit
<1>11. CASE Answering
  BY <1>11 DEF Answering
<1>12. CASE RecordAnswer
  <2>1. Made
    BY <1>12, CopiesAreMade DEF Makers
  <2> QED
    BY <1>12, <2>1 DEF RecordAnswer, Hold, Made, Hold
<1>13. CASE AnswerSaved
  BY <1>13 DEF AnswerSaved, Saved
<1>14. CASE ClearAsk
  <2>1. Made
    BY <1>14, CopiesAreMade DEF Makers
  <2> QED
    BY <1>14, <2>1 DEF ClearAsk, Hold, Made, Hold
<1>15. CASE AskCleared
  BY <1>15 DEF AskCleared, Saved
<1>16. CASE PlanAdmit
  BY <1>16 DEF PlanAdmit
<1>17. CASE PlanFails
  BY <1>17 DEF PlanFails, FinishWith
<1>18. CASE PlanStopped
  BY <1>18 DEF PlanStopped, FinishWith
<1>19. CASE Planned
  BY <1>19 DEF Planned
<1>20. CASE StorePlan
  BY <1>20 DEF StorePlan
<1>21. CASE StoreFails
  BY <1>21 DEF StoreFails, FinishWith
<1>22. CASE Finish
  <2>1. Made
    BY <1>22, CopiesAreMade DEF Makers
  <2> QED
    BY <1>22, <2>1 DEF Finish, Hold, Made, Hold
<1>23. CASE FinishSuperseded
  BY <1>23 DEF FinishSuperseded
<1>24. CASE FinishSaved
  BY <1>24 DEF FinishSaved, Saved
<1>25. CASE Reaped
  BY <1>25 DEF Reaped
<1>26. CASE ReaperRaises
  BY <1>26 DEF ReaperRaises, FinishWith
<1>27. CASE StrikeAsk
  BY <1>27 DEF StrikeAsk, Orphan
<1>28. CASE StrikePlan
  BY <1>28 DEF StrikePlan, Orphan
<1>29. CASE OrphanLands
  BY <1>29 DEF OrphanLands
<1>30. CASE OthersStart
  BY <1>30 DEF OthersStart
<1>31. CASE OthersEnd
  BY <1>31 DEF OthersEnd
<1>32. CASE Restart
  BY <1>32 DEF Restart
<1>33. CASE UNCHANGED vars
  BY <1>33 DEF vars
<1> QED
  BY <1>1, <1>2, <1>3, <1>4, <1>5, <1>6, <1>7, <1>8, <1>9, <1>10, <1>11,
     <1>12, <1>13, <1>14, <1>15, <1>16, <1>17, <1>18, <1>19, <1>20,
     <1>21, <1>22, <1>23, <1>24, <1>25, <1>26, <1>27, <1>28, <1>29,
     <1>30, <1>31, <1>32, <1>33
  DEF Next, Requests, AskWaits, AskWorks, PlanWaits, PlanWorks

-----------------------------------------------------------------------------
(* The theorems *)

\* The initial states satisfy the invariant.
LEMMA InitInv == Init => Inv
<1> SUFFICES ASSUME Init PROVE Inv
  OBVIOUS
<1> USE DialogueAssumption DEF Init
<1>1. row \in Row
  <2>1. 0 \in Rounds /\ <<>> \in Seq(Turns)
    BY DEF Rounds
  <2> QED
    BY <2>1 DEF Row
<1>2. TypeOK
  <2>1. /\ holder \in {"free", "web", "webAsk", "ask", "plan"}
        /\ ask \in {"none", "queued"} \cup AskAdmitted
        /\ plan \in {"none", "queued"} \cup PlanAdmitted
        /\ aim \in Terminal
    BY DEF Terminal
  <2>2. /\ stops \subseteq {"ask", "plan"} /\ struck \subseteq stops
        /\ orphans \subseteq [over : Row, save : Row] /\ copy \in Row
    BY <1>1
  <2>3. crashes \in 0..MaxCrashes /\ asked \in 0..MaxAsks
    OBVIOUS
  <2>4. /\ library \in BOOLEAN /\ busy \in BOOLEAN
        /\ undone \in BOOLEAN /\ cut \in BOOLEAN
    OBVIOUS
  <2> QED
    BY <1>1, <2>1, <2>2, <2>3, <2>4 DEF TypeOK
<1>3. WellFormed(row) /\ Backed(row)
  BY DEF WellFormed, Backed, Started
<1> QED
  BY <1>2, <1>3 DEF Inv, RowsAreSound, RowsAreBacked, Bodies, CopiesGrow

\* Every reachable state satisfies the inductive invariant.
LEMMA Invariance == Spec => []Inv
<1>1. Inv /\ [Next]_vars => Inv'
  BY TypeStep, SoundStep, BackedStep, BodiesStep, GrowStep DEF Inv
<1> QED
  BY <1>1, InitInv, PTL DEF Spec

\* Rows, copies, bodies and late saves keep their types.
THEOREM Typing == Spec => []TypeOK
BY Invariance, PTL DEF Inv

\* A confirmed session is confirmed in the round that is open and with every
\* question of it answered, whoever saved the row last, late or in turn.
THEOREM ConfirmationsAreCurrent == Spec => []ConfirmedIsCurrent
<1>1. Inv => ConfirmedIsCurrent
  BY DEF Inv, RowsAreSound, WellFormed, ConfirmedIsCurrent
<1> QED
  BY <1>1, Invariance, PTL

\* What promote takes has its plan in the library, through late saves, reaper
\* failures and restarts.
THEOREM CompletionsHavePlans == Spec => []CompletedHasPlan
<1>1. Inv => CompletedHasPlan
  BY DEF Inv, RowsAreBacked, Backed, CompletedHasPlan, Promotable
<1> QED
  BY <1>1, Invariance, PTL

RowKept ==
    /\ undone' \/ Grows(row, row')
    /\ (row.status \in Terminal /\ ~undone' /\ ~PlanLive /\ orphans = {})
          => row'.status = row.status

\* What a step stores keeps what the row held.
LEMMA KeptStep == Inv /\ [Next]_vars => RowKept
<1> SUFFICES ASSUME Inv, [Next]_vars PROVE RowKept
  OBVIOUS
<1> USE DialogueAssumption
    DEF Inv, TypeOK, CopiesGrow, Bodies, RowKept, PlanLive, PlanAdmitted
<1>0. row' = row => RowKept
  BY SameMakes DEF TypeOK, Grows
<1>1. CASE PostMessage
  BY <1>1, <1>0 DEF PostMessage, bodyVars, lockVars, Hold
<1>2. CASE SubmitAnswers
  BY <1>2, <1>0 DEF SubmitAnswers, bodyVars, lockVars, Hold
<1>3. CASE Confirm
  BY <1>3, <1>0 DEF Confirm, bodyVars, lockVars, Hold
<1>4. CASE StartPlan
  BY <1>4, <1>0 DEF StartPlan, bodyVars, lockVars, Hold
<1>5. CASE CancelSession
  BY <1>5, <1>0 DEF CancelSession, bodyVars, lockVars, Hold
<1>6. CASE Ask
  BY <1>6, <1>0 DEF Ask, bodyVars, lockVars, Hold
<1>7. CASE CancelAsk
  BY <1>7, <1>0 DEF CancelAsk, bodyVars, lockVars
<1>8. CASE WebSaved
  BY <1>8 DEF WebSaved, Saved, bodyVars, lockVars
<1>9. CASE AskSaved
  BY <1>9 DEF AskSaved, Saved, bodyVars, lockVars
<1>10. CASE AskAdmit
  BY <1>10, <1>0 DEF AskAdmit, bodyVars, lockVars
<1>11. CASE Answering
  BY <1>11, <1>0 DEF Answering, bodyVars, lockVars
<1>12. CASE RecordAnswer
  BY <1>12, <1>0 DEF RecordAnswer, bodyVars, lockVars, Hold
<1>13. CASE AnswerSaved
  BY <1>13 DEF AnswerSaved, Saved, bodyVars, lockVars
<1>14. CASE ClearAsk
  BY <1>14, <1>0 DEF ClearAsk, bodyVars, lockVars, Hold
<1>15. CASE AskCleared
  BY <1>15 DEF AskCleared, Saved, bodyVars, lockVars
<1>16. CASE PlanAdmit
  BY <1>16, <1>0 DEF PlanAdmit, bodyVars, lockVars
<1>17. CASE PlanFails
  BY <1>17, <1>0 DEF PlanFails, bodyVars, lockVars, FinishWith
<1>18. CASE PlanStopped
  BY <1>18, <1>0 DEF PlanStopped, bodyVars, lockVars, FinishWith
<1>19. CASE Planned
  BY <1>19, <1>0 DEF Planned, bodyVars, lockVars
<1>20. CASE StorePlan
  BY <1>20, <1>0 DEF StorePlan, bodyVars, lockVars
<1>21. CASE StoreFails
  BY <1>21, <1>0 DEF StoreFails, bodyVars, lockVars, FinishWith
<1>22. CASE Finish
  BY <1>22, <1>0 DEF Finish, bodyVars, lockVars, Hold
<1>23. CASE FinishSuperseded
  BY <1>23, <1>0 DEF FinishSuperseded, bodyVars, lockVars
<1>24. CASE FinishSaved
  BY <1>24 DEF FinishSaved, Saved, bodyVars, lockVars
<1>25. CASE Reaped
  BY <1>25, <1>0 DEF Reaped, bodyVars, lockVars
<1>26. CASE ReaperRaises
  BY <1>26, <1>0 DEF ReaperRaises, bodyVars, lockVars, FinishWith
<1>27. CASE StrikeAsk
  BY <1>27, <1>0 DEF StrikeAsk, bodyVars, lockVars, Orphan
<1>28. CASE StrikePlan
  BY <1>28, <1>0 DEF StrikePlan, bodyVars, lockVars, Orphan
<1>29. CASE OrphanLands
  BY <1>29 DEF OrphanLands, bodyVars, lockVars
<1>30. CASE OthersStart
  BY <1>30, <1>0 DEF OthersStart, bodyVars, lockVars
<1>31. CASE OthersEnd
  BY <1>31, <1>0 DEF OthersEnd, bodyVars, lockVars
<1>32. CASE Restart
  <2>1. row \in Row
    BY DEF TypeOK
  <2>2. /\ row'.msgs = row.msgs /\ row'.answers = row.answers
        /\ row'.prior = row.prior
        /\ row.status \in Terminal => row'.status = row.status
    BY <1>32, <2>1 DEF Restart, Row, Terminal, Started
  <2> QED
    BY <2>1, <2>2, SameMakes DEF Grows
<1>33. CASE UNCHANGED vars
  BY <1>33, <1>0 DEF vars
<1> QED
  BY <1>1, <1>2, <1>3, <1>4, <1>5, <1>6, <1>7, <1>8, <1>9, <1>10, <1>11,
     <1>12, <1>13, <1>14, <1>15, <1>16, <1>17, <1>18, <1>19, <1>20,
     <1>21, <1>22, <1>23, <1>24, <1>25, <1>26, <1>27, <1>28, <1>29,
     <1>30, <1>31, <1>32, <1>33
  DEF Next, Requests, AskWaits, AskWorks, PlanWaits, PlanWorks

\* Nothing the user said is lost, unless a struck task's late save undid it.
THEOREM NothingIsForgotten == Spec => NothingForgotten
<1>1. Inv /\ [Next]_vars =>
        [\/ undone'
         \/ /\ IsPrefix(row.msgs, row'.msgs)
            /\ row.answers \cup row.prior
                 \subseteq row'.answers \cup row'.prior]_vars
  BY KeptStep DEF RowKept, Grows
<1> QED
  BY <1>1, Invariance, PTL DEF Spec, NothingForgotten

\* A session that ended stays ended, with the outcome it has once its own plan
\* body is gone.
THEOREM EndsAreFinal == Spec => EndsStayEnded
<1>1. Inv /\ [Next]_vars =>
        [(row.status \in Terminal /\ ~undone') =>
            /\ row'.status \in Terminal
            /\ (~PlanLive /\ orphans = {}) => row'.status = row.status]_vars
  BY KeptStep DEF RowKept, Grows
<1> QED
  BY <1>1, Invariance, PTL DEF Spec, EndsStayEnded
=============================================================================
