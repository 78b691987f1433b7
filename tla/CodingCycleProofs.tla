-------------------------- MODULE CodingCycleProofs --------------------------
(***************************************************************************)
(* What a plan, a write and the coverage promise each other, for every set *)
(* of files, every plan the Tech Lead may answer and every bound.          *)
(*                                                                         *)
(* The lemmas of the first part are about the rules alone (PlanScope): a   *)
(* plan, a working copy and what follows of them.  The invariant carries   *)
(* their hypotheses through the attempts: the first plan was looked up in  *)
(* a clean working copy, what it has out of scope is untouched but for     *)
(* commands, writes by other names and the Tester, and the Tester was      *)
(* invited where it cannot spoil the coverage.                             *)
(***************************************************************************)
EXTENDS CodingCycle, TLAPS

InAttempt == pc \notin {"planning", "failed"}
FirstPlan == InAttempt /\ replans = 0
Covered   == pc \in {"judging", "round", "accepting", "fixing", "testing",
                     "tester", "review"}

Counts == attempt < MaxAttempts /\ replans <= attempt

\* What the Coder works on was accepted, and named nothing it forbids.
PlanIsSound == InAttempt => plan \in Plan /\ ScopeOk(plan)

FirstPlanning == pc = "planning" /\ replans = 0 => tree = Clean

\* The first plan was looked up before anything was written.
FirstPlanLookedUp ==
    FirstPlan /\ mode = "model" => PathsOk(plan, Clean)

OutOfScopeUntouched ==
    FirstPlan => \A p \in plan.oos \cap Paths :
                    tree[p] = "same" \/ p \in strayed \cup tested

\* The coverage is the one of the tree while nothing is written, and is never
\* about other files than the plan's.
CoverIsCurrent ==
    /\ Judged => cover = Coverage(plan, tree)
    /\ Covered => /\ cover.missing \subseteq Expected(plan)
                  /\ cover.ok => cover.missing = {}

\* The Tester works where no planned file is a test and something that is not
\* a test has been changed, and only a write that strays could take it back.
TesterIsInvited ==
    pc = "tester" =>
        /\ Expected(plan) \cap Tests = {}
        /\ strayed = {} => Shown(tree) \ TestEntries # {}

CoverageKept ==
    /\ pc = "fixing" => fixed
    /\ (/\ pc \in {"testing", "tester", "review"} /\ cover.ok /\ ~fixed
        /\ strayed = {} /\ plan.oos \cap Tests = {}
        /\ Expected(plan) \subseteq Paths)
          => Coverage(plan, tree).ok

Inv ==
    /\ TypeOK /\ Counts /\ PlanIsSound /\ FirstPlanning /\ FirstPlanLookedUp
    /\ OutOfScopeUntouched /\ CoverIsCurrent /\ TesterIsInvited
    /\ CoverageKept

-----------------------------------------------------------------------------
(* The rules *)

\* The files of new directories are not known; directories are no files.
LEMMA Kinds ==
    /\ NewDir \cap Known = {} /\ Dirs \cap Paths = {}
    /\ \A p \in Paths : Dir[p] \in Dirs
    /\ \A n \in Names : File[n] \in Paths
BY PathsAssumption DEF NewDir, NewDirs, Dirs

\* A path a plan may name is a file, a test in a directory that is there, or a
\* file one of its steps creates; it stays allowed whatever is written, but for
\* a test whose directory is taken away.
LEMMA AllowedStaysAllowed ==
    ASSUME NEW pl \in Plan, NEW t \in Trees, NEW n \in Names,
           AllowedPath(pl, Clean, n), File[n] \notin Known
    PROVE  AllowedPath(pl, t, n) \/ (n \in Tests /\ ~HasParent(t, n))
<1>1. ~IsFile(Clean, n)
  BY Kinds DEF IsFile, Clean
<1>2. n \notin Baseline
  BY PathsAssumption DEF Baseline
<1> QED
  BY <1>1, <1>2 DEF AllowedPath

\* What a plan names are names, those of its steps among the expected ones.
LEMMA ExpectedPaths ==
    ASSUME NEW pl \in Plan
    PROVE  /\ Expected(pl) \subseteq Names /\ pl.oos \subseteq Names
           /\ StepFiles(pl) \subseteq Expected(pl)
<1>1. \A i \in DOMAIN pl.steps : pl.steps[i].files \subseteq Names
  <2>1. pl.steps \in Seq(Step)
    BY DEF Plan
  <2>2. \A i \in DOMAIN pl.steps : pl.steps[i] \in Step
    BY <2>1
  <2> QED
    BY <2>2 DEF Step
<1>2. pl.touch \subseteq Names /\ pl.oos \subseteq Names
  BY DEF Plan
<1> QED
  BY <1>1, <1>2 DEF Expected, StepFiles

\* What git status shows: the changed files it neither ignores nor folds into
\* a new directory, and new directories.
LEMMA ShownFiles ==
    ASSUME NEW t \in Trees
    PROVE  /\ Shown(t) \subseteq Paths \cup Dirs
           /\ \A p \in Paths :
                p \in Shown(t) <=> t[p] # "same"
                                  /\ p \notin NewDir \cup Ignored \cup Noise
BY Kinds DEF Shown

Phantom(pl, t, p) == p \notin Shown(t) \cup Baseline /\ ~AllowedPath(pl, t, p)

\* The coverage is satisfied when nothing out of scope was changed and every
\* planned file was changed, need not be, or cannot be.
LEMMA CoverageSays ==
    ASSUME NEW pl, NEW t
    PROVE  /\ Coverage(pl, t).missing \subseteq Expected(pl)
           /\ Coverage(pl, t).ok => Coverage(pl, t).missing = {}
           /\ Coverage(pl, t).ok <=>
                 /\ Shown(t) \cap pl.oos = {}
                 /\ IF Expected(pl) = {} THEN Shown(t) # {}
                    ELSE \A p \in Expected(pl) :
                            \/ p \in Shown(t) \/ Phantom(pl, t, p)
                            \/ Ignorable(pl, t, p)
<1> DEFINE c == Coverage(pl, t)
           phantom == { p \in Expected(pl) \ (Shown(t) \cup Baseline) :
                           ~AllowedPath(pl, t, p) }
<1>1. c.missing = { p \in Expected(pl) \ (Shown(t) \cup phantom) :
                       ~Ignorable(pl, t, p) }
  BY DEF Coverage
<1>2. c.ok = (/\ Shown(t) \cap pl.oos = {}
              /\ IF Expected(pl) = {} THEN Shown(t) # {} ELSE c.missing = {})
  BY DEF Coverage
<1>3. c.missing = {} <=> \A p \in Expected(pl) :
                            \/ p \in Shown(t) \/ Phantom(pl, t, p)
                            \/ Ignorable(pl, t, p)
  BY <1>1 DEF Phantom
<1> QED
  BY <1>1, <1>2, <1>3

\* The planner's rule for a new path and the coverage's rule for a phantom one
\* agree: a covered plan whose paths were looked up in a clean working copy
\* has every file it names, but for tests whose directory was taken away.
LEMMA CoveredIsThere ==
    ASSUME NEW pl \in Plan, NEW t \in Trees, PathsOk(pl, Clean),
           Coverage(pl, t).ok, NEW n \in Expected(pl)
    PROVE  \/ IsFile(t, n) \/ File[n] \in Known
           \/ n \in Tests /\ ~HasParent(t, n)
<1>1. n \in Names
  BY ExpectedPaths
<1>2. n \in Shown(t) \/ Phantom(pl, t, n) \/ Ignorable(pl, t, n)
  BY CoverageSays
<1>3. CASE n \in Shown(t)
  <2>1. n \in Paths /\ File[n] = n
    BY <1>1, <1>3, ShownFiles, PathsAssumption
  <2> QED
    BY <1>3, <2>1, ShownFiles DEF IsFile, Trees
<1>4. CASE Phantom(pl, t, n)
  BY <1>1, <1>4, AllowedStaysAllowed DEF PathsOk, Phantom
<1>5. CASE Ignorable(pl, t, n)
  BY <1>5 DEF Ignorable
<1> QED
  BY <1>2, <1>3, <1>4, <1>5

\* A tree in which every planned file is written and no file out of scope is
\* changed covers the plan, if git status shows the files as themselves.
LEMMA WrittenIsCovered ==
    ASSUME NEW pl \in Plan, NEW t \in Trees, Expected(pl) # {},
           Expected(pl) \subseteq Plain,
           \A p \in Expected(pl) : t[p] = "edited",
           \A p \in pl.oos \cap Paths : t[p] = "same"
    PROVE  Coverage(pl, t).ok
<1>1. \A p \in Expected(pl) : p \in Shown(t)
  BY ShownFiles DEF Plain
<1>2. Shown(t) \cap pl.oos = {}
  BY ExpectedPaths, ShownFiles, PathsAssumption
<1> QED
  BY <1>1, <1>2, CoverageSays

\* Writing tests leaves the other entries of git status alone.
LEMMA TestsKeepOthers ==
    ASSUME NEW t \in Trees, NEW u \in Trees,
           \A p \in Paths \ Tests : u[p] = t[p],
           Shown(t) \ TestEntries # {}
    PROVE  Shown(u) \ TestEntries # {}
<1>1. Shown(t) \ TestEntries \subseteq Shown(u)
  BY DEF Shown, TestEntries
<1> QED
  BY <1>1

\* Writing tests cannot spoil the coverage of a plan that names no test, in
\* its files or out of scope, and calls its files by their own names.
LEMMA TestsKeepCoverage ==
    ASSUME NEW pl \in Plan, NEW t \in Trees, NEW u \in Trees,
           \A p \in Paths \ Tests : u[p] = t[p],
           Expected(pl) \subseteq Paths \ Tests, pl.oos \cap Tests = {},
           Shown(t) \ TestEntries # {}, Coverage(pl, t).ok
    PROVE  Coverage(pl, u).ok
<1>1. \A p \in Paths \ Tests : p \in Shown(u) <=> p \in Shown(t)
  BY ShownFiles
<1>2. Shown(u) # {}
  BY TestsKeepOthers
<1>3. Shown(u) \cap pl.oos = {}
  <2>1. Shown(u) \cap pl.oos \subseteq Paths \ Tests
    BY ShownFiles, ExpectedPaths, PathsAssumption
  <2> QED
    BY <1>1, <2>1, CoverageSays
<1>4. ASSUME NEW p \in Expected(pl)
      PROVE  p \in Shown(u) \/ Phantom(pl, u, p) \/ Ignorable(pl, u, p)
  <2>1. p \in Paths \ Tests /\ File[p] = p
    BY PathsAssumption
  <2>2. p \in Shown(t) \/ Phantom(pl, t, p) \/ Ignorable(pl, t, p)
    BY CoverageSays
  <2>3. IsFile(u, p) <=> IsFile(t, p)
    BY <2>1 DEF IsFile
  <2>4. AllowedPath(pl, u, p) <=> AllowedPath(pl, t, p)
    BY <2>1, <2>3 DEF AllowedPath
  <2>5. Ignorable(pl, u, p) <=> Ignorable(pl, t, p)
    BY <2>1, <2>3 DEF Ignorable
  <2> QED
    BY <1>1, <2>1, <2>2, <2>4, <2>5 DEF Phantom
<1> QED
  BY <1>2, <1>3, <1>4, CoverageSays

-----------------------------------------------------------------------------
(* The steps *)

\* A write leaves a working tree, with the other files as they were.
LEMMA WriteStays ==
    ASSUME tree \in Trees, NEW p \in Paths, NEW v \in Values(p)
    PROVE  /\ Put(tree, p, v) \in Trees
           /\ [tree EXCEPT ![p] = v, ![Dir[p]] = "there"] \in Trees
           /\ \A q \in Paths : Put(tree, p, v)[q] = IF q = p THEN v ELSE tree[q]
           /\ \A q \in Paths : [tree EXCEPT ![p] = v, ![Dir[p]] = "there"][q]
                               = IF q = p THEN v ELSE tree[q]
<1>1. Dir[p] \in Dirs \ Paths
  BY Kinds
<1>2. PICK left \in {"there", "gone"} :
         Put(tree, p, v) = [tree EXCEPT ![p] = v, ![Dir[p]] = left]
  BY <1>1 DEF Put, Trees
<1> DEFINE Left(w) == [tree EXCEPT ![p] = v, ![Dir[p]] = w]
<1>3. ASSUME NEW w \in {"there", "gone"}
      PROVE  /\ Left(w) \in Trees
             /\ \A q \in Paths : Left(w)[q] = IF q = p THEN v ELSE tree[q]
  <2>1. /\ v \in {"same", "edited", "gone"} /\ (p \notin Known => v # "gone")
        /\ DOMAIN tree = Paths \cup Dirs
    BY DEF Values, Trees
  <2>2. \A q \in Paths : Left(w)[q] = IF q = p THEN v ELSE tree[q]
    BY <1>1, <2>1
  <2>3. \A d \in Dirs : Left(w)[d] = IF d = Dir[p] THEN w ELSE tree[d]
    BY <1>1, <2>1, Kinds
  <2>4. Left(w) \in [Paths \cup Dirs -> {"same", "edited", "gone", "there"}]
    BY <2>1 DEF Trees
  <2> HIDE DEF Left
  <2> QED
    BY <2>1, <2>2, <2>3, <2>4 DEF Trees
<1> QED
  BY <1>2, <1>3

\* What a write of the Coder's or the Tester's changes.
LEMMA ToolWrites ==
    ASSUME TypeOK, NEW n \in Names, NEW v \in Values(File[n]),
           CoderWrites(n, v) \/ TesterWrites(n, v)
    PROVE  /\ tree' \in Trees /\ strayed' \subseteq Paths
           /\ \A q \in Paths : q # File[n] => tree'[q] = tree[q]
           /\ strayed \subseteq strayed'
           /\ n # File[n] => File[n] \in strayed'
           /\ n = File[n] => n \in Paths /\ strayed' = strayed
<1>1. File[n] \in Paths
  BY Kinds
<1>2. tree' = Put(tree, File[n], v)
  BY DEF CoderWrites, TesterWrites
<1>3. IF n = File[n] THEN strayed' = strayed
      ELSE strayed' = strayed \cup {File[n]}
  BY DEF CoderWrites, TesterWrites, Strays
<1>4. /\ tree' \in Trees
      /\ \A q \in Paths : q # File[n] => tree'[q] = tree[q]
  <2> DEFINE p == File[n]
  <2>1. p \in Paths /\ v \in Values(p) /\ tree \in Trees
    BY <1>1 DEF TypeOK
  <2> HIDE DEF p
  <2>2. /\ Put(tree, p, v) \in Trees
        /\ \A q \in Paths : Put(tree, p, v)[q] = IF q = p THEN v ELSE tree[q]
    BY <2>1, WriteStays
  <2> QED
    BY <1>2, <2>2 DEF p
<1>5. strayed \subseteq Paths
  BY DEF TypeOK
<1> QED
  BY <1>1, <1>3, <1>4, <1>5

\* What a command's write changes.
LEMMA CommandedWrites ==
    ASSUME TypeOK, NEW p \in Paths, NEW v \in Values(p), CommandWrites(p, v)
    PROVE  /\ tree' \in Trees /\ strayed' = strayed \cup {p}
           /\ \A q \in Paths : q # p => tree'[q] = tree[q]
           /\ UNCHANGED <<ticket, pc, plan, mode, tries, cover, prior, rounds,
                          attempt, scope, replans, tested, fixed>>
<1>1. tree \in Trees
  BY DEF TypeOK
<1>2. /\ strayed' = strayed \cup {p}
      /\ \/ tree' = Put(tree, p, v)
         \/ tree' = [tree EXCEPT ![p] = v, ![Dir[p]] = "there"]
      /\ UNCHANGED <<ticket, pc, plan, mode, tries, cover, prior, rounds,
                     attempt, scope, replans, tested, fixed>>
  BY DEF CommandWrites, Strays
<1> DEFINE left == [tree EXCEPT ![p] = v, ![Dir[p]] = "there"]
<1>3. /\ Put(tree, p, v) \in Trees /\ left \in Trees
      /\ \A q \in Paths : Put(tree, p, v)[q] = IF q = p THEN v ELSE tree[q]
      /\ \A q \in Paths : left[q] = IF q = p THEN v ELSE tree[q]
  BY <1>1, WriteStays
<1>4. tree' = Put(tree, p, v) \/ tree' = left
  BY <1>2
<1> HIDE DEF left
<1>5. /\ tree' \in Trees
      /\ \A q \in Paths : q # p => tree'[q] = tree[q]
  BY <1>3, <1>4
<1> QED
  BY <1>2, <1>5

\* Every step keeps the types.
LEMMA TypeStep == Inv /\ [Next]_vars => TypeOK'
<1> SUFFICES ASSUME Inv, [Next]_vars PROVE TypeOK'
  OBVIOUS
<1> USE PathsAssumption, CycleAssumption DEF Inv, TypeOK, Counts
<1>1. ASSUME NEW p \in Plans \cup {ticket.template},
             NEW m \in {"template", "model"},
             PlanAccepted(p, m)
      PROVE  TypeOK'
  BY <1>1 DEF PlanAccepted
<1>2. ASSUME NEW p \in Plans \cup {ticket.template},
             NEW m \in {"template", "model"},
             PlanRefused(p, m)
      PROVE  TypeOK'
  BY <1>2 DEF PlanRefused
<1>3. CASE FallBack
  BY <1>3 DEF FallBack
<1>4. ASSUME NEW n \in Names, NEW v \in Values(File[n]),
             CoderWrites(n, v)
      PROVE  TypeOK'
  <2>1. tree' \in Trees /\ strayed' \subseteq Paths
    BY <1>4, ToolWrites
  <2>2. tested' \subseteq Paths \cap Tests
    BY <1>4, ToolWrites DEF CoderWrites, MayTest
  <2> QED
    BY <1>4, <2>1, <2>2 DEF CoderWrites
<1>5. ASSUME NEW n \in Names, NEW v \in Values(File[n]),
             TesterWrites(n, v)
      PROVE  TypeOK'
  <2>1. tree' \in Trees /\ strayed' \subseteq Paths
    BY <1>5, ToolWrites
  <2>2. tested' \subseteq Paths \cap Tests
    BY <1>5, ToolWrites DEF TesterWrites, MayTest
  <2> QED
    BY <1>5, <2>1, <2>2 DEF TesterWrites
<1>6. ASSUME NEW p \in Paths, NEW v \in Values(p),
             CommandWrites(p, v)
      PROVE  TypeOK'
  BY <1>6, CommandedWrites
<1>7. CASE CodingEnds
  <2>1. rounds' \in 0..MaxRounds
    BY <1>7 DEF CodingEnds
  <2>2. fixed' \in BOOLEAN
    BY <1>7 DEF CodingEnds
  <2> QED
    BY <1>7, <2>1, <2>2 DEF CodingEnds
<1>8. CASE RoundBegins
  BY <1>8 DEF RoundBegins
<1>9. CASE RoundEnds
  BY <1>9 DEF RoundEnds
<1>10. CASE RoundsEnd
  BY <1>10 DEF RoundsEnd
<1>11. CASE BuildFix
  BY <1>11 DEF BuildFix
<1>12. CASE CodingOver
  BY <1>12 DEF CodingOver
<1>13. CASE TesterInvitedIn
  BY <1>13 DEF TesterInvitedIn
<1>14. CASE TestingOver
  BY <1>14 DEF TestingOver
<1>15. CASE Accepted
  BY <1>15 DEF Accepted
<1>16. ASSUME NEW passed \in BOOLEAN, NEW verdict \in {"plan", "code"},
              Rejected(passed, verdict)
       PROVE  TypeOK'
  <2>1. /\ scope' \in {"none", "plan", "code"}
        /\ pc' \in {"failed", "planning", "coding"}
        /\ UNCHANGED <<ticket, tree, plan, mode, tries, rounds, strayed,
                       tested, fixed>>
    BY <1>16 DEF Rejected, ScopeFromCoverage
  <2>2. attempt' \in 0..MaxAttempts /\ replans' \in 0..MaxAttempts
    <3>1. CASE attempt + 1 = MaxAttempts
      BY <1>16, <3>1 DEF Rejected
    <3>2. CASE attempt + 1 # MaxAttempts
      <4>1. attempt' = attempt + 1 /\ replans' \in {replans, replans + 1}
        BY <1>16, <3>2 DEF Rejected
      <4> QED
        BY <4>1
    <3> QED
      BY <3>1, <3>2
  <2>3. TypeOK
    OBVIOUS
  <2> HIDE DEF Inv
  <2> QED
    BY <2>1, <2>2, <2>3
<1>17. CASE UNCHANGED vars
  BY <1>17 DEF vars
<1> QED
  BY <1>1, <1>2, <1>3, <1>4, <1>5, <1>6, <1>7, <1>8, <1>9, <1>10, <1>11,
     <1>12, <1>13, <1>14, <1>15, <1>16, <1>17
  DEF Next

\* Attempts and replans keep to the bound.
LEMMA CountsStep == Inv /\ [Next]_vars => Counts'
<1> SUFFICES ASSUME Inv, [Next]_vars PROVE Counts'
  OBVIOUS
<1> USE PathsAssumption, CycleAssumption DEF Inv, TypeOK, Counts
<1>1. ASSUME NEW p \in Plans \cup {ticket.template},
             NEW m \in {"template", "model"},
             PlanAccepted(p, m)
      PROVE  Counts'
  BY <1>1 DEF PlanAccepted
<1>2. ASSUME NEW p \in Plans \cup {ticket.template},
             NEW m \in {"template", "model"},
             PlanRefused(p, m)
      PROVE  Counts'
  BY <1>2 DEF PlanRefused
<1>3. CASE FallBack
  BY <1>3 DEF FallBack
<1>4. ASSUME NEW n \in Names, NEW v \in Values(File[n]),
             CoderWrites(n, v)
      PROVE  Counts'
  BY <1>4 DEF CoderWrites, CoderRuns
<1>5. ASSUME NEW n \in Names, NEW v \in Values(File[n]),
             TesterWrites(n, v)
      PROVE  Counts'
  BY <1>5 DEF TesterWrites
<1>6. ASSUME NEW p \in Paths, NEW v \in Values(p),
             CommandWrites(p, v)
      PROVE  Counts'
  BY <1>6 DEF CommandWrites, CoderRuns
<1>7. CASE CodingEnds
  BY <1>7 DEF CodingEnds
<1>8. CASE RoundBegins
  BY <1>8 DEF RoundBegins
<1>9. CASE RoundEnds
  BY <1>9 DEF RoundEnds
<1>10. CASE RoundsEnd
  BY <1>10 DEF RoundsEnd
<1>11. CASE BuildFix
  BY <1>11 DEF BuildFix
<1>12. CASE CodingOver
  BY <1>12 DEF CodingOver
<1>13. CASE TesterInvitedIn
  BY <1>13 DEF TesterInvitedIn
<1>14. CASE TestingOver
  BY <1>14 DEF TestingOver
<1>15. CASE Accepted
  BY <1>15 DEF Accepted
<1>16. ASSUME NEW passed \in BOOLEAN, NEW verdict \in {"plan", "code"},
              Rejected(passed, verdict)
       PROVE  Counts'
  BY <1>16 DEF Rejected
<1>17. CASE UNCHANGED vars
  BY <1>17 DEF vars
<1> QED
  BY <1>1, <1>2, <1>3, <1>4, <1>5, <1>6, <1>7, <1>8, <1>9, <1>10, <1>11,
     <1>12, <1>13, <1>14, <1>15, <1>16, <1>17
  DEF Next

\* A plan reaches the Coder valid, or as the template.
LEMMA PlanStep == Inv /\ [Next]_vars => PlanIsSound'
<1> SUFFICES ASSUME Inv, [Next]_vars PROVE PlanIsSound'
  OBVIOUS
<1> USE PathsAssumption, CycleAssumption
    DEF Inv, TypeOK, PlanIsSound, InAttempt
<1>1. ASSUME NEW p \in Plans \cup {ticket.template},
             NEW m \in {"template", "model"},
             PlanAccepted(p, m)
      PROVE  PlanIsSound'
  <2>1. p \in Plan
    BY <1>1 DEF PlanAccepted, Offered, TemplateRuns
  <2> QED
    BY <1>1, <2>1 DEF PlanAccepted, Valid
<1>2. ASSUME NEW p \in Plans \cup {ticket.template},
             NEW m \in {"template", "model"},
             PlanRefused(p, m)
      PROVE  PlanIsSound'
  BY <1>2 DEF PlanRefused
<1>3. CASE FallBack
  <2>1. CASE TemplateRuns
    <3>1. ticket.template \in Plan /\ ticket.template.oos = {}
      BY <2>1 DEF TemplateRuns
    <3> QED
      BY <1>3, <3>1 DEF FallBack, ScopeOk
  <2> QED
    BY <1>3, <2>1 DEF FallBack
<1>4. ASSUME NEW n \in Names, NEW v \in Values(File[n]),
             CoderWrites(n, v)
      PROVE  PlanIsSound'
  BY <1>4 DEF CoderWrites, CoderRuns
<1>5. ASSUME NEW n \in Names, NEW v \in Values(File[n]),
             TesterWrites(n, v)
      PROVE  PlanIsSound'
  BY <1>5 DEF TesterWrites
<1>6. ASSUME NEW p \in Paths, NEW v \in Values(p),
             CommandWrites(p, v)
      PROVE  PlanIsSound'
  BY <1>6 DEF CommandWrites, CoderRuns
<1>7. CASE CodingEnds
  BY <1>7 DEF CodingEnds
<1>8. CASE RoundBegins
  BY <1>8 DEF RoundBegins
<1>9. CASE RoundEnds
  BY <1>9 DEF RoundEnds
<1>10. CASE RoundsEnd
  BY <1>10 DEF RoundsEnd
<1>11. CASE BuildFix
  BY <1>11 DEF BuildFix
<1>12. CASE CodingOver
  BY <1>12 DEF CodingOver
<1>13. CASE TesterInvitedIn
  BY <1>13 DEF TesterInvitedIn
<1>14. CASE TestingOver
  BY <1>14 DEF TestingOver
<1>15. CASE Accepted
  BY <1>15 DEF Accepted
<1>16. ASSUME NEW passed \in BOOLEAN, NEW verdict \in {"plan", "code"},
              Rejected(passed, verdict)
       PROVE  PlanIsSound'
  BY <1>16 DEF Rejected
<1>17. CASE UNCHANGED vars
  BY <1>17 DEF vars
<1> QED
  BY <1>1, <1>2, <1>3, <1>4, <1>5, <1>6, <1>7, <1>8, <1>9, <1>10, <1>11,
     <1>12, <1>13, <1>14, <1>15, <1>16, <1>17
  DEF Next

\* The first planning finds the working copy clean.
LEMMA FirstPlanningStep == Inv /\ [Next]_vars => FirstPlanning'
<1> SUFFICES ASSUME Inv, [Next]_vars PROVE FirstPlanning'
  OBVIOUS
<1> USE PathsAssumption, CycleAssumption
    DEF Inv, TypeOK, Counts, FirstPlanning, CoderRuns
<1>1. ASSUME NEW p \in Plans \cup {ticket.template},
             NEW m \in {"template", "model"},
             PlanAccepted(p, m)
      PROVE  FirstPlanning'
  BY <1>1 DEF PlanAccepted
<1>2. ASSUME NEW p \in Plans \cup {ticket.template},
             NEW m \in {"template", "model"},
             PlanRefused(p, m)
      PROVE  FirstPlanning'
  BY <1>2 DEF PlanRefused
<1>3. CASE FallBack
  BY <1>3 DEF FallBack
<1>4. ASSUME NEW n \in Names, NEW v \in Values(File[n]),
             CoderWrites(n, v)
      PROVE  FirstPlanning'
  BY <1>4 DEF CoderWrites, CoderRuns
<1>5. ASSUME NEW n \in Names, NEW v \in Values(File[n]),
             TesterWrites(n, v)
      PROVE  FirstPlanning'
  BY <1>5 DEF TesterWrites
<1>6. ASSUME NEW p \in Paths, NEW v \in Values(p),
             CommandWrites(p, v)
      PROVE  FirstPlanning'
  BY <1>6 DEF CommandWrites, CoderRuns
<1>7. CASE CodingEnds
  BY <1>7 DEF CodingEnds
<1>8. CASE RoundBegins
  BY <1>8 DEF RoundBegins
<1>9. CASE RoundEnds
  BY <1>9 DEF RoundEnds
<1>10. CASE RoundsEnd
  BY <1>10 DEF RoundsEnd
<1>11. CASE BuildFix
  BY <1>11 DEF BuildFix
<1>12. CASE CodingOver
  BY <1>12 DEF CodingOver
<1>13. CASE TesterInvitedIn
  BY <1>13 DEF TesterInvitedIn
<1>14. CASE TestingOver
  BY <1>14 DEF TestingOver
<1>15. CASE Accepted
  BY <1>15 DEF Accepted
<1>16. ASSUME NEW passed \in BOOLEAN, NEW verdict \in {"plan", "code"},
              Rejected(passed, verdict)
       PROVE  FirstPlanning'
  BY <1>16 DEF Rejected
<1>17. CASE UNCHANGED vars
  BY <1>17 DEF vars
<1> QED
  BY <1>1, <1>2, <1>3, <1>4, <1>5, <1>6, <1>7, <1>8, <1>9, <1>10, <1>11,
     <1>12, <1>13, <1>14, <1>15, <1>16, <1>17
  DEF Next

\* The first plan of the model was looked up in the clean working copy.
LEMMA LookedUpStep == Inv /\ [Next]_vars => FirstPlanLookedUp'
<1> SUFFICES ASSUME Inv, [Next]_vars PROVE FirstPlanLookedUp'
  OBVIOUS
<1> USE PathsAssumption, CycleAssumption
    DEF Inv, TypeOK, Counts, FirstPlanning, FirstPlanLookedUp, FirstPlan,
        InAttempt, CoderRuns
<1>1. ASSUME NEW p \in Plans \cup {ticket.template},
             NEW m \in {"template", "model"},
             PlanAccepted(p, m)
      PROVE  FirstPlanLookedUp'
  BY <1>1 DEF PlanAccepted, Valid
<1>2. ASSUME NEW p \in Plans \cup {ticket.template},
             NEW m \in {"template", "model"},
             PlanRefused(p, m)
      PROVE  FirstPlanLookedUp'
  BY <1>2 DEF PlanRefused
<1>3. CASE FallBack
  BY <1>3 DEF FallBack
<1>4. ASSUME NEW n \in Names, NEW v \in Values(File[n]),
             CoderWrites(n, v)
      PROVE  FirstPlanLookedUp'
  BY <1>4 DEF CoderWrites, CoderRuns
<1>5. ASSUME NEW n \in Names, NEW v \in Values(File[n]),
             TesterWrites(n, v)
      PROVE  FirstPlanLookedUp'
  BY <1>5 DEF TesterWrites
<1>6. ASSUME NEW p \in Paths, NEW v \in Values(p),
             CommandWrites(p, v)
      PROVE  FirstPlanLookedUp'
  BY <1>6 DEF CommandWrites, CoderRuns
<1>7. CASE CodingEnds
  BY <1>7 DEF CodingEnds
<1>8. CASE RoundBegins
  BY <1>8 DEF RoundBegins
<1>9. CASE RoundEnds
  BY <1>9 DEF RoundEnds
<1>10. CASE RoundsEnd
  BY <1>10 DEF RoundsEnd
<1>11. CASE BuildFix
  BY <1>11 DEF BuildFix
<1>12. CASE CodingOver
  BY <1>12 DEF CodingOver
<1>13. CASE TesterInvitedIn
  BY <1>13 DEF TesterInvitedIn
<1>14. CASE TestingOver
  BY <1>14 DEF TestingOver
<1>15. CASE Accepted
  BY <1>15 DEF Accepted
<1>16. ASSUME NEW passed \in BOOLEAN, NEW verdict \in {"plan", "code"},
              Rejected(passed, verdict)
       PROVE  FirstPlanLookedUp'
  BY <1>16 DEF Rejected
<1>17. CASE UNCHANGED vars
  BY <1>17 DEF vars
<1> QED
  BY <1>1, <1>2, <1>3, <1>4, <1>5, <1>6, <1>7, <1>8, <1>9, <1>10, <1>11,
     <1>12, <1>13, <1>14, <1>15, <1>16, <1>17
  DEF Next

\* Only commands and the Tester touch what the first plan has out of scope.
LEMMA UntouchedStep == Inv /\ [Next]_vars => OutOfScopeUntouched'
<1> SUFFICES ASSUME Inv, [Next]_vars PROVE OutOfScopeUntouched'
  OBVIOUS
<1> USE PathsAssumption, CycleAssumption, ExpectedPaths
    DEF Inv, TypeOK, Counts, FirstPlanning, PlanIsSound, OutOfScopeUntouched,
        FirstPlan, InAttempt, Clean, CoderRuns, Trees
<1>1. ASSUME NEW p \in Plans \cup {ticket.template},
             NEW m \in {"template", "model"},
             PlanAccepted(p, m)
      PROVE  OutOfScopeUntouched'
  <2>1. plan' \in Plan /\ pc' = "coding" /\ pc = "planning"
    BY <1>1, PlanStep DEF PlanAccepted
  <2>2. UNCHANGED <<tree, replans>>
    BY <1>1 DEF PlanAccepted
  <2> QED
    BY <2>1, <2>2
<1>2. ASSUME NEW p \in Plans \cup {ticket.template},
             NEW m \in {"template", "model"},
             PlanRefused(p, m)
      PROVE  OutOfScopeUntouched'
  BY <1>2 DEF PlanRefused
<1>3. CASE FallBack
  <2>1. CASE pc' = "coding"
    <3>1. plan' \in Plan /\ pc = "planning"
      BY <1>3, <2>1, PlanStep DEF FallBack
    <3>2. UNCHANGED <<tree, replans>>
      BY <1>3 DEF FallBack
    <3> QED
      BY <2>1, <3>1, <3>2
  <2>2. CASE pc' # "coding"
    BY <1>3, <2>2 DEF FallBack
  <2> QED
    BY <2>1, <2>2
<1>4. ASSUME NEW n \in Names, NEW v \in Values(File[n]),
             CoderWrites(n, v)
      PROVE  OutOfScopeUntouched'
  <2>1. n \notin plan.oos /\ UNCHANGED <<pc, plan, replans, tested>>
    BY <1>4 DEF CoderWrites, MayEdit
  <2> QED
    BY <1>4, <2>1, ToolWrites
<1>5. ASSUME NEW n \in Names, NEW v \in Values(File[n]),
             TesterWrites(n, v)
      PROVE  OutOfScopeUntouched'
  <2>1. /\ UNCHANGED <<pc, plan, replans>> /\ tested \subseteq tested'
        /\ n = File[n] => n \in tested'
    BY <1>5 DEF TesterWrites
  <2> QED
    BY <1>5, <2>1, ToolWrites
<1>6. ASSUME NEW p \in Paths, NEW v \in Values(p),
             CommandWrites(p, v)
      PROVE  OutOfScopeUntouched'
  BY <1>6, CommandedWrites
<1>7. CASE CodingEnds
  BY <1>7 DEF CodingEnds
<1>8. CASE RoundBegins
  BY <1>8 DEF RoundBegins
<1>9. CASE RoundEnds
  BY <1>9 DEF RoundEnds
<1>10. CASE RoundsEnd
  BY <1>10 DEF RoundsEnd
<1>11. CASE BuildFix
  BY <1>11 DEF BuildFix
<1>12. CASE CodingOver
  BY <1>12 DEF CodingOver
<1>13. CASE TesterInvitedIn
  BY <1>13 DEF TesterInvitedIn
<1>14. CASE TestingOver
  BY <1>14 DEF TestingOver
<1>15. CASE Accepted
  BY <1>15 DEF Accepted
<1>16. ASSUME NEW passed \in BOOLEAN, NEW verdict \in {"plan", "code"},
              Rejected(passed, verdict)
       PROVE  OutOfScopeUntouched'
  BY <1>16 DEF Rejected
<1>17. CASE UNCHANGED vars
  BY <1>17 DEF vars
<1> QED
  BY <1>1, <1>2, <1>3, <1>4, <1>5, <1>6, <1>7, <1>8, <1>9, <1>10, <1>11,
     <1>12, <1>13, <1>14, <1>15, <1>16, <1>17
  DEF Next

\* The coverage is read before anything else is written.
LEMMA CoverStep == Inv /\ [Next]_vars => CoverIsCurrent'
<1> SUFFICES ASSUME Inv, [Next]_vars PROVE CoverIsCurrent'
  OBVIOUS
<1> USE PathsAssumption, CycleAssumption, CoverageSays
    DEF Inv, TypeOK, CoverIsCurrent, Judged, Covered, CoderRuns
<1>1. ASSUME NEW p \in Plans \cup {ticket.template},
             NEW m \in {"template", "model"},
             PlanAccepted(p, m)
      PROVE  CoverIsCurrent'
  BY <1>1 DEF PlanAccepted
<1>2. ASSUME NEW p \in Plans \cup {ticket.template},
             NEW m \in {"template", "model"},
             PlanRefused(p, m)
      PROVE  CoverIsCurrent'
  BY <1>2 DEF PlanRefused
<1>3. CASE FallBack
  BY <1>3 DEF FallBack
<1>4. ASSUME NEW n \in Names, NEW v \in Values(File[n]),
             CoderWrites(n, v)
      PROVE  CoverIsCurrent'
  BY <1>4 DEF CoderWrites, CoderRuns
<1>5. ASSUME NEW n \in Names, NEW v \in Values(File[n]),
             TesterWrites(n, v)
      PROVE  CoverIsCurrent'
  BY <1>5 DEF TesterWrites
<1>6. ASSUME NEW p \in Paths, NEW v \in Values(p),
             CommandWrites(p, v)
      PROVE  CoverIsCurrent'
  BY <1>6 DEF CommandWrites, CoderRuns
<1>7. CASE CodingEnds
  BY <1>7 DEF CodingEnds
<1>8. CASE RoundBegins
  BY <1>8 DEF RoundBegins
<1>9. CASE RoundEnds
  BY <1>9 DEF RoundEnds
<1>10. CASE RoundsEnd
  BY <1>10 DEF RoundsEnd
<1>11. CASE BuildFix
  BY <1>11 DEF BuildFix
<1>12. CASE CodingOver
  BY <1>12 DEF CodingOver
<1>13. CASE TesterInvitedIn
  BY <1>13 DEF TesterInvitedIn
<1>14. CASE TestingOver
  BY <1>14 DEF TestingOver
<1>15. CASE Accepted
  BY <1>15 DEF Accepted
<1>16. ASSUME NEW passed \in BOOLEAN, NEW verdict \in {"plan", "code"},
              Rejected(passed, verdict)
       PROVE  CoverIsCurrent'
  BY <1>16 DEF Rejected
<1>17. CASE UNCHANGED vars
  BY <1>17 DEF vars
<1> QED
  BY <1>1, <1>2, <1>3, <1>4, <1>5, <1>6, <1>7, <1>8, <1>9, <1>10, <1>11,
     <1>12, <1>13, <1>14, <1>15, <1>16, <1>17
  DEF Next

\* The Tester is invited to a plan without tests and a change without tests.
LEMMA InvitedStep == Inv /\ [Next]_vars => TesterIsInvited'
<1> SUFFICES ASSUME Inv, [Next]_vars PROVE TesterIsInvited'
  OBVIOUS
<1> USE PathsAssumption, CycleAssumption
    DEF Inv, TypeOK, TesterIsInvited, CoderRuns
<1>1. ASSUME NEW p \in Plans \cup {ticket.template},
             NEW m \in {"template", "model"},
             PlanAccepted(p, m)
      PROVE  TesterIsInvited'
  BY <1>1 DEF PlanAccepted
<1>2. ASSUME NEW p \in Plans \cup {ticket.template},
             NEW m \in {"template", "model"},
             PlanRefused(p, m)
      PROVE  TesterIsInvited'
  BY <1>2 DEF PlanRefused
<1>3. CASE FallBack
  BY <1>3 DEF FallBack
<1>4. ASSUME NEW n \in Names, NEW v \in Values(File[n]),
             CoderWrites(n, v)
      PROVE  TesterIsInvited'
  BY <1>4 DEF CoderWrites, CoderRuns
<1>5. ASSUME NEW n \in Names, NEW v \in Values(File[n]),
             TesterWrites(n, v)
      PROVE  TesterIsInvited'
  <2>1. pc = "tester" /\ UNCHANGED <<pc, plan>> /\ n \in Tests
    BY <1>5 DEF TesterWrites, MayTest
  <2>2. CASE n = File[n]
    <3>1. /\ tree' \in Trees /\ \A q \in Paths \ Tests : tree'[q] = tree[q]
          /\ strayed' = strayed
      BY <1>5, <2>1, <2>2, ToolWrites
    <3>2. Shown(tree) \ TestEntries # {} => Shown(tree') \ TestEntries # {}
      BY <3>1, TestsKeepOthers
    <3> QED
      BY <2>1, <3>1, <3>2
  <2>3. CASE n # File[n]
    BY <1>5, <2>1, <2>3, ToolWrites
  <2> QED
    BY <2>2, <2>3
<1>6. ASSUME NEW p \in Paths, NEW v \in Values(p),
             CommandWrites(p, v)
      PROVE  TesterIsInvited'
  BY <1>6, CommandedWrites
<1>7. CASE CodingEnds
  BY <1>7 DEF CodingEnds
<1>8. CASE RoundBegins
  BY <1>8 DEF RoundBegins
<1>9. CASE RoundEnds
  BY <1>9 DEF RoundEnds
<1>10. CASE RoundsEnd
  BY <1>10 DEF RoundsEnd
<1>11. CASE BuildFix
  BY <1>11 DEF BuildFix
<1>12. CASE CodingOver
  BY <1>12 DEF CodingOver
<1>13. CASE TesterInvitedIn
  BY <1>13 DEF TesterInvitedIn, TesterInvited, NeedsNewTests
<1>14. CASE TestingOver
  BY <1>14 DEF TestingOver
<1>15. CASE Accepted
  BY <1>15 DEF Accepted
<1>16. ASSUME NEW passed \in BOOLEAN, NEW verdict \in {"plan", "code"},
              Rejected(passed, verdict)
       PROVE  TesterIsInvited'
  BY <1>16 DEF Rejected
<1>17. CASE UNCHANGED vars
  BY <1>17 DEF vars
<1> QED
  BY <1>1, <1>2, <1>3, <1>4, <1>5, <1>6, <1>7, <1>8, <1>9, <1>10, <1>11,
     <1>12, <1>13, <1>14, <1>15, <1>16, <1>17
  DEF Next

\* What the Tester writes leaves the coverage as it was taken.
LEMMA KeptStep == Inv /\ [Next]_vars => CoverageKept'
<1> SUFFICES ASSUME Inv, [Next]_vars PROVE CoverageKept'
  OBVIOUS
<1> USE PathsAssumption, CycleAssumption
    DEF Inv, TypeOK, CoverIsCurrent, Judged, TesterIsInvited, CoverageKept,
        CoderRuns
<1>1. ASSUME NEW p \in Plans \cup {ticket.template},
             NEW m \in {"template", "model"},
             PlanAccepted(p, m)
      PROVE  CoverageKept'
  BY <1>1 DEF PlanAccepted
<1>2. ASSUME NEW p \in Plans \cup {ticket.template},
             NEW m \in {"template", "model"},
             PlanRefused(p, m)
      PROVE  CoverageKept'
  BY <1>2 DEF PlanRefused
<1>3. CASE FallBack
  BY <1>3 DEF FallBack
<1>4. ASSUME NEW n \in Names, NEW v \in Values(File[n]),
             CoderWrites(n, v)
      PROVE  CoverageKept'
  BY <1>4 DEF CoderWrites, CoderRuns
<1>5. ASSUME NEW n \in Names, NEW v \in Values(File[n]),
             TesterWrites(n, v)
      PROVE  CoverageKept'
  <2>1. pc = "tester" /\ UNCHANGED <<cover, fixed, plan, pc>> /\ n \in Tests
    BY <1>5 DEF TesterWrites, MayTest
  <2>2. plan \in Plan
    BY <2>1 DEF PlanIsSound, InAttempt
  <2> SUFFICES ASSUME cover.ok, ~fixed, strayed' = {},
                      plan.oos \cap Tests = {}, Expected(plan) \subseteq Paths
               PROVE  Coverage(plan, tree').ok
    BY <2>1
  <2>3. /\ tree' \in Trees /\ \A q \in Paths \ Tests : tree'[q] = tree[q]
        /\ strayed = {}
    BY <1>5, <2>1, ToolWrites
  <2>4. Coverage(plan, tree).ok /\ Shown(tree) \ TestEntries # {}
        /\ Expected(plan) \cap Tests = {}
    BY <2>1, <2>3
  <2> QED
    BY <2>2, <2>3, <2>4, TestsKeepCoverage
<1>6. ASSUME NEW p \in Paths, NEW v \in Values(p),
             CommandWrites(p, v)
      PROVE  CoverageKept'
  BY <1>6, CommandedWrites
<1>7. CASE CodingEnds
  BY <1>7 DEF CodingEnds
<1>8. CASE RoundBegins
  BY <1>8 DEF RoundBegins
<1>9. CASE RoundEnds
  BY <1>9 DEF RoundEnds
<1>10. CASE RoundsEnd
  BY <1>10 DEF RoundsEnd
<1>11. CASE BuildFix
  BY <1>11 DEF BuildFix
<1>12. CASE CodingOver
  <2>1. CASE pc = "accepting"
    BY <1>12, <2>1 DEF CodingOver
  <2>2. CASE pc = "fixing"
    BY <1>12, <2>2 DEF CodingOver
  <2> QED
    BY <1>12, <2>1, <2>2 DEF CodingOver
<1>13. CASE TesterInvitedIn
  BY <1>13 DEF TesterInvitedIn
<1>14. CASE TestingOver
  BY <1>14 DEF TestingOver
<1>15. CASE Accepted
  BY <1>15 DEF Accepted
<1>16. ASSUME NEW passed \in BOOLEAN, NEW verdict \in {"plan", "code"},
              Rejected(passed, verdict)
       PROVE  CoverageKept'
  BY <1>16 DEF Rejected
<1>17. CASE UNCHANGED vars
  BY <1>17 DEF vars
<1> QED
  BY <1>1, <1>2, <1>3, <1>4, <1>5, <1>6, <1>7, <1>8, <1>9, <1>10, <1>11,
     <1>12, <1>13, <1>14, <1>15, <1>16, <1>17
  DEF Next

-----------------------------------------------------------------------------
(* The theorems *)

\* The initial states satisfy the invariant.
LEMMA InitInv == Init => Inv
<1> SUFFICES ASSUME Init PROVE Inv
  OBVIOUS
<1> USE PathsAssumption, CycleAssumption DEF Init
<1>1. tree \in Trees
  BY Kinds DEF Trees, Clean
<1>2. TypeOK
  <2>1. tries \in 0..MaxTries /\ rounds \in 0..MaxRounds
    OBVIOUS
  <2>2. attempt \in 0..MaxAttempts /\ replans \in 0..MaxAttempts
    OBVIOUS
  <2> QED
    BY <1>1, <2>1, <2>2 DEF TypeOK
<1>3. Counts
  BY DEF Counts
<1> QED
  BY <1>2, <1>3 DEF Inv, PlanIsSound, FirstPlanning, FirstPlanLookedUp,
     OutOfScopeUntouched, CoverIsCurrent, TesterIsInvited, CoverageKept,
     InAttempt, FirstPlan, Covered, Judged, Clean

\* Every reachable state satisfies the inductive invariant.
LEMMA Invariance == Spec => []Inv
<1>1. Inv /\ [Next]_vars => Inv'
  BY TypeStep, CountsStep, PlanStep, FirstPlanningStep, LookedUpStep,
     UntouchedStep, CoverStep, InvitedStep, KeptStep DEF Inv
<1> QED
  BY <1>1, InitInv, PTL DEF Spec

\* Plan, working copy and coverage keep their types through any number of
\* attempts.
THEOREM Typing == Spec => []TypeOK
BY Invariance, PTL DEF Inv

\* A plan the model answered and the planner looked up is never reported
\* covered while one of its files was neither there nor made, but for a test
\* whose directory was patched away.
THEOREM CoveredMeansThere == Spec => []SatisfiedMeansThere
<1>1. Inv => SatisfiedMeansThere
  <2> SUFFICES ASSUME Inv, Judged, cover.ok, mode = "model", replans = 0,
                      NEW n \in Expected(plan)
               PROVE  \/ IsFile(tree, n) \/ File[n] \in Known
                      \/ n \in Tests /\ ~HasParent(tree, n)
    BY DEF SatisfiedMeansThere
  <2>1. plan \in Plan /\ PathsOk(plan, Clean) /\ tree \in Trees
    BY DEF Inv, TypeOK, PlanIsSound, FirstPlanLookedUp, FirstPlan, InAttempt,
           Judged
  <2>2. Coverage(plan, tree).ok
    BY DEF Inv, CoverIsCurrent
  <2> QED
    BY <2>1, <2>2, CoveredIsThere
<1> QED
  BY <1>1, Invariance, PTL

\* The first plan of a ticket can be covered by writes its own gate admits, if
\* its files are shown and writable and nothing that gate does not ask wrote a
\* file the plan has out of scope.
THEOREM PlansCanBeDone == Spec => []PlanCanBeDone
<1>1. Inv => PlanCanBeDone
  <2> SUFFICES ASSUME Inv, pc \in {"coding", "round"}, replans = 0,
                      (strayed \cup tested) \cap plan.oos = {},
                      Expected(plan) # {}, Expected(plan) \subseteq Plain
               PROVE  Coverage(plan, Best).ok
    BY DEF PlanCanBeDone
  <2>1. plan \in Plan /\ ScopeOk(plan) /\ tree \in Trees
    BY DEF Inv, TypeOK, PlanIsSound, InAttempt
  <2>2. \A p \in Expected(plan) : p \in Paths /\ CanWrite(plan, p)
    BY <2>1 DEF ScopeOk, MayEdit, CanWrite, Plain
  <2> DEFINE made(x) == \E p \in Expected(plan) \cap Paths :
                           CanWrite(plan, p) /\ x \in {p, Dir[p]}
  <2>3. \A p \in Paths :
           Best[p] = IF p \in Expected(plan) THEN "edited" ELSE tree[p]
    <3>1. \A p \in Paths : made(p) <=> p \in Expected(plan)
      BY <2>2, Kinds
    <3> QED
      BY <3>1 DEF Best
  <2>4. \A p \in plan.oos \cap Paths : Best[p] = "same"
    <3>1. \A p \in plan.oos \cap Paths : tree[p] = "same"
      BY DEF Inv, OutOfScopeUntouched, FirstPlan, InAttempt
    <3> QED
      BY <2>1, <2>3, <3>1 DEF ScopeOk
  <2>5. Best \in Trees
    <3>1. \A d \in Dirs : Best[d] \in {"there", tree[d]}
      BY Kinds DEF Best
    <3>2. Best = [x \in Paths \cup Dirs |-> Best[x]]
      BY DEF Best
    <3> HIDE DEF Best
    <3> QED
      BY <2>1, <2>3, <3>1, <3>2 DEF Trees
  <2> QED
    BY <2>1, <2>2, <2>3, <2>4, <2>5, WrittenIsCovered
<1> QED
  BY <1>1, Invariance, PTL

\* The coverage the gate reads is still true when it reads it: the Tester
\* writes after it was taken, and only tests.
THEOREM TesterKeepsCovered == Spec => []TesterKeepsCoverage
<1>1. Inv => TesterKeepsCoverage
  BY DEF Inv, CoverageKept, TesterKeepsCoverage
<1> QED
  BY <1>1, Invariance, PTL

\* A retry of the code for missing files lets the Coder make one of them, if the
\* tools write the files the plan names.
THEOREM CodeRetriesCanHelp == Spec => CodeRetryCanHelp
<1>1. Inv /\ [Next]_vars =>
        [(pc = "review" /\ pc' = "coding" /\ cover.missing # {}) =>
            \/ cover.unexpected # {} \/ Expected(plan) \cap Refused # {}
            \/ \E n \in cover.missing :
                  ~IsFile(tree, n) /\ CanWrite(plan, n)]_vars
  <2> SUFFICES ASSUME Inv, [Next]_vars, pc = "review", pc' = "coding",
                      cover.missing # {}, cover.unexpected = {},
                      Expected(plan) \cap Refused = {}
               PROVE  \E n \in cover.missing :
                         ~IsFile(tree, n) /\ CanWrite(plan, n)
    OBVIOUS
  <2>1. plan \in Plan /\ ScopeOk(plan)
    BY DEF Inv, PlanIsSound, InAttempt
  <2>2. cover.missing \subseteq Expected(plan) /\ ~cover.ok
    BY DEF Inv, TypeOK, CoverIsCurrent, Covered
  <2>3. \A n \in cover.missing : CanWrite(plan, n)
    BY <2>1, <2>2 DEF ScopeOk, MayEdit, CanWrite
  <2>4. PICK passed \in BOOLEAN, verdict \in {"plan", "code"} :
           Rejected(passed, verdict)
    BY DEF Next, vars, PlanAccepted, PlanRefused, FallBack, CoderWrites,
           TesterWrites, CommandWrites, CoderRuns, CodingEnds, RoundBegins,
           RoundEnds, RoundsEnd, BuildFix, CodingOver, TesterInvitedIn,
           TestingOver, Accepted
  <2>5. scope' # "plan"
    BY <2>4 DEF Rejected
  <2>6. ScopeFromCoverage(cover, tree, passed) \notin {"plan", "none"}
    BY <2>2, <2>4, <2>5 DEF Rejected, ScopeFromCoverage
  <2>7. \E n \in cover.missing : ~IsFile(tree, n)
    BY <2>6 DEF ScopeFromCoverage
  <2> QED
    BY <2>3, <2>7
<1> QED
  BY <1>1, Invariance, PTL DEF Spec, CodeRetryCanHelp
=============================================================================
