----------------------------- MODULE BacklogOrder -----------------------------
(***************************************************************************)
(* From the ScrumMaster's backlog to the order the stories are worked in   *)
(* (orchestrator/backlog.py).  normalize_backlog_plan merges the stories   *)
(* of a trivial prompt, drops the noise, sorts, and cuts the plan to the   *)
(* cap; create_jira_tickets and the batch loop sort what is left, which is *)
(* the same sort of the same plan and is modelled once.                    *)
(*                                                                         *)
(* A story is its place in the plan.  The two orders that matter are that  *)
(* one and the order of the keys, which the model chooses freely; the keys *)
(* are assumed distinct, which schemas/backlog.py does not ask of a plan.  *)
(* recommended_first is shown and never followed, and left out.            *)
(***************************************************************************)
EXTENDS Naturals, FiniteSets, Sequences, SequencesExt

CONSTANTS
    Size,   \* the stories of the plan
    Cap     \* max_backlog_stories, or 3 when the prompt says so

ASSUME BacklogAssumption == Size \in Nat \ {0} /\ Cap \in Nat \ {0}

Items == 1..Size

VARIABLES
    deps,     \* depends_on of each story (a list of keys; repeats cancel out)
    rank,     \* the place of each story's key in the alphabet
    at,       \* merge, drop, then sort, loop and leftovers: once before the
              \* cut and once after it; then batch
    cut,      \* the plan has been cut
    plan,     \* plan.stories
    degree,   \* indegree
    queue,
    ordered,
    whole     \* history: the plan before the cut

orderVars == <<deps, rank, at, cut, plan, degree, queue, ordered, whole>>
input == <<deps, rank>>

Present == ToSet(plan)
Place == [s \in Present |-> CHOOSE i \in DOMAIN plan : plan[i] = s]

\* A dependency on a key the plan does not have is skipped.
Deps(s) == deps[s] \cap Present

\* The one sequence of the stories of a set whose places rise.
InOrder(set, place) ==
    { q \in [1..Cardinality(set) -> set] :
        \A i, j \in DOMAIN q : i < j => place[q[i]] < place[q[j]] }

OrderTypeOK ==
    /\ deps \in [Items -> SUBSET Items]
    /\ rank \in [Items -> Items]
    /\ at \in {"merge", "drop", "sort", "loop", "leftovers", "cutting", "batch"}
    /\ cut \in BOOLEAN
    /\ plan \in Seq(Items) /\ whole \in Seq(Items)
    /\ degree \in [Items -> 0..Size]
    /\ queue \in Seq(Items) /\ ordered \in Seq(Items)

OrderInit ==
    /\ deps \in [Items -> SUBSET Items]
    /\ rank \in {r \in [Items -> Items] : IsInjective(r)}
    /\ at = "merge" /\ cut = FALSE
    /\ plan = [i \in Items |-> i] /\ whole = plan
    /\ degree = [s \in Items |-> 0]
    /\ queue = <<>> /\ ordered = <<>>

\* _merge_stories_to_one: the first story's key, and no dependencies.
Merge ==
    /\ at = "merge"
    /\ \/ /\ Len(plan) > 1                          \* a trivial prompt
          /\ plan' = <<Head(plan)>>
          /\ deps' = [deps EXCEPT ![Head(plan)] = {}]
       \/ UNCHANGED <<plan, deps>>
    /\ at' = "drop"
    /\ UNCHANGED <<rank, cut, degree, queue, ordered, whole>>

\* _drop_greeter_only_stories: unless nothing would be left.
Drop ==
    /\ at = "drop"
    /\ \E noise \in (SUBSET Present) \ {Present} :
          plan' \in InOrder(Present \ noise, Place)
    /\ whole' = plan'
    /\ at' = "sort"
    /\ UNCHANGED <<input, cut, degree, queue, ordered>>

-----------------------------------------------------------------------------
(* sort_stories.                                                             *)

Count ==
    /\ at = "sort"
    /\ degree' = [s \in Items |->
                    IF s \in Present THEN Cardinality(Deps(s)) ELSE 0]
    /\ queue' \in InOrder({s \in Present : Deps(s) = {}}, rank)
    /\ ordered' = <<>>
    /\ at' = "loop"
    /\ UNCHANGED <<input, cut, plan, whole>>

\* graph[key]; the children are visited in the order of the plan.
Children(s) == { c \in Present : s \in deps[c] }

\* Bug: a story is queued with its first dependency, not its last.
PopEager ==
    /\ at = "loop" /\ queue # <<>>
    /\ LET s == Head(queue)
           fresh == { c \in Children(s) : degree[c] = Cardinality(Deps(c)) }
       IN  /\ ordered' = Append(ordered, s)
           /\ degree' = [c \in Items |->
                 IF c \in Children(s) THEN degree[c] - 1 ELSE degree[c]]
           /\ \E ready \in InOrder(fresh, Place) :
                 queue' = Tail(queue) \o ready
    /\ UNCHANGED <<input, at, cut, plan, whole>>

Pop ==
    /\ at = "loop" /\ queue # <<>>
    /\ LET s == Head(queue)
       IN  /\ ordered' = Append(ordered, s)
           /\ degree' = [c \in Items |->
                 IF c \in Children(s) THEN degree[c] - 1 ELSE degree[c]]
           /\ LET free == { c \in Children(s) : degree'[c] = 0 }
              IN  \E ready \in InOrder(free, Place) :
                     queue' = Tail(queue) \o ready
    /\ UNCHANGED <<input, at, cut, plan, whole>>

\* What a cycle holds back is appended in the order of the plan.
Leftovers ==
    /\ at = "loop" /\ queue = <<>>
    /\ \E rest \in InOrder(Present \ ToSet(ordered), Place) :
          ordered' = ordered \o rest
    /\ at' = IF cut THEN "batch" ELSE "cutting"
    /\ UNCHANGED <<input, cut, plan, degree, queue, whole>>

-----------------------------------------------------------------------------
(* The cap.                                                                  *)

\* Bug: the cap is applied to the plan as the ScrumMaster wrote it.
CutUnsorted ==
    /\ at = "cutting"
    /\ plan' = IF Len(plan) > Cap THEN SubSeq(plan, 1, Cap) ELSE plan
    /\ cut' = TRUE /\ at' = "sort"
    /\ UNCHANGED <<input, degree, queue, ordered, whole>>

\* Only a plan that is too long takes over the sorted order.
Cut ==
    /\ at = "cutting"
    /\ plan' = IF Len(ordered) > Cap THEN SubSeq(ordered, 1, Cap) ELSE plan
    /\ cut' = TRUE /\ at' = "sort"
    /\ UNCHANGED <<input, degree, queue, ordered, whole>>

OrderNext == Merge \/ Drop \/ Count \/ Pop \/ Leftovers \/ Cut

OrderSpec == OrderInit /\ [][OrderNext]_orderVars

-----------------------------------------------------------------------------
(* Properties.                                                               *)

\* The stories of a set that cannot be ordered: every one of them waits for
\* another of them, so they are on a cycle or behind one.
Stuck(set) ==
    UNION {T \in SUBSET set : \A s \in T : deps[s] \cap T # {}}

Before(seq, a, b) ==
    \E i, j \in DOMAIN seq : i < j /\ seq[i] = a /\ seq[j] = b

\* sort_stories: "Return stories in dependency order (depends_on respected)".
\* Every story of the plan is worked exactly once, after everything it depends
\* on; those on or behind a cycle, for which that cannot be, come last.
DependenciesFirst ==
    at \in {"cutting", "batch"} =>
        LET stuck == Stuck(Present)
        IN  /\ Len(ordered) = Len(plan) /\ ToSet(ordered) = Present
            /\ \A s \in Present \ stuck : \A d \in Deps(s) :
                    Before(ordered, d, s)
            /\ \A s \in Present \ stuck, t \in stuck : Before(ordered, s, t)

\* The cap never keeps a story and drops what it depends on, cycles aside: the
\* Coder of a kept story finds its prerequisites merged or in the same batch.
CutKeepsDependencies ==
    cut => \A s \in Present \ Stuck(ToSet(whole)) :
               deps[s] \cap ToSet(whole) \subseteq Present

\* The lists the code builds out of the plan exist: no two stories share a key
\* or a place, so that whatever part of the plan is asked for, sorted() and the
\* loops over the plan can put it in order.
AlwaysInOrder ==
    \A set \in SUBSET Present : InOrder(set, Place) # {} /\ InOrder(set, rank) # {}
=============================================================================
