----------------------------- MODULE VectorIndex -----------------------------
(* The vector index of a repository (src/sprint_crew/vector): points in      *)
(* Qdrant, and in sqlite a manifest of the content each collection holds, so *)
(* that a pass re-embeds only what changed.  The shared collection "repo"    *)
(* follows the remote's head and is written by every session that prepares a *)
(* workspace and every run that plans (repo_context.maybe_index_shared); the *)
(* overlay "run" holds what a run's workspace has and the shared one lacks.  *)
(* Nothing locks a collection: passes of two sessions interleave.            *)
(*                                                                           *)
(* A file's content is a version number, 0 when it is absent.  An upsert     *)
(* replaces the points of the same line range only, so the points of two     *)
(* versions of a file can stand side by side.                                *)
EXTENDS Integers, Sequences, SequencesExt

CONSTANTS
    Files,          \* numbered in the order of their paths
    Preparers,      \* sessions on the same repository
    MaxVersion,     \* bound: content versions
    MaxMoves,       \* bound: commits, runs, edits, other repositories
    MaxFaults,      \* bound: failing passes and crashes
    Keep            \* vector_max_collections

ASSUME IndexAssumption ==
    /\ Files # {} /\ Files \subseteq Nat
    /\ Preparers # {} /\ "run" \notin Preparers
    /\ MaxVersion \in Nat \ {0} /\ MaxMoves \in Nat
    /\ MaxFaults \in Nat /\ Keep \in Nat \ {0}

Content == [Files -> 0..MaxVersion]
Gone == -1      \* a deleted file of the remote does not come back
Nothing == [f \in Files |-> 0]
Kept == {"repo", "run"}                 \* the collections looked into
Collections == Kept \cup {"other"}      \* another repository's, for the LRU
Threads == Preparers \cup {"run"}

NoPass == [at |-> "idle", target |-> Nothing, old |-> Nothing, todo |-> {}]

VARIABLES
    head,       \* the remote's content
    work,       \* the run's workspace, or Nothing when no run is on
    manifest,   \* index_files: what each collection is believed to hold
    points,     \* Qdrant: the versions of each file that have points
    made,       \* collections Qdrant has
    used,       \* index_collections, least recently used first
    pass,       \* the indexing pass of each thread
    evicting,   \* [c, left]: a collection being dropped, and those after it
    moves, faults,
    clone,      \* the checkout each session has still to index, or Nothing
    \* History.
    met,        \* collections two writers met on, or a crash split
    newest,     \* the newest clone a shared pass has begun with
    late        \* one began with an older clone than that

indexVars == <<head, work, manifest, points, made, used, pass, evicting, moves,
               faults, clone, met, newest, late>>

clones == <<clone, newest, late>>

Coll(t) == IF t = "run" THEN "run" ELSE "repo"
Active(c) == { t \in Threads : Coll(t) = c /\ pass[t].at # "idle" }
NoEviction == [c |-> "none", left |-> <<>>]

IndexTypeOK ==
    /\ head \in [Files -> Gone..MaxVersion] /\ work \in Content
    /\ manifest \in [Kept -> Content]
    /\ points \in [Kept -> [Files -> SUBSET (1..MaxVersion)]]
    /\ made \subseteq Collections /\ met \subseteq Kept
    /\ used \in Seq(Collections)
    /\ pass \in [Threads ->
                   [at : {"idle", "drop", "embed", "done"},
                    target : Content, old : Content, todo : SUBSET Files]]
    /\ evicting.c \in Collections \cup {"none"}
    /\ evicting.left \in Seq(Collections)
    /\ faults \in 0..MaxFaults /\ moves \in 0..MaxMoves
    /\ clone \in [Preparers -> Content] /\ newest \in Content
    /\ late \in BOOLEAN

IndexInit ==
    /\ head = [f \in Files |-> 1]
    /\ work = Nothing
    /\ manifest = [c \in Kept |-> Nothing]
    /\ points = [c \in Kept |-> [f \in Files |-> {}]]
    /\ made = {} /\ used = <<>>
    /\ pass = [t \in Threads |-> NoPass]
    /\ evicting = NoEviction /\ moves = 0 /\ faults = 0 /\ met = {}
    /\ clone = [s \in Preparers |-> Nothing]
    /\ newest = [f \in Files |-> 1] /\ late = FALSE

-----------------------------------------------------------------------------
(* plan_reindex.                                                             *)

Changed(old, new) == { f \in Files : new[f] # 0 /\ new[f] # old[f] }
\* Bug: a changed file is upserted over its old points.
DeletedOnly(old, new) == { f \in Files : new[f] = 0 /\ old[f] # 0 }
ToDrop(old, new) == { f \in Files : old[f] # 0 /\ new[f] # old[f] }

\* overlay_hashes: what differs from the shared collection's manifest.
Overlay(content) ==
    [f \in Files |-> IF content[f] = manifest["repo"][f] THEN 0
                     ELSE content[f]]

Touched(c) == Append(RemoveFirst(used, c), c)

Done(target) == [NoPass EXCEPT !.at = "done", !.target = target]

\* What an indexing pass of thread t sets out to do with these hashes.
Begin(t, target) ==
    LET old == manifest[Coll(t)]
        plan == Changed(old, target)
        nothing == plan = {} /\ ToDrop(old, target) = {}
    IN  /\ pass[t].at = "idle"
        /\ pass' = [pass EXCEPT ![t] =
              IF nothing THEN Done(target)
              ELSE [at |-> "drop", target |-> target, old |-> old,
                    todo |-> plan]]
        /\ used' = IF nothing /\ Coll(t) \in ToSet(used)
                   THEN Touched(Coll(t)) ELSE used
        /\ met' = IF Active(Coll(t)) # {} \/ evicting.c = Coll(t)
                   THEN met \cup {Coll(t)} ELSE met

\* prepare_workspace: the head as it is now.
Clone == [f \in Files |-> IF head[f] = Gone THEN 0 ELSE head[f]]

Cloned(s) ==
    /\ pass[s].at = "idle" /\ clone[s] = Nothing /\ Clone # Nothing
    /\ clone' = [clone EXCEPT ![s] = Clone]
    /\ UNCHANGED <<moves, head, work, manifest, points, made, used, pass,
                   evicting, faults, met, newest, late>>

\* A shared pass has begun with a later clone than this one: a file it has is
\* newer there, or deleted.
Overtaken(c) ==
    \E f \in Files : c[f] # 0 /\ (newest[f] = 0 \/ c[f] < newest[f])

\* maybe_index_shared, on the clone the session took some awaits ago.
IndexShared(s) ==
    /\ clone[s] # Nothing /\ Begin(s, clone[s])
    /\ clone' = [clone EXCEPT ![s] = Nothing]
    /\ IF Overtaken(clone[s]) THEN late' = TRUE /\ UNCHANGED newest
       ELSE newest' = clone[s] /\ UNCHANGED late
    /\ UNCHANGED <<moves, head, work, manifest, points, made, evicting,
                   faults>>

\* maybe_index_overlay, at the run's start and after the Coder.
IndexOverlay ==
    /\ work # Nothing /\ Begin("run", Overlay(work))
    /\ UNCHANGED <<moves, head, work, manifest, points, made, evicting,
                   faults, clones>>

Drop(t) ==
    /\ pass[t].at = "drop"
    /\ points' = [points EXCEPT ![Coll(t)] =
          [f \in Files |-> IF f \in ToDrop(pass[t].old, pass[t].target)
                           THEN {} ELSE @[f]]]
    /\ pass' = [pass EXCEPT ![t].at = "embed"]
    /\ UNCHANGED <<moves, head, work, manifest, made, used, evicting, faults,
                   met, clones>>

\* _embed_and_upsert, one file at a time, in the order of the paths.
Upsert(t) ==
    /\ pass[t].at = "embed" /\ pass[t].todo # {}
    /\ LET f == Min(pass[t].todo)
       IN  /\ points' = [points EXCEPT
                            ![Coll(t)][f] = @ \cup {pass[t].target[f]}]
           /\ pass' = [pass EXCEPT ![t].todo = @ \ {f}]
    /\ made' = made \cup {Coll(t)}
    /\ UNCHANGED <<moves, head, work, manifest, used, evicting, faults, met,
                   clones>>

\* manifest.apply: what the pass planned, not what the collection holds.
Apply(t) ==
    LET p == pass[t]
        delta == Changed(p.old, p.target) \cup ToDrop(p.old, p.target)
    IN  /\ p.at = "embed" /\ p.todo = {}
        /\ manifest' = [manifest EXCEPT ![Coll(t)] =
              [f \in Files |-> IF f \in delta THEN p.target[f] ELSE @[f]]]
        /\ used' = Touched(Coll(t))
        /\ pass' = [pass EXCEPT ![t] = Done(p.target)]
        /\ UNCHANGED <<moves, head, work, points, made, evicting, faults,
                       met, clones>>

\* Bug: the manifest is written in a finally clause.
PassFailsApplied(t) ==
    LET p == pass[t]
        delta == Changed(p.old, p.target) \cup ToDrop(p.old, p.target)
    IN  /\ p.at \in {"drop", "embed"} /\ faults < MaxFaults
        /\ faults' = faults + 1
        /\ pass' = [pass EXCEPT ![t] = NoPass]
        /\ manifest' = [manifest EXCEPT ![Coll(t)] =
              [f \in Files |-> IF f \in delta THEN p.target[f] ELSE @[f]]]
        /\ UNCHANGED <<moves, head, work, points, made, used, evicting, met,
                       clones>>

\* The sidecar, Qdrant or sqlite fails the pass; it is logged and given up.
PassFails(t) ==
    /\ pass[t].at \in {"drop", "embed"} /\ faults < MaxFaults
    /\ faults' = faults + 1
    /\ pass' = [pass EXCEPT ![t] = NoPass]
    /\ UNCHANGED <<moves, head, work, manifest, points, made, used, evicting,
                   met, clones>>

-----------------------------------------------------------------------------
(* Eviction and deletion.                                                    *)

\* enforce_collection_lru: every collection beyond the newest Keep, overlays
\* included, whoever is using it.
Evictable(order) == SubSeq(order, 1, Len(order) - Keep)

StartEviction(order) ==
    /\ evicting = NoEviction
    /\ evicting' = IF Evictable(order) = <<>> THEN NoEviction
                   ELSE [c |-> Head(Evictable(order)),
                         left |-> Tail(Evictable(order))]

\* A shared pass ends with the eviction pass, an overlay's does not.
PassEnds(t) ==
    /\ pass[t].at = "done"
    /\ IF t \in Preparers /\ pass[t].target # Nothing
       THEN StartEviction(used) ELSE UNCHANGED evicting
    /\ pass' = [pass EXCEPT ![t] = NoPass]
    /\ met' = IF evicting'.c \in Kept /\ evicting' # evicting
                  /\ Active(evicting'.c) \ {t} # {}
               THEN met \cup {evicting'.c} ELSE met
    /\ UNCHANGED <<moves, head, work, manifest, points, made, used, faults,
                   clones>>

\* Another repository is indexed.
OtherIndexed ==
    /\ moves < MaxMoves /\ moves' = moves + 1
    /\ used' = Touched("other") /\ made' = made \cup {"other"}
    /\ StartEviction(used')
    /\ met' = IF evicting'.c \in Kept /\ Active(evicting'.c) # {}
               THEN met \cup {evicting'.c} ELSE met
    /\ UNCHANGED <<head, work, manifest, points, pass, faults, clones>>

\* delete_index: the collection first,
DropCollection ==
    /\ evicting.c \in made
    /\ made' = made \ {evicting.c}
    /\ points' = IF evicting.c \in Kept
                 THEN [points EXCEPT ![evicting.c] = [f \in Files |-> {}]]
                 ELSE points
    /\ UNCHANGED <<moves, head, work, manifest, used, pass, evicting, faults,
                   met, clones>>

\* then its manifest.
Forget ==
    /\ evicting.c \notin made \cup {"none"}
    /\ manifest' = IF evicting.c \in Kept
                   THEN [manifest EXCEPT ![evicting.c] = Nothing]
                   ELSE manifest
    /\ used' = RemoveFirst(used, evicting.c)
    /\ evicting' = IF evicting.left = <<>> THEN NoEviction
                   ELSE [c |-> Head(evicting.left),
                         left |-> Tail(evicting.left)]
    /\ met' = IF evicting'.c \in Kept /\ Active(evicting'.c) # {}
               THEN met \cup {evicting'.c} ELSE met
    /\ UNCHANGED <<moves, head, work, points, made, pass, faults, clones>>

-----------------------------------------------------------------------------
(* The repository, the run and the process.                                  *)

\* A commit reaches the remote.
Push(f, v) ==
    /\ moves < MaxMoves /\ moves' = moves + 1
    /\ \/ v = head[f] + 1 /\ head[f] # Gone
       \/ v = Gone /\ head[f] > 0
    /\ head' = [head EXCEPT ![f] = v]
    /\ UNCHANGED <<work, manifest, points, made, used, pass, evicting, faults,
                   met, clones>>

RunStarts ==
    /\ moves < MaxMoves /\ moves' = moves + 1
    /\ work = Nothing /\ pass["run"].at = "idle" /\ "run" \notin made
    /\ work' = Clone
    /\ UNCHANGED <<head, manifest, points, made, used, pass, evicting, faults,
                   met, clones>>

CoderWrites(f) ==
    /\ work # Nothing /\ pass["run"].at = "idle" /\ work[f] < MaxVersion
    /\ moves < MaxMoves /\ moves' = moves + 1
    /\ work' = [work EXCEPT ![f] = @ + 1]
    /\ UNCHANGED <<head, manifest, points, made, used, pass, evicting, faults,
                   met, clones>>

\* _cleanup_vector_overlays.
RunEnds ==
    /\ work # Nothing /\ pass["run"].at = "idle" /\ evicting = NoEviction
    /\ work' = Nothing
    /\ evicting' = [c |-> "run", left |-> <<>>]
    /\ UNCHANGED <<moves, head, manifest, points, made, used, pass, faults,
                   met, clones>>

\* The process dies; the next one sweeps the collections no row names.
Crash ==
    /\ faults < MaxFaults /\ faults' = faults + 1
    /\ pass' = [t \in Threads |-> NoPass] /\ work' = Nothing
    /\ evicting' = NoEviction
    /\ made' = made \cap ToSet(used)
    /\ points' = [c \in Kept |-> IF c \in made' THEN points[c]
                                 ELSE [f \in Files |-> {}]]
    /\ met' = met \cup ({evicting.c} \cap Kept)
    /\ clone' = [s \in Preparers |-> Nothing]
    /\ UNCHANGED <<moves, head, manifest, used, newest, late>>

IndexNext ==
    \/ \E s \in Preparers : Cloned(s) \/ IndexShared(s)
    \/ IndexOverlay
    \/ \E t \in Threads :
          \/ Drop(t) \/ Upsert(t) \/ Apply(t) \/ PassFails(t) \/ PassEnds(t)
    \/ OtherIndexed \/ DropCollection \/ Forget
    \/ \E f \in Files : \/ CoderWrites(f)
                         \/ \E v \in Gone..MaxVersion : Push(f, v)
    \/ RunStarts \/ RunEnds \/ Crash

IndexSpec == IndexInit /\ [][IndexNext]_indexVars

-----------------------------------------------------------------------------
(* Properties.                                                               *)

\* While passes do not meet, fail or lose their process, the manifest says
\* exactly which content each collection has points for: no stale chunks, and
\* none missing.
StoreMatchesManifest ==
    \A c \in Kept :
        (faults = 0 /\ c \notin met /\ Active(c) = {} /\ evicting.c # c) =>
            \A f \in Files :
                points[c][f] = {manifest[c][f]} \ {0}

\* However many passes failed before it, a pass on the shared collection that
\* ends well leaves points for every file of its clone, if no other writer met
\* it, and sessions index in the order they cloned in.  (A file whose content
\* returns to an earlier version is outside the model, and is not safe; nor is
\* an overlay, whose baseline may be evicted.)
PassHeals ==
    \A t \in Preparers :
        (pass[t].at = "done" /\ "repo" \notin met /\ ~late) =>
            \A f \in Files : pass[t].target[f] # 0 =>
                                pass[t].target[f] \in points["repo"][f]

\* "Only ever called with a workspace whose content *is* the repository's
\* committed state" (repo_context.py): the same of sessions that index in any
\* order, each the state that was committed when it cloned.
PassAlwaysHeals ==
    \A t \in Preparers :
        (pass[t].at = "done" /\ "repo" \notin met) =>
            \A f \in Files : pass[t].target[f] # 0 =>
                                pass[t].target[f] \in points["repo"][f]
=============================================================================
