-------------------------- MODULE SingleSlotQueue --------------------------
(***************************************************************************)
(* What run_registry.py and ADR 0014 promise their callers: one run at a   *)
(* time, first come first served, and a waiting run may be withdrawn.  No  *)
(* tasks, semaphores or futures.                                           *)
(***************************************************************************)
EXTENDS Naturals, Sequences

CONSTANTS
    Runs,  \* run ids
    Free   \* nobody is running

VARIABLES
    queue,   \* runs waiting, in order
    active,  \* the run being executed, or Free
    over     \* runs that finished or were withdrawn

vars == <<queue, active, over>>

Member(s, r) == \E i \in DOMAIN s : s[i] = r

Init == queue = <<>> /\ active = Free /\ over = {}

Enqueue(r) ==
    /\ ~Member(queue, r) /\ active # r /\ r \notin over
    /\ queue' = Append(queue, r)
    /\ UNCHANGED <<active, over>>

Start ==
    /\ active = Free /\ queue # <<>>
    /\ active' = Head(queue)
    /\ queue' = Tail(queue)
    /\ UNCHANGED over

Finish ==
    /\ active # Free
    /\ active' = Free
    /\ over' = over \cup {active}
    /\ UNCHANGED queue

\* Any waiting run may leave; the others keep their order.
Withdraw(r) ==
    /\ \E i \in DOMAIN queue :
          /\ queue[i] = r
          /\ queue' = SubSeq(queue, 1, i - 1) \o SubSeq(queue, i + 1, Len(queue))
    /\ over' = over \cup {r}
    /\ UNCHANGED active

Next == Start \/ Finish \/ \E r \in Runs : Enqueue(r) \/ Withdraw(r)

Spec == Init /\ [][Next]_vars

\* While nobody runs, someone waiting is eventually started (or withdrawn).
\* That a started run finishes is not promised.
FairSpec == Spec /\ WF_vars(Start)
=============================================================================
