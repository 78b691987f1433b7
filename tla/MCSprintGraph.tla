--------------------------- MODULE MCSprintGraph ---------------------------
(* TLC instances of SprintGraph.                                           *)
EXTENDS SprintGraph

Coverage(missing, hits, phantom, unexpected, ok) ==
    [missing |-> missing, hits |-> hits, phantom |-> phantom,
     unexpected |-> unexpected, ok |-> ok]

\* One result per way coverage can steer a retry: satisfied, a gap only the
\* Coder can close, an out-of-scope hit that sends the cycle back to the plan.
MCCoverages ==
    {Coverage(0, 0, FALSE, FALSE, TRUE), Coverage(1, 0, FALSE, FALSE, FALSE),
     Coverage(0, 1, FALSE, FALSE, FALSE)}
=============================================================================
