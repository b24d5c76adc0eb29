---------------------------- MODULE ApprovalQueueMC ----------------------------
(***************************************************************************)
(* Runs of one job: the scheduler's, clients' and triggers' requests share *)
(* its pending set and the list.                                           *)
(***************************************************************************)
EXTENDS ApprovalQueue

CONSTANTS r1, r2, c1, c2, agent

MCJobs == {agent}
MCRuns == {r1, r2}
MCJobOf == [r \in MCRuns |-> agent]
MCClients == {c1, c2}

\* Runs, and requests to the API, differ by their names only.
MCSymmetry == Permutations(MCRuns) \cup Permutations(MCClients)
================================================================================
