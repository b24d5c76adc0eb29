---------------------------- MODULE JobPipelineMC ------------------------------
(***************************************************************************)
(* Instances of JobPipeline for TLC.  "poll" is a job without              *)
(* allow_overlap and with retries; "burst" may overlap, has no retries.    *)
(***************************************************************************)
EXTENDS JobPipeline, TLC

CONSTANTS p1, p2, b1, w1, w2, c1, sched

MCJobs == {"poll", "burst"}
MCPools == {"default", "global", "remote"}
MCWorkers == {w1, w2}
OneWorker == {w1}
MCClients == {c1}
MCRetry == [j \in MCJobs |-> IF j = "poll" THEN 1 ELSE 0]
NoRetry == [j \in MCJobs |-> 0]

TwoRuns == {p1, p2}
OneRunEach == {p1, b1}
ThreeRuns == {p1, p2, b1}
RunJob == [r \in Runs |-> IF r = b1 THEN "burst" ELSE "poll"]

AllDefault == [j \in MCJobs |-> "default"]
OneRemote == [j \in MCJobs |-> IF j = "burst" THEN "remote" ELSE "default"]
DefaultWorkers == [w \in Workers |-> "default"]

RunSymmetry == Permutations({p1, p2}) \cup Permutations({w1, w2})
================================================================================
