------------------------------ MODULE QueueModesMC ------------------------------
(***************************************************************************)
(* A job that is retried once and one that is not; an API, a scheduler and *)
(* worker processes with a slot each.                                      *)
(***************************************************************************)
EXTENDS QueueModes, TLC

CONSTANTS api, scheduler, w1, w2, a, s1, s2, r1, r2

MCHome1 == (a :> api) @@ (s1 :> w1)
MCHome2 == (a :> api) @@ (s1 :> w1) @@ (s2 :> w2)
MCRetries1 == (r1 :> 1)
MCRetries2 == (r1 :> 1) @@ (r2 :> 0)
================================================================================
