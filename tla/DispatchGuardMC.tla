--------------------------- MODULE DispatchGuardMC -----------------------------
(***************************************************************************)
(* Instances of DispatchGuard for TLC.  "ads" and "feed" are interval jobs *)
(* of one flow, "mail" is a cron job.                                      *)
(***************************************************************************)
EXTENDS DispatchGuard

Seconds(a, f) == [j \in Jobs |-> IF j = "ads" THEN a ELSE IF j = "feed" THEN f ELSE 0]
Each(n) == [j \in Jobs |-> n]

FlowGroups == {"content", "office"}
MCFlowOf == [j \in Jobs |-> IF j = "mail" THEN "office" ELSE "content"]
MCInterval == Seconds(1, 2)
MCOffset == Seconds(0, 1)
TwoPerFlow == Each(2)
NoFlowLimit == Each(0)

PairOrder == <<"ads", "feed">>
MixOrder == <<"ads", "mail">>
NoOffset == Each(0)
EachSecond == Seconds(1, 1)
================================================================================
