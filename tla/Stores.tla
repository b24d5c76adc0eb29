---------------------------------- MODULE Stores ----------------------------------
(***************************************************************************)
(* The stores of rows and those that work from them: triggers, experiments *)
(* and Telegram accounts with the connector, whose rows are alike, and the *)
(* accounts of the armory.  The initial state chooses the store; what      *)
(* happens to the rows of one store does not touch those of another.       *)
(***************************************************************************)
EXTENDS TelegramConnector, Armory

vars == <<rowVars, connVars, armoryVars>>

Init == RowInit /\ ConnInit /\ ArmoryInit /\ store \in Stores \cup {"armory"}

\* A process dies; the connector matters to the Telegram store only.
Restart == \E p \in Processes : store # "telegram" /\ Die(p) /\ UNCHANGED connVars

Next ==
  \/ store \in Stores /\ UNCHANGED armoryVars /\ (RowStep \/ ConnNext \/ Restart)
  \/ store = "armory" /\ UNCHANGED <<rowVars, connVars>> /\ ArmoryNext

Spec == Init /\ [][Next]_vars

TypeOK == store \in Stores \cup {"armory"} /\ RowTypeOK /\ ConnTypeOK /\ ArmoryTypeOK
====================================================================================
