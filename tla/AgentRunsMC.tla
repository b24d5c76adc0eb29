---------------------------- MODULE AgentRunsMC ----------------------------
(* Instances of AgentRuns: two slots in processes of their own.            *)
EXTENDS AgentRuns

CONSTANTS w1, w2, api, get, deploy, models

MCProcesses == Slots \cup {api}
MCProcessOf == [s \in Slots |-> s]

(* One job asks before it goes on, the other does not.                     *)
OneAsks == [s \in Slots |-> s = w1]

(* A request, and a command that needs an approval.                        *)
TwoPlans == {<<>>, <<get>>, <<deploy, get, get>>}
TwoSteps == {get, deploy}

(* A request to a base URL with a path.                                    *)
RebasedPlans == {<<models>>}
=============================================================================
