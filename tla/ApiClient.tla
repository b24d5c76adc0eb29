-------------------------------- MODULE ApiClient --------------------------------
(***************************************************************************)
(* ui/src/lib/api.ts: the calls of the web console to the API.             *)
(*                                                                         *)
(* Nearly every call catches its own errors: a reader answers with an      *)
(* empty list (or zeros), a writer with undefined or false, and the error  *)
(* is shown as a toast.  Its caller therefore sees a promise that          *)
(* resolves, and only what it resolves to tells a failure from a success.  *)
(***************************************************************************)
EXTENDS Naturals, TLC

\* What becomes of one call: the API does it and answers, it refuses or is not
\* reached, or it does it and the answer does not arrive.
Outcomes == {"done", "refused", "lost"}
Performed(outcome) == outcome \in {"done", "lost"}

\* What the caller gets when the call fails.
Empty     == "empty"      \* [] or an object of zeros: looks like data
Undefined == "undefined"
False     == "false"
Throws    == "throws"     \* the promise rejects

HandleApiError(fallback) == fallback

(***************************************************************************)
(* The token.  What is stored in the browser comes before the one built    *)
(* in, and a stored blank counts as none.                                  *)
(***************************************************************************)
NoToken == ""
ResolveToken(stored, builtIn) == IF stored # NoToken THEN stored ELSE builtIn
AuthHeaders(stored, builtIn) ==
  LET token == ResolveToken(stored, builtIn) IN IF token = NoToken THEN {} ELSE {token}
Headers(json, stored, builtIn) ==
  (IF json THEN {"json"} ELSE {}) \cup AuthHeaders(stored, builtIn)
StoreToken(token) == token     \* setApiAuthToken: a blank removes the item
ClearToken == NoToken
GetApiAuthToken(stored, builtIn) == ResolveToken(stored, builtIn)

\* fetch, then the status: anything but 2xx throws, as does a body that is no JSON.
GetJson(outcome) == IF outcome = "done" THEN "json" ELSE Throws
Send(outcome) == IF outcome = "done" THEN "json" ELSE Throws

(***************************************************************************)
(* What each call answers when it fails                                    *)
(***************************************************************************)
JobCalls ==
  [getJobs |-> Empty, getAgentWorkflowAutomations |-> Empty, upsertAgentWorkflowAutomation |-> Undefined,
   createJob |-> Undefined, getJobVersions |-> Empty, rollbackJobVersion |-> Undefined,
   enableJob |-> False, disableJob |-> False, triggerJob |-> False]
RunCalls == [getRuns |-> Empty, getRun |-> Undefined]
ExperimentCalls ==
  [getExperiments |-> Empty, upsertExperiment |-> Undefined,
   setExperimentEnabled |-> Undefined, deleteExperiment |-> False]
TriggerCalls ==
  [getConnectors |-> Empty, getTriggers |-> Empty, upsertTrigger |-> Undefined, deleteTrigger |-> False]
\* A trigger is fired without a catch: the reader of the answer throws.
FireCalls ==
  [fireTriggerWebhook |-> Throws, fireTriggerTelegram |-> Throws, fireTriggerEmail |-> Throws,
   fireTriggerSlack |-> Throws, fireTriggerSms |-> Throws, fireTriggerVoice |-> Throws]
\* ... and with the trigger's own secret beside the token.
TriggerHeaders(json, secret, stored, builtIn) ==
  Headers(json, stored, builtIn) \cup (IF secret = "" THEN {} ELSE {secret})
SkillCalls ==
  [getSkills |-> Empty, upsertSkill |-> Undefined, deleteSkill |-> False, syncSkills |-> Undefined]
AccountCalls ==
  [getTelegramConnectorAccounts |-> Empty, upsertTelegramConnectorAccount |-> Undefined,
   deleteTelegramConnectorAccount |-> False,
   getMcpIntegrationServers |-> Empty, upsertMcpIntegrationServer |-> Undefined,
   deleteMcpIntegrationServer |-> False,
   getIntegrationAccounts |-> Empty, upsertIntegrationAccount |-> Undefined,
   deleteIntegrationAccount |-> False,
   getIntegrationsCatalog |-> Empty, bootstrapIntegrationsCatalog |-> Undefined]
AgentCalls == [getAgents |-> Empty, getAgentMemories |-> Empty, resetAgentMemory |-> Undefined]
MetricCalls == [checkHealth |-> False, getQueueMetrics |-> Empty, getSystemMetrics |-> Empty]
LogCalls == [getEvents |-> Empty, getAuditLogs |-> Empty]
ApprovalCalls ==
  [getApprovalRequests |-> Empty, approveApprovalRequest |-> Undefined, rejectApprovalRequest |-> Undefined]
BranchCalls == [getBranches |-> Empty]
ArmoryCalls == [getArmoryAccounts |-> Empty, addArmoryAccount |-> Undefined, deployAccount |-> False]
BoardroomCalls ==
  [getBoardroomHistory |-> Empty, sendChairmanMandate |-> False, getSystemInfrastructure |-> Empty]
PlannerCalls == [executePlannerPrompt |-> Throws]

\* Each call is in one of these groups.
CallGroups ==
  {JobCalls, RunCalls, ExperimentCalls, TriggerCalls, FireCalls, SkillCalls, AccountCalls, AgentCalls,
   MetricCalls, LogCalls, ApprovalCalls, BranchCalls, ArmoryCalls, BoardroomCalls, PlannerCalls}
OnFailure ==
  [call \in UNION {DOMAIN group : group \in CallGroups} |->
     (CHOOSE group \in CallGroups : call \in DOMAIN group)[call]]

Answer(call, outcome) == IF outcome = "done" THEN "answer" ELSE HandleApiError(OnFailure[call])

\* The promise of a call resolves or rejects; a page that looks at what it
\* resolved to can tell the two kinds of "resolved" apart.
Resolves(call, outcome) == Answer(call, outcome) # Throws
Confirms(call, outcome) == Answer(call, outcome) = "answer"

\* The four requests behind the system metrics fail one by one: a metric whose
\* request failed is zero, or offline, and the others are shown.
SystemMetrics(health, queue, agents, counts) ==
  [queue  |-> IF queue = "done" THEN counts.queue ELSE 0,
   workers |-> IF agents = "done" THEN counts.workers ELSE 0,
   online |-> health = "done"]
==================================================================================
