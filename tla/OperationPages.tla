------------------------------- MODULE OperationPages -------------------------------
(***************************************************************************)
(* The pages that act on rows other parts of the system make:              *)
(* jobs/page.tsx (run, enable, disable), agents/page.tsx (reset a memory), *)
(* the approvals of connectors/page.tsx and of automation/page.tsx, the    *)
(* mandate of page.tsx and the planner of prompt/page.tsx.                 *)
(*                                                                         *)
(* Jobs and agents share a shape: a flag disables the buttons from the     *)
(* click until the list was read again, or until the call failed.          *)
(***************************************************************************)
EXTENDS ConsolePage

OperationPageNames == {"jobs", "agents", "approvals", "approval-queue", "dashboard", "prompt"}

OperationStored ==
  [i \in Ids |-> IF page \in {"approvals", "approval-queue"} THEN "pending" ELSE CHOOSE c \in Contents : TRUE]
OperationEmpty ==
  CASE page = "jobs" -> [busy |-> "no"]
    [] page = "agents" -> [selected |-> Blank, busy |-> "no"]
    [] page = "approvals" -> [busy |-> Blank]
    [] page = "dashboard" -> [id |-> Blank, text |-> Blank]
    [] page = "prompt" -> [useAi |-> FALSE, rules |-> TRUE, provider |-> "auto", result |-> FALSE]
    [] OTHER -> [none |-> TRUE]

Busy == {"no", "request", "refetch"}
AiProviders == {"auto", "openai"}
OperationUi ==
  CASE page = "jobs" -> [busy : Busy]
    [] page = "agents" -> [selected : Ids \cup {Blank}, busy : Busy]
    [] page = "approvals" -> [busy : Ids \cup {Blank}]
    [] page = "dashboard" -> [id : Ids \cup {Blank}, text : Contents \cup {Blank}]
    [] page = "prompt" -> [useAi : BOOLEAN, rules : BOOLEAN, provider : AiProviders, result : BOOLEAN]
    [] OTHER -> [none : {TRUE}]

Free == ui.busy = "no"
Started_Flag == ui' = [ui EXCEPT !.busy = "act"]
Started == ui' = [ui EXCEPT !.busy = "request"]

\* After "await aksi()": a call that failed ends the work at once, one that was
\* confirmed ends it with the next reading; "finally" frees the buttons.
Finish(call, reader, q, o) ==
  IF Confirms(call, q.outcome)
    THEN Invalidate(reader, o, q) /\ SetUi(q, [ui EXCEPT !.busy = "refetch"])
    ELSE SetUi(q, [ui EXCEPT !.busy = "no"]) /\ UNCHANGED <<list, unseen>>
Refetched == IF ui.busy = "refetch" THEN [ui EXCEPT !.busy = "no"] ELSE ui

(***************************************************************************)
(* jobs/page.tsx: jalankanAksi                                             *)
(***************************************************************************)
JobQuery(o) == OnPage("jobs") /\ Poll("getJobs", o)

\* "Jalankan", and the one of "Aktifkan" and "Nonaktifkan" that the list asks for.
JobCanAct == Free
JobRun(id) ==
  /\ OnPage("jobs") /\ id \in Listed /\ JobCanAct
  /\ Request("act", id, Blank) /\ Started
  /\ UNCHANGED Click
JobToggle(id, content) ==
  /\ OnPage("jobs") /\ id \in Listed /\ content # Shown[id] /\ JobCanAct
  /\ Request("toggle", id, content) /\ Started
  /\ UNCHANGED Click

JobActed(q, o) ==
  /\ OnPage("jobs") /\ q.kind \in {"act", "toggle"} /\ Answered(q)
  /\ Over(q)
  /\ Finish("triggerJob", "getJobs", q, o)

(***************************************************************************)
(* agents/page.tsx: handleResetMemory                                      *)
(***************************************************************************)
AgentQuery(o) == OnPage("agents") /\ Poll("getAgentMemories", o)
AgentChoose(id) == OnPage("agents") /\ id \in Listed /\ ui' = [ui EXCEPT !.selected = id] /\ UNCHANGED Local

\* What the page shows when the agent chosen is not in the list (any more): the first.
FirstListed == IF Listed = {} THEN Blank ELSE CHOOSE i \in Listed : TRUE
ShownAgent == IF ui.selected \in Listed THEN ui.selected ELSE FirstListed

AgentReset ==
  /\ OnPage("agents") /\ ShownAgent # Blank /\ Free
  /\ Request("reset", ShownAgent, Blank) /\ Started
  /\ UNCHANGED Click

AgentWasReset(q, o) ==
  /\ OnPage("agents") /\ q.kind = "reset" /\ Answered(q)
  /\ Over(q)
  /\ Finish("resetAgentMemory", "getAgentMemories", q, o)

(***************************************************************************)
(* connectors/page.tsx: the approvals of triggers                          *)
(***************************************************************************)
ApprovalQuery(o) == OnPage("approvals") /\ Poll("getApprovalRequests", o)

\* One slot remembers which row is being decided: a second decision takes it over.
ApprovalDecide(id, content) ==
  /\ OnPage("approvals") /\ Shown[id] = "pending" /\ ui.busy # id
  /\ Request("decide", id, content)
  /\ ui' = [busy |-> id]
  /\ UNCHANGED Click

\* The first answer empties it; the answer is not looked at.
ApprovalDecided(q, o) ==
  /\ OnPage("approvals") /\ q.kind = "decide" /\ Answered(q)
  /\ Over(q)
  /\ Invalidate("getApprovalRequests", o, q)
  /\ SetUi(q, [busy |-> Blank])

(***************************************************************************)
(* automation/page.tsx: putuskanApproval                                   *)
(***************************************************************************)
QueueQuery(o) == OnPage("approval-queue") /\ Poll("getApprovalRequests", o)

\* The buttons of a pending row stay enabled.
QueueDecide(id, content) ==
  /\ OnPage("approval-queue") /\ Shown[id] = "pending"
  /\ Request("decide", id, content)
  /\ UNCHANGED Click /\ UNCHANGED ui

QueueDecided(q, o) ==
  /\ OnPage("approval-queue") /\ q.kind = "decide" /\ Answered(q)
  /\ Over(q)
  /\ IF Confirms("approveApprovalRequest", q.outcome)
       THEN Invalidate("getApprovalRequests", o, q) ELSE UNCHANGED <<list, unseen>>
  /\ UNCHANGED ui

(***************************************************************************)
(* page.tsx: the mandate                                                   *)
(***************************************************************************)
MandateQuery(o) == OnPage("dashboard") /\ Poll("getBoardroomHistory", o)
MandateType(id, content) == OnPage("dashboard") /\ ui' = [id |-> id, text |-> content] /\ UNCHANGED Local
MandateSend ==
  /\ OnPage("dashboard") /\ ui.text # Blank
  /\ Request("save", ui.id, ui.text)
  /\ UNCHANGED Click /\ UNCHANGED ui

\* The text goes away whether it was sent or not.
MandateSent(q, o) ==
  /\ OnPage("dashboard") /\ q.kind = "save" /\ Answered(q)
  /\ Over(q)
  /\ Invalidate("getBoardroomHistory", o, q)
  /\ SetUi(q, OperationEmpty)

(***************************************************************************)
(* prompt/page.tsx                                                         *)
(***************************************************************************)
PromptQuery(o) == OnPage("prompt") /\ Poll("getIntegrationAccounts", o)

\* The options of the form: the rules and the provider only count, and can only be
\* changed, with the AI on; nothing can be changed while a prompt is worked on.
PromptOption(useAi, rules, provider) ==
  /\ OnPage("prompt") /\ ~Pending({"plan"})
  /\ ~ui.useAi => rules = ui.rules /\ provider = ui.provider
  /\ ui' = [ui EXCEPT !.useAi = useAi, !.rules = rules, !.provider = provider]
  /\ UNCHANGED Local

PromptSubmit(id) ==
  /\ OnPage("prompt") /\ ~Pending({"plan"})
  /\ Request("plan", id, Blank)
  /\ UNCHANGED Click /\ UNCHANGED ui

\* The call rejects when it fails: then the result of an earlier prompt stays.
PromptDone(q) ==
  /\ OnPage("prompt") /\ q.kind = "plan" /\ Answered(q)
  /\ Over(q)
  /\ IF Resolves("executePlannerPrompt", q.outcome) THEN SetUi(q, [ui EXCEPT !.result = TRUE]) ELSE UNCHANGED ui
  /\ UNCHANGED <<list, unseen>>

(***************************************************************************)
(* The pages together                                                      *)
(***************************************************************************)
OperationLand == page \in OperationPageNames /\ Land(IF page \in {"jobs", "agents"} THEN Refetched ELSE ui)
OperationReopen == page \in OperationPageNames /\ Reopen(OperationEmpty)

OperationClicks ==
  \/ \E i \in Ids, c \in Contents : JobToggle(i, c)
  \/ \E i \in Ids, c \in {"approved", "rejected"} : ApprovalDecide(i, c) \/ QueueDecide(i, c)
  \/ \E i \in Ids : JobRun(i) \/ AgentChoose(i) \/ PromptSubmit(i)
  \/ \E d \in Drafts : MandateType(d[1], d[2])
  \/ \E ai, r \in BOOLEAN, p \in AiProviders : PromptOption(ai, r, p)
  \/ AgentReset \/ MandateSend
  \/ OperationReopen

OperationQueries ==
  \E o \in ReadOutcomes :
    JobQuery(o) \/ AgentQuery(o) \/ ApprovalQuery(o) \/ QueueQuery(o) \/ MandateQuery(o) \/ PromptQuery(o)

OperationAnswers ==
  \/ OperationLand
  \/ \E q \in requests, o \in ReadOutcomes :
       JobActed(q, o) \/ AgentWasReset(q, o) \/ ApprovalDecided(q, o) \/ QueueDecided(q, o) \/ MandateSent(q, o)
  \/ \E q \in requests : PromptDone(q)

OperationNext == OperationClicks \/ OperationQueries \/ OperationAnswers

OperationTypeOK == page \in OperationPageNames /\ ui \in OperationUi /\ BaseTypeOK
====================================================================================
