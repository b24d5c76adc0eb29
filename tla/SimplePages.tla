-------------------------------- MODULE SimplePages --------------------------------
(***************************************************************************)
(* The pages of the simple interface (ui-simple/src/pages): Jobs runs,     *)
(* enables and disables jobs, Runs shows the runs and the details of one,  *)
(* Builder makes jobs.  Its calls (lib/api.ts) answer as those of the      *)
(* console do when they fail.                                              *)
(***************************************************************************)
EXTENDS ConsolePage

SimplePageNames == {"simple-jobs", "simple-runs", "builder"}

(***************************************************************************)
(* lib/api.ts                                                              *)
(***************************************************************************)
SimpleMetricCalls == [checkHealth |-> False, getQueueMetrics |-> Empty]
SimpleReaders == [getConnectors |-> Empty, getAgents |-> Empty, getJobs |-> Empty]
SimpleWriters == [createJob |-> Undefined, enableJob |-> False, disableJob |-> False, triggerJob |-> False]
SimpleRunReaders == [getRuns |-> Empty, getRun |-> Undefined, getEvents |-> Empty]
SimpleCalls == SimpleMetricCalls @@ SimpleReaders @@ SimpleWriters @@ SimpleRunReaders

\* The polling interval of the browser, in milliseconds: no stored number, or one
\* that is not positive, counts as none; what is stored is never such a number.
DefaultRefresh == 5000
GetRefreshInterval(stored) == IF stored > 0 THEN stored ELSE DefaultRefresh
SetRefreshInterval(value) == IF value > 0 THEN value ELSE DefaultRefresh
\* Settings.tsx: the field has whole seconds, at least one.
SecondsShown(interval) == IF interval \div 1000 > 1 THEN interval \div 1000 ELSE 1

(***************************************************************************)
(* State of the pages                                                      *)
(***************************************************************************)
Slots == 1..2       \* the names input_1 and input_2 of a parameter
NoInputs == [k \in Slots |-> Blank]
Untouched == "untouched"   \* a parameter that was added and not typed in

\* What the list of runs can be filtered by: nothing, or one status.
Filters == {Blank, CHOOSE c \in Contents : TRUE}

SimpleEmpty ==
  CASE page = "simple-runs" ->
         [filter |-> Blank, cache |-> [f \in Filters |-> NoRead], detail |-> Blank, asked |-> Blank, overtaken |-> FALSE]
    [] page = "builder" ->
         [id |-> Blank, json |-> FALSE, error |-> FALSE, inputs |-> NoInputs, lost |-> FALSE]
    [] OTHER -> [none |-> TRUE]
SimpleUi ==
  CASE page = "simple-runs" ->
         [filter : Filters, cache : [Filters -> [rows : [Ids -> Values], outcome : ReadOutcomes \cup {"none"}]],
          detail : Ids \cup {Blank}, asked : Ids \cup {Blank}, overtaken : BOOLEAN]
    [] page = "builder" ->
         [id : Ids \cup {Blank}, json : BOOLEAN, error : BOOLEAN,
          inputs : [Slots -> Contents \cup {Blank, Untouched}], lost : BOOLEAN]
    [] OTHER -> [none : {TRUE}]

(***************************************************************************)
(* Jobs.tsx: no button is disabled; only a call that was confirmed is      *)
(* followed by a reading.                                                  *)
(***************************************************************************)
SimpleJobQuery(o) == OnPage("simple-jobs") /\ Poll("getJobs", o)
SimpleTrigger(id) ==
  /\ OnPage("simple-jobs") /\ id \in Listed
  /\ Request("act", id, Blank)
  /\ UNCHANGED Click /\ UNCHANGED ui
SimpleToggle(id, content) ==
  /\ OnPage("simple-jobs") /\ id \in Listed /\ content # Shown[id]
  /\ Request("toggle", id, content)
  /\ UNCHANGED Click /\ UNCHANGED ui
SimpleActed(q, o) ==
  /\ OnPage("simple-jobs") /\ Answered(q)
  /\ Over(q)
  /\ IF Confirms("enableJob", q.outcome) THEN Invalidate("getJobs", o, q) ELSE UNCHANGED <<list, unseen>>
  /\ UNCHANGED ui

(***************************************************************************)
(* Runs.tsx                                                                *)
(***************************************************************************)
SimpleRunsQuery(o) == OnPage("simple-runs") /\ Poll("getRuns", o)

\* A filter is part of the key of the query: another list is shown, at first what
\* the cache has of it, and read again unless that is younger than staleTime.  What
\* was on its way for the other list arrives in the cache.
RunsFilter(filter, o) ==
  /\ OnPage("simple-runs") /\ ui.detail = Blank /\ filter # ui.filter
  /\ ui' = [ui EXCEPT !.filter = filter, !.cache[ui.filter] = IF list.flight # NoRead THEN list.flight ELSE list.data]
  /\ \/ /\ list' = [data |-> ui.cache[filter], flight |-> Reading("getRuns", o)]
        /\ unseen' = IF o = "done" THEN {} ELSE unseen
     \/ /\ ui.cache[filter] # NoRead
        /\ list' = [data |-> ui.cache[filter], flight |-> NoRead]
        /\ unseen' = Ids
  /\ UNCHANGED <<page, rows, requests, sent, opened, latest, crossed>>
RunsShown == {i \in Listed : ui.filter \in {Blank, Shown[i]}}

\* A run goes on, by itself.
RunMoves(id, content) ==
  /\ OnPage("simple-runs") /\ rows[id] # content
  /\ rows' = [rows EXCEPT ![id] = content] /\ latest' = [latest EXCEPT ![id].content = content]
  /\ unseen' = unseen \cup {id}
  /\ UNCHANGED <<page, ui, list, requests, sent, opened, crossed>>

\* openDetail.  The dialog covers the list, but before an answer opens it more
\* details can be asked for.
DetailCanOpen == ui.detail = Blank
OpenDetail(id) ==
  /\ OnPage("simple-runs") /\ id \in RunsShown /\ DetailCanOpen
  /\ Request("act", id, Blank)
  /\ ui' = [ui EXCEPT !.asked = id, !.overtaken = @ \/ Pending({"act"})]
  /\ UNCHANGED Click

\* Each answer opens the dialog on its run, or replaces the run it is on.
DetailOpened_AnyRun(q) ==
  /\ OnPage("simple-runs") /\ Answered(q)
  /\ Over(q)
  /\ SetUi(q, IF Confirms("getRun", q.outcome) THEN [ui EXCEPT !.detail = CHOOSE i \in Ids : TRUE] ELSE ui)
  /\ UNCHANGED <<list, unseen>>
DetailOpened(q) ==
  /\ OnPage("simple-runs") /\ Answered(q)
  /\ Over(q)
  /\ SetUi(q, IF Confirms("getRun", q.outcome) THEN [ui EXCEPT !.detail = q.id] ELSE ui)
  /\ UNCHANGED <<list, unseen>>
DetailClose ==
  /\ OnPage("simple-runs") /\ ui.detail # Blank
  /\ ui' = [ui EXCEPT !.detail = Blank, !.overtaken = Pending({"act"})]
  /\ UNCHANGED Local

(***************************************************************************)
(* Builder.tsx                                                             *)
(***************************************************************************)
OnForm == OnPage("builder") /\ ~ui.json
BuilderMode == OnPage("builder") /\ ui' = [ui EXCEPT !.json = ~@] /\ UNCHANGED Local
BuilderId(id) == OnForm /\ ui' = [ui EXCEPT !.id = id] /\ UNCHANGED Local

Used == {k \in Slots : ui.inputs[k] # Blank}
InputValue(k, value) == OnForm /\ k \in Used /\ ui' = [ui EXCEPT !.inputs[k] = value] /\ UNCHANGED Local

\* handleAddInput names a parameter by the number there are, and so may name one
\* that is there: its value is emptied.
AddInput ==
  LET k == Cardinality(Used) + 1
  IN /\ OnForm /\ k \in Slots
     /\ ui' = [ui EXCEPT !.inputs[k] = Untouched]
     /\ UNCHANGED Local

\* handleInputKeyChange: not to a name in use.
Renamed_Over(old, new) ==
  [ui EXCEPT !.inputs = [@ EXCEPT ![new] = ui.inputs[old], ![old] = Blank],
             !.lost = ui.inputs[new] \in Contents]
Renamed(old, new) ==
  IF new \in Used THEN ui ELSE [ui EXCEPT !.inputs = [@ EXCEPT ![new] = ui.inputs[old], ![old] = Blank]]
RenameInput(old, new) == OnForm /\ old \in Used /\ old # new /\ ui' = Renamed(old, new) /\ UNCHANGED Local
RemoveInput(k) == OnForm /\ k \in Used /\ ui' = [ui EXCEPT !.inputs[k] = Blank] /\ UNCHANGED Local

\* saveSimple, which refuses a form without an id, and saveAdvanced, which refuses
\* what is no JSON.
SaveSimple ==
  /\ OnForm /\ ~Pending({"save"})
  /\ IF ui.id = Blank
       THEN ui' = [ui EXCEPT !.error = TRUE] /\ UNCHANGED <<requests, sent, crossed>>
       ELSE Request("save", ui.id, CHOOSE c \in Contents : TRUE) /\ UNCHANGED ui
  /\ UNCHANGED Click
SaveAdvanced(id, content) ==
  /\ OnPage("builder") /\ ui.json /\ ~Pending({"save"})
  /\ IF content = Blank
       THEN ui' = [ui EXCEPT !.error = TRUE] /\ UNCHANGED <<requests, sent, crossed>>
       ELSE Request("save", id, content) /\ ui' = [ui EXCEPT !.error = FALSE]
  /\ UNCHANGED Click

\* The answer is not looked at: "Tugas berhasil dibuat." whatever it is.  The list of
\* jobs is not on this page.
JobBuilt(q) ==
  /\ OnPage("builder") /\ Answered(q)
  /\ Over(q)
  /\ SetUi(q, [ui EXCEPT !.error = FALSE])
  /\ UNCHANGED <<list, unseen>>

(***************************************************************************)
(* The pages together                                                      *)
(***************************************************************************)
SimpleLand == page \in {"simple-jobs", "simple-runs"} /\ Land(ui)
\* The list of runs is left unfiltered here.
SimpleReopen == page \in {"simple-jobs", "builder"} /\ Reopen(SimpleEmpty)
RunsReopen ==
  OnPage("simple-runs") /\ ui.filter = Blank /\ Reopen([SimpleEmpty EXCEPT !.cache = ui.cache])

SimpleClicks ==
  \/ \E i \in Ids, c \in Contents : SimpleToggle(i, c)
  \/ \E d \in Drafts : RunMoves(d[1], d[2]) \/ (\E k \in Slots : InputValue(k, d[2]))
  \/ \E i \in Ids : SimpleTrigger(i) \/ OpenDetail(i) \/ BuilderId(i)
  \/ \E f \in Filters, o \in ReadOutcomes : RunsFilter(f, o)
  \/ DetailClose \/ BuilderMode \/ AddInput \/ SaveSimple
  \/ \E k \in Slots : RemoveInput(k) \/ (\E n \in Slots : RenameInput(k, n))
  \/ \E i \in Ids, c \in Contents \cup {Blank} : SaveAdvanced(i, c)
  \/ SimpleReopen \/ RunsReopen

SimpleAnswers ==
  \/ SimpleLand
  \/ \E o \in ReadOutcomes : SimpleJobQuery(o) \/ SimpleRunsQuery(o)
  \/ \E q \in requests, o \in ReadOutcomes : SimpleActed(q, o)
  \/ \E q \in requests : DetailOpened(q) \/ JobBuilt(q)

SimpleNext == SimpleClicks \/ SimpleAnswers

SimpleTypeOK == page \in SimplePageNames /\ ui \in SimpleUi /\ BaseTypeOK

\* What is typed for a parameter goes with its parameter only, or when a parameter is
\* added under a name in use: a renamed parameter never takes the place of another.
ParametersKept == page = "builder" => ~ui.lost

\* The dialog is on the run whose details were asked for last, unless they were asked
\* for, or the dialog was closed, with others on their way.
DetailIsAsked ==
  page = "simple-runs" /\ ~ui.overtaken => ui.detail \in {Blank, ui.asked}
====================================================================================
