-------------------------------- MODULE BatchSaves --------------------------------
(***************************************************************************)
(* One click, many saves: "Siapkan 3 Jalur Inti" and "Paket SaaS" of       *)
(* automation/page.tsx, "Simpan Semua Akun" and the daily jobs of          *)
(* settings/page.tsx.                                                      *)
(*                                                                         *)
(* A loop saves the rows one after the other, counts those that were       *)
(* confirmed, lists the others, and reports both at its end.  It works     *)
(* with what the form said at the click, and goes on when the page is left.*)
(* The buttons of the automation page are disabled meanwhile, the ones of  *)
(* the settings page are not.                                              *)
(***************************************************************************)
EXTENDS ConsolePage, Sequences, SequencesExt

CONSTANT Templates   \* the rows a ready-made batch saves, in order, each once
ASSUME BatchAssumption == Templates \in Seq(Ids) /\ Templates # <<>> /\ IsInjective(Templates)

AutomationNames == {"tracks", "packs"}
BatchPageNames == AutomationNames \cup {"accounts", "daily"}

TemplateContent == CHOOSE c \in Contents : TRUE
Ready == [i \in Ids |-> TemplateContent]

\* The editor of the accounts: rows that are in it, and whether their token was typed.
NoRow == [content |-> Blank, token |-> FALSE]
BatchEmpty ==
  [id |-> Blank, content |-> Blank, busy |-> FALSE,
   editor |-> [i \in Ids |-> NoRow], batches |-> {}, told |-> {}]

BatchUi ==
  [id : Ids \cup {Blank}, content : Contents \cup {Blank}, busy : BOOLEAN,
   editor : [Ids -> [content : Contents \cup {Blank}, token : BOOLEAN]],
   batches : SUBSET [first : 1..Limit, at : 1..Limit, items : SUBSET Ids, todo : BoundedSeq(Ids, Cardinality(Ids)),
                     what : [Ids -> Contents \cup {Blank}], done : SUBSET Ids, failed : SUBSET Ids, here : BOOLEAN],
   told : SUBSET [first : 1..Limit, items : SUBSET Ids, done : SUBSET Ids, failed : SUBSET Ids]]

(***************************************************************************)
(* The loop                                                                *)
(***************************************************************************)
StartBatch(items, what) ==
  /\ items # <<>>
  /\ Request("save", Head(items), what[Head(items)])
  /\ ui' = [ui EXCEPT !.busy = page \in AutomationNames,
                      !.batches = @ \cup {[first |-> sent + 1, at |-> sent + 1, items |-> ToSet(items),
                                           todo |-> Tail(items), what |-> what, done |-> {}, failed |-> {},
                                           here |-> TRUE]}]
  /\ UNCHANGED Click

\* What is left to do after an answer: all of it, whatever the answer.
Remaining_StopOnFailure(b, good) == IF good THEN b.todo ELSE <<>>
Remaining(b, good) == b.todo

Counted(b, q, good) ==
  [b EXCEPT !.done = IF good THEN @ \cup {q.id} ELSE @, !.failed = IF good THEN @ ELSE @ \cup {q.id}]

BatchNext(b, q, upsert) ==
  LET good == Confirms(upsert, q.outcome)
      todo == Remaining(b, good)
      next == [NewRequest("save", Head(todo), b.what[Head(todo)]) EXCEPT !.here = b.here]
  IN /\ Answered(q) /\ q.n = b.at /\ todo # <<>>
     /\ sent < Limit /\ sent' = sent + 1
     /\ requests' = (requests \ {q}) \cup {next}
     /\ crossed' = IF MayCross("save", next.id) THEN crossed \cup {next.id} ELSE crossed
     /\ ui' = [ui EXCEPT !.batches = (@ \ {b}) \cup
                 {[Counted(b, q, good) EXCEPT !.at = sent + 1, !.todo = Tail(todo)]}]
     /\ UNCHANGED <<page, rows, list, opened, latest, unseen>>

\* The end: what was counted is told, whether or not the page is still there, and the
\* editor's tokens are emptied, those of failed rows included.
BatchEnd(b, q, upsert) ==
  LET good == Confirms(upsert, q.outcome)
      sum  == Counted(b, q, good)
      told == [first |-> b.first, items |-> b.items, done |-> sum.done, failed |-> sum.failed]
      over == [ui EXCEPT !.batches = @ \ {b}, !.told = @ \cup {told}]
  IN /\ Answered(q) /\ q.n = b.at /\ Remaining(b, good) = <<>>
     /\ Over(q)
     /\ ui' = IF b.here
                THEN [over EXCEPT !.busy = FALSE, !.editor = [i \in Ids |-> [@[i] EXCEPT !.token = FALSE]]]
                ELSE over

\* The page is left: the loops go on, their state of the page is gone.
BatchReopen ==
  page \in BatchPageNames
    /\ Reopen([BatchEmpty EXCEPT !.batches = {[b EXCEPT !.here = FALSE] : b \in ui.batches}, !.told = ui.told])
BatchLand == page \in BatchPageNames /\ Land(ui)

(***************************************************************************)
(* automation/page.tsx                                                     *)
(***************************************************************************)
OnAutomation == page \in AutomationNames
AutomationQuery(o) == OnAutomation /\ Poll("getAgentWorkflowAutomations", o)
JobType(id, content) == OnAutomation /\ ui' = [ui EXCEPT !.id = id, !.content = content] /\ UNCHANGED Local

\* The presets, and "Pakai Jalur Ini": the form says what a template says.
JobPreset(id) == OnAutomation /\ ui' = [ui EXCEPT !.id = id, !.content = TemplateContent] /\ UNCHANGED Local

\* simpanJobOtomatis
JobSave ==
  /\ OnAutomation /\ ui.id # Blank /\ ui.content # Blank
  /\ ~\E q \in requests : q.kind = "save" /\ q.here /\ \A b \in ui.batches : b.at # q.n
  /\ Request("save", ui.id, ui.content)
  /\ UNCHANGED Click /\ UNCHANGED ui
JobSaved(q, o) ==
  /\ OnAutomation /\ q.kind = "save" /\ Answered(q) /\ \A b \in ui.batches : b.at # q.n
  /\ Over(q)
  /\ IF Confirms("upsertAgentWorkflowAutomation", q.outcome)
       THEN Invalidate("getAgentWorkflowAutomations", o, q) ELSE UNCHANGED <<list, unseen>>
  /\ UNCHANGED ui

\* jalankanAksiJob: run, or the one of enable and disable the list asks for.
RowRun(id) ==
  /\ OnAutomation /\ id \in Listed
  /\ Request("act", id, Blank)
  /\ UNCHANGED Click /\ UNCHANGED ui
RowToggle(id, content) ==
  /\ OnAutomation /\ id \in Listed /\ content # Shown[id]
  /\ Request("toggle", id, content)
  /\ UNCHANGED Click /\ UNCHANGED ui
RowActed(q, o) ==
  /\ OnAutomation /\ q.kind \in {"act", "toggle"} /\ Answered(q)
  /\ Over(q)
  /\ IF Confirms("enableJob", q.outcome)
       THEN Invalidate("getAgentWorkflowAutomations", o, q) ELSE UNCHANGED <<list, unseen>>
  /\ UNCHANGED ui

\* siapkanTigaJalurIntiSekaligus and buatPaketSaas: the flag is looked at again by the
\* handler.  The jobs of the one are not those of the other.
CanStart == ~ui.busy
TracksStart == OnPage("tracks") /\ CanStart /\ StartBatch(Templates, Ready)
PacksStart  == OnPage("packs") /\ CanStart /\ StartBatch(Templates, Ready)
AutomationStep(b, q) == OnAutomation /\ BatchNext(b, q, "upsertAgentWorkflowAutomation")
AutomationEnd(b, q, o) ==
  /\ OnAutomation /\ BatchEnd(b, q, "upsertAgentWorkflowAutomation")
  /\ InvalidateAfter("getAgentWorkflowAutomations", o, b.items)

(***************************************************************************)
(* settings/page.tsx: the editor of many accounts                          *)
(***************************************************************************)
OnAccounts == OnPage("accounts")
Edit(editor) == OnAccounts /\ ui' = [ui EXCEPT !.editor = editor] /\ UNCHANGED Local
InEditor == {i \in Ids : ui.editor[i].content # Blank}
AccountsQuery(o) == OnAccounts /\ Poll("getIntegrationAccounts", o)

AccountType(id, content) ==
  OnAccounts /\ id \in InEditor /\ Edit([ui.editor EXCEPT ![id] = [content |-> content, token |-> TRUE]])
\* tambahBarisInstagramManual: the first number that is not in the editor
AccountAdd ==
  OnAccounts /\ InEditor # Ids
    /\ Edit([ui.editor EXCEPT ![CHOOSE i \in Ids \ InEditor : TRUE] = [NoRow EXCEPT !.content = TemplateContent]])
AccountRemove(id) == OnAccounts /\ id \in InEditor /\ Edit([ui.editor EXCEPT ![id] = NoRow])

\* buatRangeAkunInstagram: drafts keep what they say, the others say what is saved.
AccountRange(range) ==
  Edit([i \in Ids |-> IF i \notin range THEN NoRow
                      ELSE IF i \in InEditor THEN ui.editor[i]
                      ELSE [content |-> IF i \in Listed THEN Shown[i] ELSE TemplateContent, token |-> FALSE]])
\* muatAkunInstagramTersimpanKeEditor: typed tokens are gone.
AccountsLoad ==
  OnAccounts /\ Listed # {} /\ Edit([i \in Ids |-> [content |-> Shown[i], token |-> FALSE]])

\* simpanSemuaAkunInstagram
AccountsSave == OnAccounts /\ StartBatch(SetToSeq(InEditor), [i \in Ids |-> ui.editor[i].content])
AccountsStep(b, q) == OnAccounts /\ BatchNext(b, q, "upsertIntegrationAccount")
AccountsEnd(b, q, o) ==
  /\ OnAccounts /\ BatchEnd(b, q, "upsertIntegrationAccount")
  /\ InvalidateAfter("getIntegrationAccounts", o, b.items)

(***************************************************************************)
(* settings/page.tsx: generateJobHarianInstagram, two jobs per account and *)
(* a report.  No list of jobs is on this page.                             *)
(***************************************************************************)
DailyStart == OnPage("daily") /\ StartBatch(Templates, Ready)
DailyStep(b, q) == OnPage("daily") /\ BatchNext(b, q, "upsertAgentWorkflowAutomation")
DailyEnd(b, q) ==
  OnPage("daily") /\ BatchEnd(b, q, "upsertAgentWorkflowAutomation") /\ UNCHANGED <<list, unseen>>

(***************************************************************************)
(* The pages together                                                      *)
(***************************************************************************)
BatchClicks ==
  \/ \E d \in Drafts : JobType(d[1], d[2]) \/ AccountType(d[1], d[2])
  \/ \E i \in Ids, c \in Contents : RowToggle(i, c)
  \/ \E i \in Ids : JobPreset(i) \/ RowRun(i) \/ AccountRemove(i)
  \/ \E range \in SUBSET Ids \ {{}} : AccountRange(range)
  \/ JobSave \/ TracksStart \/ PacksStart \/ AccountAdd \/ AccountsLoad \/ AccountsSave \/ DailyStart
  \/ BatchReopen

Batches == IF page \in BatchPageNames THEN ui.batches ELSE {}
BatchAnswers ==
  \/ BatchLand
  \/ \E o \in ReadOutcomes : AutomationQuery(o) \/ AccountsQuery(o)
  \/ \E q \in requests, o \in ReadOutcomes : JobSaved(q, o) \/ RowActed(q, o)
  \/ \E b \in Batches, q \in requests : AutomationStep(b, q) \/ AccountsStep(b, q) \/ DailyStep(b, q) \/ DailyEnd(b, q)
  \/ \E b \in Batches, q \in requests, o \in ReadOutcomes : AutomationEnd(b, q, o) \/ AccountsEnd(b, q, o)

BatchPagesNext == BatchClicks \/ BatchAnswers

BatchTypeOK == ui \in BatchUi /\ BaseTypeOK

\* What a batch tells at its end accounts for each of its rows, once: a row that fails
\* does not keep the others from being saved, and one counted as saved was saved by
\* the API after the click.
BatchesAccounted ==
  page \in BatchPageNames => \A t \in ui.told :
    /\ t.done \cup t.failed = t.items /\ t.done \cap t.failed = {}
    /\ \A i \in t.done : latest[i].n >= t.first
====================================================================================
