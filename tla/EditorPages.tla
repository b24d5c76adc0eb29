-------------------------------- MODULE EditorPages --------------------------------
(***************************************************************************)
(* The pages that edit a list of rows in one form: skills/page.tsx, the    *)
(* trigger manager of connectors/page.tsx, TriggersTab of                  *)
(* automation/page.tsx, experiments/page.tsx and armory/page.tsx.          *)
(*                                                                         *)
(* A form is the row it is for and what it says; the content Blank stands  *)
(* for one the page refuses (a missing name, JSON that does not parse).    *)
(* What happens to the form when an answer arrives differs per page: the   *)
(* callbacks are those of the latest render, so they see what was typed    *)
(* and selected while the request was on its way.                          *)
(***************************************************************************)
EXTENDS ConsolePage

EditorPageNames == {"skills", "triggers", "triggers-tab", "experiments", "armory"}

\* dirty says whether the form was typed in since it was filled or emptied, and
\* lost whether typed text was then overwritten by what the list showed all along.
EmptyForm == [id |-> Blank, content |-> Blank, selected |-> Blank, dirty |-> FALSE, lost |-> FALSE]
EditorUi ==
  [id : Ids \cup {Blank}, content : Contents \cup {Blank}, selected : Ids \cup {Blank},
   dirty : BOOLEAN, lost : BOOLEAN]

Filled(id) == [id |-> id, content |-> Shown[id], selected |-> id, dirty |-> FALSE, lost |-> FALSE]
Typed(id, content) == [ui EXCEPT !.id = id, !.content = content, !.dirty = TRUE]
Complete == ui.id # Blank /\ ui.content # Blank

(***************************************************************************)
(* skills/page.tsx                                                         *)
(***************************************************************************)
SkillQuery(o) == OnPage("skills") /\ Poll("getSkills", o)

\* Every field stays editable while requests are on their way.
SkillType(id, content) == OnPage("skills") /\ ui' = Typed(id, content) /\ UNCHANGED Local

\* selectSkill: a click on a row of the list.
SkillSelect(id) == OnPage("skills") /\ id \in Listed /\ ui' = Filled(id) /\ UNCHANGED Local
SkillClear == OnPage("skills") /\ ui' = EmptyForm /\ UNCHANGED Local

SkillCanSave_Always == TRUE
SkillCanSave == ~Pending({"save"})
SkillSave ==
  /\ OnPage("skills") /\ SkillCanSave /\ Complete
  /\ Request("save", ui.id, ui.content)
  /\ UNCHANGED Click /\ UNCHANGED ui

\* The answer is not looked at.  The id selected is the one in the form by now.
SkillSaved_NoRefetch(q, o) ==
  /\ OnPage("skills") /\ q.kind = "save" /\ Answered(q)
  /\ Over(q)
  /\ SetUi(q, [ui EXCEPT !.selected = ui.id])
  /\ UNCHANGED <<list, unseen>>
SkillSaved(q, o) ==
  /\ OnPage("skills") /\ q.kind = "save" /\ Answered(q)
  /\ Over(q)
  /\ Invalidate("getSkills", o, q)
  /\ SetUi(q, [ui EXCEPT !.selected = ui.id])

\* What is deleted is the row selected, which need not be the one in the form.
SkillDelete ==
  /\ OnPage("skills") /\ ui.selected # Blank /\ ~Pending({"delete"})
  /\ Request("delete", ui.selected, Blank)
  /\ UNCHANGED Click /\ UNCHANGED ui

SkillDeleted(q, o) ==
  /\ OnPage("skills") /\ q.kind = "delete" /\ Answered(q)
  /\ Over(q)
  /\ Invalidate("getSkills", o, q)
  /\ SetUi(q, EmptyForm)

\* Sync from JSON, here of one skill.
SkillSync(id, content) ==
  /\ OnPage("skills") /\ ~Pending({"sync"})
  /\ Request("sync", id, content)
  /\ UNCHANGED Click /\ UNCHANGED ui

SkillSynced(q, o) ==
  /\ OnPage("skills") /\ q.kind = "sync" /\ Answered(q)
  /\ Over(q)
  /\ Invalidate("getSkills", o, q)
  /\ UNCHANGED ui

(***************************************************************************)
(* The trigger manager of connectors/page.tsx                              *)
(***************************************************************************)
TriggerQuery(o) == OnPage("triggers") /\ Poll("getTriggers", o)
TriggerType(id, content) == OnPage("triggers") /\ ui' = Typed(id, content) /\ UNCHANGED Local

\* From the drop-down or the table.
TriggerSelect(id) == OnPage("triggers") /\ id \in Listed /\ ui' = Filled(id) /\ UNCHANGED Local
TriggerDeselect == OnPage("triggers") /\ ui' = EmptyForm /\ UNCHANGED Local

\* "Trigger Baru" and "Reset" empty the form and keep the selection.
TriggerReset == OnPage("triggers") /\ ui' = [EmptyForm EXCEPT !.selected = ui.selected] /\ UNCHANGED Local

\* Typed text is lost for nothing when a row that was listed, and reads the same, is
\* applied to the form again.
ForNothing(before, after) == ui.dirty /\ before.rows[ui.selected] = after.rows[ui.selected]

\* The effect on [selectedTriggerId, selectedTrigger].  The query cache keeps the
\* object of a row that reads the same, so the effect runs when the row changed,
\* and when it is back after a reading that failed.
Reapplies_Always(before, after) == after.rows[ui.selected] # Blank
Reapplies(before, after) ==
  /\ after.rows[ui.selected] # Blank
  /\ after.rows[ui.selected] # before.rows[ui.selected]

TriggerForm(before, after) ==
  IF ui.selected # Blank /\ Reapplies(before, after)
    THEN [id |-> ui.selected, content |-> after.rows[ui.selected], selected |-> ui.selected,
          dirty |-> FALSE, lost |-> ForNothing(before, after)]
    ELSE ui

TriggerCanSave == ~Pending({"save"})
TriggerSave ==
  /\ OnPage("triggers") /\ TriggerCanSave /\ Complete
  /\ Request("save", ui.id, ui.content)
  /\ UNCHANGED Click /\ UNCHANGED ui

\* Without a row in the answer nothing happens; with one it is selected, and the
\* effect fills the form with what the list shows of it.
TriggerSaved(q, o) ==
  /\ OnPage("triggers") /\ q.kind = "save" /\ Answered(q)
  /\ Over(q)
  /\ IF Confirms("upsertTrigger", q.outcome)
       THEN /\ Invalidate("getTriggers", o, q)
            /\ SetUi(q, IF ui.selected = q.id THEN ui
                        ELSE IF q.id \in Listed THEN Filled(q.id)
                        ELSE [ui EXCEPT !.selected = q.id])
       ELSE UNCHANGED <<ui, list, unseen>>

TriggerDelete ==
  /\ OnPage("triggers") /\ ui.selected # Blank /\ ~Pending({"delete"})
  /\ Request("delete", ui.selected, Blank)
  /\ UNCHANGED Click /\ UNCHANGED ui

\* The boolean the call answers is not looked at.
TriggerDeleted(q, o) ==
  /\ OnPage("triggers") /\ q.kind = "delete" /\ Answered(q)
  /\ Over(q)
  /\ Invalidate("getTriggers", o, q)
  /\ SetUi(q, IF ui.selected = q.id THEN EmptyForm ELSE ui)

\* A trial of the selected trigger, per channel: these calls reject, so a failure
\* is reported as one.
TriggerFire ==
  /\ OnPage("triggers") /\ ui.selected \in Listed /\ ~Pending({"act"})
  /\ Request("act", ui.selected, Blank)
  /\ UNCHANGED Click /\ UNCHANGED ui

TriggerFired(q) ==
  /\ OnPage("triggers") /\ q.kind = "act" /\ Answered(q)
  /\ Over(q)
  /\ UNCHANGED <<ui, list, unseen>>

(***************************************************************************)
(* TriggersTab of automation/page.tsx                                      *)
(***************************************************************************)
TabQuery(o) == OnPage("triggers-tab") /\ Poll("getTriggers", o)
TabType(id, content) == OnPage("triggers-tab") /\ ui' = [Typed(id, content) EXCEPT !.dirty = FALSE] /\ UNCHANGED Local
TabEdit(id) == OnPage("triggers-tab") /\ id \in Listed /\ ui' = [Filled(id) EXCEPT !.selected = Blank] /\ UNCHANGED Local
TabReset == OnPage("triggers-tab") /\ ui' = EmptyForm /\ UNCHANGED Local

TabCanSave == ~Pending({"save"})
TabSave ==
  /\ OnPage("triggers-tab") /\ TabCanSave /\ Complete
  /\ Request("save", ui.id, ui.content)
  /\ UNCHANGED Click /\ UNCHANGED ui

\* The answer is not looked at, and the form is emptied.
TabSaved(q, o) ==
  /\ OnPage("triggers-tab") /\ q.kind = "save" /\ Answered(q)
  /\ Over(q)
  /\ Invalidate("getTriggers", o, q)
  /\ SetUi(q, EmptyForm)

\* Behind a confirm; the buttons of the list are never disabled.
TabDelete(id) ==
  /\ OnPage("triggers-tab") /\ id \in Listed
  /\ Request("delete", id, Blank)
  /\ UNCHANGED Click /\ UNCHANGED ui

TabDeleted(q, o) ==
  /\ OnPage("triggers-tab") /\ q.kind = "delete" /\ Answered(q)
  /\ Over(q)
  /\ Invalidate("getTriggers", o, q)
  /\ UNCHANGED ui

\* handleTest: one webhook, sent at once; a failure is reported as one.
TabTest(id) ==
  /\ OnPage("triggers-tab") /\ id \in Listed
  /\ Request("act", id, Blank)
  /\ UNCHANGED Click /\ UNCHANGED ui

TabTested(q) ==
  /\ OnPage("triggers-tab") /\ q.kind = "act" /\ Answered(q)
  /\ Over(q)
  /\ UNCHANGED <<ui, list, unseen>>

(***************************************************************************)
(* experiments/page.tsx                                                    *)
(***************************************************************************)
ExperimentQuery(o) == OnPage("experiments") /\ Poll("getExperiments", o)

\* The id is fixed while a row is edited.
ExperimentType(id, content) ==
  /\ OnPage("experiments") /\ (ui.selected # Blank => id = ui.id)
  /\ ui' = [Typed(id, content) EXCEPT !.dirty = FALSE]
  /\ UNCHANGED Local

ExperimentEdit(id) == OnPage("experiments") /\ id \in Listed /\ ui' = Filled(id) /\ UNCHANGED Local
ExperimentReset == OnPage("experiments") /\ ui' = EmptyForm /\ UNCHANGED Local

ExperimentCanSave == ~Pending({"save"})
ExperimentSave ==
  /\ OnPage("experiments") /\ ExperimentCanSave /\ Complete
  /\ Request("save", ui.id, ui.content)
  /\ UNCHANGED Click /\ UNCHANGED ui

\* Only a confirmed save empties the form.
ExperimentSaved(q, o) ==
  /\ OnPage("experiments") /\ q.kind = "save" /\ Answered(q)
  /\ Over(q)
  /\ IF Confirms("upsertExperiment", q.outcome)
       THEN Invalidate("getExperiments", o, q) /\ SetUi(q, EmptyForm)
       ELSE UNCHANGED <<ui, list, unseen>>

\* "Aktifkan" and "Matikan": the other of what the list shows.
ExperimentToggle(id, content) ==
  /\ OnPage("experiments") /\ id \in Listed /\ content # Shown[id] /\ ~Pending({"toggle"})
  /\ Request("toggle", id, content)
  /\ UNCHANGED Click /\ UNCHANGED ui

ExperimentToggled(q, o) ==
  /\ OnPage("experiments") /\ q.kind = "toggle" /\ Answered(q)
  /\ Over(q)
  /\ IF Confirms("setExperimentEnabled", q.outcome)
       THEN Invalidate("getExperiments", o, q) ELSE UNCHANGED <<list, unseen>>
  /\ UNCHANGED ui

ExperimentDelete(id) ==
  /\ OnPage("experiments") /\ id \in Listed /\ ~Pending({"delete"})
  /\ Request("delete", id, Blank)
  /\ UNCHANGED Click /\ UNCHANGED ui

ExperimentDeleted(q, o) ==
  /\ OnPage("experiments") /\ q.kind = "delete" /\ Answered(q)
  /\ Over(q)
  /\ IF Confirms("deleteExperiment", q.outcome)
       THEN Invalidate("getExperiments", o, q) /\ SetUi(q, IF ui.selected = q.id THEN EmptyForm ELSE ui)
       ELSE UNCHANGED <<ui, list, unseen>>

(***************************************************************************)
(* armory/page.tsx                                                         *)
(***************************************************************************)
ArmoryQuery(o) == OnPage("armory") /\ Poll("getArmoryAccounts", o)
ArmoryType(id, content) == OnPage("armory") /\ ui' = [Typed(id, content) EXCEPT !.dirty = FALSE] /\ UNCHANGED Local

\* Only an empty form disables the button, not a request on its way.
ArmoryAdd ==
  /\ OnPage("armory") /\ Complete
  /\ Request("save", ui.id, ui.content)
  /\ UNCHANGED Click /\ UNCHANGED ui

\* The answer is not looked at: the form, with the password, is emptied.
ArmoryAdded(q, o) ==
  /\ OnPage("armory") /\ q.kind = "save" /\ Answered(q)
  /\ Over(q)
  /\ Invalidate("getArmoryAccounts", o, q)
  /\ SetUi(q, EmptyForm)

(***************************************************************************)
(* The pages together                                                      *)
(***************************************************************************)
EditorLand == page \in EditorPageNames /\ Land(IF page = "triggers" THEN TriggerForm(list.data, list.flight) ELSE ui)
EditorReopen == page \in EditorPageNames /\ Reopen(EmptyForm)

EditorClicks ==
  \/ \E d \in Drafts :
       \/ SkillType(d[1], d[2]) \/ SkillSync(d[1], d[2]) \/ TriggerType(d[1], d[2])
       \/ TabType(d[1], d[2]) \/ ExperimentType(d[1], d[2]) \/ ArmoryType(d[1], d[2])
  \/ \E i \in Ids, c \in Contents : ExperimentToggle(i, c)
  \/ \E i \in Ids :
       SkillSelect(i) \/ TriggerSelect(i) \/ TabEdit(i) \/ TabDelete(i) \/ TabTest(i)
         \/ ExperimentEdit(i) \/ ExperimentDelete(i)
  \/ SkillClear \/ SkillSave \/ SkillDelete
  \/ TriggerDeselect \/ TriggerReset \/ TriggerSave \/ TriggerDelete \/ TriggerFire
  \/ TabReset \/ TabSave
  \/ ExperimentReset \/ ExperimentSave
  \/ ArmoryAdd
  \/ EditorReopen

EditorQueries ==
  \E o \in ReadOutcomes :
    SkillQuery(o) \/ TriggerQuery(o) \/ TabQuery(o) \/ ExperimentQuery(o) \/ ArmoryQuery(o)

EditorAnswers ==
  \/ EditorLand
  \/ \E q \in requests, o \in ReadOutcomes :
       \/ SkillSaved(q, o) \/ SkillDeleted(q, o) \/ SkillSynced(q, o)
       \/ TriggerSaved(q, o) \/ TriggerDeleted(q, o)
       \/ TabSaved(q, o) \/ TabDeleted(q, o)
       \/ ExperimentSaved(q, o) \/ ExperimentToggled(q, o) \/ ExperimentDeleted(q, o)
       \/ ArmoryAdded(q, o)
  \/ \E q \in requests : TriggerFired(q) \/ TabTested(q)

EditorNext == EditorClicks \/ EditorQueries \/ EditorAnswers

EditorTypeOK == page \in EditorPageNames /\ ui \in EditorUi /\ BaseTypeOK

\* Text typed into the trigger form is overwritten only when the row it is for was
\* changed or saved, or when the list is back after a reading that failed: not by
\* a reading that shows the row as it was.
EditsLostForCause == page = "triggers" => ~ui.lost
====================================================================================
