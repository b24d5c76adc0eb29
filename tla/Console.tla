---------------------------------- MODULE Console ----------------------------------
(***************************************************************************)
(* The pages of both interfaces, one at a time: the user opens one, works  *)
(* with it, leaves it and returns, while the API works on what was asked.  *)
(***************************************************************************)
EXTENDS EditorPages, OperationPages, JobVersions, SettingsPages, BatchSaves, SimplePages

TheContent == CHOOSE c \in Contents : TRUE
Every(content) == [i \in Ids |-> content]
Open(name, empty, stored) == page = name /\ ui = empty /\ BaseInit(stored)

\* A page is opened with rows stored that others made, or with none.
Init ==
  \/ \E p \in EditorPageNames \ {"experiments"} : Open(p, EmptyForm, Every(TheContent))
  \/ \E d \in Drafts : Open("experiments", EmptyForm, [Every(Blank) EXCEPT ![d[1]] = TheContent])
  \/ \E p \in OperationPageNames : page = p /\ ui = OperationEmpty /\ BaseInit(OperationStored)
  \/ \E d \in Drafts : Open("versions", VersionEmpty, [Every(MaxVersions) EXCEPT ![d[1]] = MaxVersions - 1])
  \/ \E p \in SectionNames, d \in Drafts : Open(p, SectionEmpty, [Every(Blank) EXCEPT ![d[1]] = TheContent])
  \/ \E built \in {NoToken, TheContent} : Open("browser", Opening(NoToken, FALSE, built, FALSE), Every(Blank))
  \/ Open("catalog", CatalogEmpty, Every(Blank))
  \/ \E p \in BatchPageNames : Open(p, BatchEmpty, Every(Blank))
  \/ \E p \in {"simple-jobs", "simple-runs", "builder"} :
       page = p /\ ui = SimpleEmpty /\ BaseInit(Every(IF p = "builder" THEN Blank ELSE TheContent))

\* The API works on a request; two pages say themselves what it does then.
ApiWorks(q, outcome) == page \notin {"versions", "catalog"} /\ Serve(q, outcome)

Next ==
  \/ EditorNext \/ OperationNext \/ VersionNext \/ SettingsNext \/ BatchPagesNext \/ SimpleNext
  \/ \E q \in requests, o \in Outcomes : ApiWorks(q, o)

Spec == Init /\ [][Next]_vars

TypeOK ==
  CASE page \in EditorPageNames -> EditorTypeOK
    [] page \in OperationPageNames -> OperationTypeOK
    [] page = "versions" -> VersionTypeOK
    [] page \in SettingsPageNames -> SettingsTypeOK
    [] page \in BatchPageNames -> BatchTypeOK
    [] OTHER -> SimpleTypeOK

\* What the user typed is lost for the causes the pages give, and no other.
InputKept == EditsLostForCause /\ SecretsLostForCause /\ ParametersKept

\* A panel tells what the API said last, of what the user asked for last.
PanelsTell == PanelTellsActive /\ DetailIsAsked
====================================================================================
