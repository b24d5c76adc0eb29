-------------------------------- MODULE JobVersions --------------------------------
(***************************************************************************)
(* jobs/page.tsx: the version history of the jobs.  The page keeps what it *)
(* read of it per job, does not read it again when a panel is reopened,    *)
(* and rolls a job back to an older version, which the API stores as a new *)
(* one.                                                                    *)
(*                                                                         *)
(* Version k of a job is its k-th, so a history read is its length, with 0 *)
(* for the empty list a reader that failed answers.  One slot remembers    *)
(* which job is being read and one which version is being rolled back to,  *)
(* whatever else is on its way.                                            *)
(***************************************************************************)
EXTENDS ConsolePage

CONSTANT MaxVersions

ASSUME VersionAssumption == MaxVersions \in Nat \ {0, 1}

NotLoaded == MaxVersions + 1
Histories == 0..MaxVersions
Nothing == <<Blank, 0>>
VersionEmpty ==
  [panel |-> Blank, loaded |-> [j \in Ids |-> NotLoaded], detail |-> [j \in Ids |-> 0],
   loading |-> Blank, rolling |-> Nothing]
VersionUi ==
  [panel : Ids \cup {Blank}, loaded : [Ids -> Histories \cup {NotLoaded}], detail : [Ids -> Histories],
   loading : Ids \cup {Blank}, rolling : (Ids \X Histories) \cup {Nothing}]

\* What is done when a reading is answered: nothing more, show the newest version,
\* or free the rollback slot.
Loads == {"load", "load and show", "load and free"}

Ask(kind, id, version) ==
  /\ sent < Limit /\ sent' = sent + 1
  /\ requests' = requests \cup {NewRequest(kind, id, version)}

OnVersions == OnPage("versions")
Clicked == <<page, rows, list, opened, latest, crossed, unseen>>

\* muatVersiJob, up to its await
LoadVersions(kind, id, value) == Ask(kind, id, 0) /\ ui' = [value EXCEPT !.loading = id]

\* togglePanelVersi: a history that was read once is not read again.
ToggleVersions(id) ==
  /\ OnVersions /\ ui.loading # id
  /\ IF ui.panel = id THEN ui' = [ui EXCEPT !.panel = Blank] /\ UNCHANGED <<requests, sent>>
     ELSE LET opening == [ui EXCEPT !.panel = id]
          IN IF ui.loaded[id] = NotLoaded THEN LoadVersions("load", id, opening)
             ELSE ui' = opening /\ UNCHANGED <<requests, sent>>
  /\ UNCHANGED Clicked

Newest(value, id) == IF value.loaded[id] = 0 THEN value ELSE [value EXCEPT !.detail[id] = value.loaded[id]]

\* bukaDetailSpecVersiAktif
OpenActiveVersion(id) ==
  /\ OnVersions /\ ui.loading # id
  /\ LET opening == [ui EXCEPT !.panel = id]
     IN IF ui.loaded[id] = NotLoaded THEN LoadVersions("load and show", id, opening)
        ELSE ui' = Newest(opening, id) /\ UNCHANGED <<requests, sent>>
  /\ UNCHANGED Clicked

\* "Muat Ulang", in an open panel
ReloadVersions(id) ==
  /\ OnVersions /\ ui.panel = id /\ ui.loading # id
  /\ LoadVersions("load", id, ui)
  /\ UNCHANGED Clicked

\* The versions a panel lists; none while its job is being read.
Offered(id) ==
  IF ui.panel = id /\ ui.loading # id /\ ui.loaded[id] # NotLoaded THEN 1..ui.loaded[id] ELSE {}

ToggleDetail(id, version) ==
  /\ OnVersions /\ version \in Offered(id)
  /\ ui' = [ui EXCEPT !.detail[id] = IF ui.detail[id] = version THEN 0 ELSE version]
  /\ UNCHANGED Local

\* rollbackVersiJob: not to the newest version listed, nor to the one in the slot.
RollBack(id, version) ==
  /\ OnVersions /\ version \in Offered(id) \ {ui.loaded[id]} /\ ui.rolling # <<id, version>>
  /\ Ask("rollback", id, version)
  /\ ui' = [ui EXCEPT !.rolling = <<id, version>>]
  /\ UNCHANGED Clicked

\* The API reads the history, or stores the version's specification as a new one.
VersionServed(q, outcome) ==
  /\ OnVersions /\ q.outcome = "sent"
  /\ requests' = (requests \ {q}) \cup
       {[q EXCEPT !.outcome = outcome,
                  !.content = IF q.kind = "rollback" THEN q.content
                              ELSE IF outcome = "done" THEN rows[q.id] ELSE 0]}
  /\ IF q.kind = "rollback"
       THEN /\ rows' = [rows EXCEPT ![q.id] = @ + IF Performed(outcome) THEN 1 ELSE 0]
            /\ rows'[q.id] <= MaxVersions
            /\ unseen' = IF Performed(outcome) /\ ~(q.here /\ outcome = "done") THEN unseen \cup {q.id} ELSE unseen
       ELSE /\ unseen' = IF ~q.here THEN unseen
                          ELSE IF outcome = "done" THEN unseen \ {q.id} ELSE unseen \cup {q.id}
            /\ UNCHANGED rows
  /\ UNCHANGED <<page, ui, list, sent, opened, latest, crossed>>

\* Someone else saves the job.
SavedElsewhere(id) ==
  /\ OnVersions /\ rows[id] < MaxVersions
  /\ rows' = [rows EXCEPT ![id] = @ + 1] /\ unseen' = unseen \cup {id}
  /\ UNCHANGED <<page, ui, list, requests, sent, opened, latest, crossed>>

\* A reading is answered: it is shown even if it is older than what is shown, and
\* the slot is freed even if it holds another job.
VersionsLoaded(q) ==
  /\ OnVersions /\ q.kind \in Loads /\ Answered(q)
  /\ Over(q)
  /\ LET read == [ui EXCEPT !.loaded[q.id] = q.content, !.loading = Blank]
     IN SetUi(q, CASE q.kind = "load and show" -> Newest(read, q.id)
                   [] q.kind = "load and free" -> [read EXCEPT !.rolling = Nothing]
                   [] OTHER -> read)
  /\ unseen' = IF q.here /\ ui.loaded[q.id] # NotLoaded /\ q.content < ui.loaded[q.id]
                 THEN unseen \cup {q.id} ELSE unseen
  /\ UNCHANGED <<list>>

\* A rollback is answered: confirmed, the history is read again.
RolledBack_NoReload(q) ==
  /\ OnVersions /\ q.kind = "rollback" /\ Answered(q)
  /\ requests' = requests \ {q}
  /\ SetUi(q, [ui EXCEPT !.rolling = Nothing])
  /\ UNCHANGED <<page, rows, list, sent, opened, latest, crossed, unseen>>
RolledBack(q) ==
  /\ OnVersions /\ q.kind = "rollback" /\ Answered(q)
  /\ IF q.here /\ Confirms("rollbackJobVersion", q.outcome)
       THEN /\ sent < Limit /\ sent' = sent + 1
            /\ requests' = (requests \ {q}) \cup
                 {[q EXCEPT !.n = sent + 1, !.kind = "load and free", !.content = 0, !.outcome = "sent"]}
            /\ ui' = [ui EXCEPT !.loading = q.id]
       ELSE requests' = requests \ {q} /\ SetUi(q, [ui EXCEPT !.rolling = Nothing]) /\ UNCHANGED sent
  /\ UNCHANGED <<page, rows, list, opened, latest, crossed, unseen>>

VersionsReopen == OnVersions /\ Reopen(VersionEmpty)

VersionNext ==
  \/ \E j \in Ids : ToggleVersions(j) \/ OpenActiveVersion(j) \/ ReloadVersions(j) \/ SavedElsewhere(j)
  \/ \E j \in Ids, v \in 1..MaxVersions : ToggleDetail(j, v) \/ RollBack(j, v)
  \/ \E q \in requests, o \in Outcomes : VersionServed(q, o)
  \/ \E q \in requests : VersionsLoaded(q) \/ RolledBack(q)
  \/ VersionsReopen

VersionTypeOK ==
  /\ OnVersions /\ ui \in VersionUi /\ rows \in [Ids -> 1..MaxVersions]
  /\ requests \subseteq
       [n : 1..Limit, kind : Loads \cup {"rollback"}, id : Ids, content : Histories,
        outcome : {"sent"} \cup Outcomes, here : BOOLEAN]
  /\ sent \in 0..Limit /\ opened \in 0..MaxReopens /\ unseen \subseteq Ids

\* When nothing is on its way, the version a history marks as the active one is the
\* job's active one.  It may be another after someone else saved the job, after a
\* rollback whose answer was lost or whose page was left, after a reading that failed
\* (an empty history) and after a reading that an earlier one overtook: the page reads a history only
\* when its job is first opened, on demand, and after each rollback it confirmed.
PanelTellsActive ==
  page = "versions" /\ requests = {} =>
    \A j \in Ids \ unseen : ui.loaded[j] \in {NotLoaded, rows[j]}
====================================================================================
