-------------------------------- MODULE ConsolePage --------------------------------
(***************************************************************************)
(* What every page of the web console (ui/src/app), and of the simple      *)
(* interface (ui-simple/src/pages), works with: rows the API stores, the   *)
(* list of them in the query cache of the page, what the page keeps with   *)
(* useState, and its requests on their way.                                *)
(*                                                                         *)
(* A request is sent by a click, done (or not) by the API some time later, *)
(* and answered after that: clicks, the API's work and answers interleave  *)
(* in any order.  The modules that extend this one say which clicks a page *)
(* offers and what it does with an answer.                                 *)
(***************************************************************************)
EXTENDS ApiClient, FiniteSets

CONSTANTS
  Ids,        \* rows: skills, triggers, jobs, accounts ...
  Contents,   \* what a row or a form may say
  Drafts,     \* what the user may type: a row and what it is to say
  Blank,      \* no row, nothing typed, nothing selected
  MaxSends,   \* bound on requests; one more on the pages versions and daily
  LeftPages,  \* bound: the pages the user leaves and returns to,
  MaxReopens  \* and how often

ASSUME ConsoleAssumption ==
  /\ Blank \notin Ids \cup Contents /\ Drafts \subseteq Ids \X Contents
  /\ MaxSends \in Nat /\ MaxReopens \in Nat
  /\ IsFiniteSet(Ids) /\ Ids # {} /\ Contents # {}

VARIABLES
  page,      \* the page on screen
  ui,        \* its state, as useState keeps it
  rows,      \* what the API stores
  list,      \* the query cache: what is shown, and the answer on its way
  requests,  \* requests that were sent and whose answer is not handled yet
  sent, opened,
  latest,    \* history: per row the last write sent of those the API did
  crossed,   \* history: rows with two writes on their way, in the ways pages allow
  unseen     \* history: rows written without the page having to know

vars == <<page, ui, rows, list, requests, sent, opened, latest, crossed, unseen>>

\* A definition X_... states a plausible bug of the X that follows it, to show
\* which property would catch it.  No action uses one.

(***************************************************************************)
(* The query cache (React Query 5 with the options of providers.tsx).  The *)
(* API reads its rows when the query is sent.  A reader that fails answers *)
(* with an empty list, so a failure is data like any other.                *)
(***************************************************************************)
NoRows == [i \in Ids |-> Blank]
NoRead == [rows |-> NoRows, outcome |-> "none"]
Reading(reader, outcome) ==
  [rows |-> IF Answer(reader, outcome) = Empty THEN NoRows ELSE rows, outcome |-> outcome]
Shown == list.data.rows
Listed == {i \in Ids : Shown[i] # Blank}

Issue(reader, outcome) ==
  /\ list' = [list EXCEPT !.flight = Reading(reader, outcome)]
  /\ unseen' = IF outcome = "done" THEN {} ELSE unseen

\* A poll, or the window coming back to the front: not while a query is on its way.
Poll(reader, outcome) ==
  /\ list.flight = NoRead
  /\ Issue(reader, outcome)
  /\ UNCHANGED <<page, ui, rows, requests, sent, opened, latest, crossed>>

\* invalidateQueries and refetch cancel the query on its way and send another,
\* but for the very first, which they join.
JoinsFirst == list.data = NoRead /\ list.flight # NoRead
InvalidateAfter(reader, outcome, ids) ==
  IF JoinsFirst THEN unseen' = unseen \cup ids /\ UNCHANGED list ELSE Issue(reader, outcome)
Invalidate(reader, outcome, q) == InvalidateAfter(reader, outcome, {q.id})

Landed == [data |-> list.flight, flight |-> NoRead]

(***************************************************************************)
(* Requests                                                                *)
(***************************************************************************)
Pending(kinds) == \E q \in requests : q.kind \in kinds /\ q.here

\* Pages that leave a button enabled while its request is on its way.
Unguarded == {"armory", "telegram", "mcp", "providers", "accounts", "daily", "tracks", "packs",
               "approvals", "approval-queue", "dashboard", "simple-jobs"}
MayCross(kind, id) ==
  \E q \in requests : q.id = id /\ q.outcome = "sent"
                      /\ (q.kind # kind \/ ~q.here \/ page \in Unguarded)

Limit == IF page \in {"versions", "daily"} THEN MaxSends + 1 ELSE MaxSends
NewRequest(kind, id, content) ==
  [n |-> sent + 1, kind |-> kind, id |-> id, content |-> content, outcome |-> "sent", here |-> TRUE]
Request(kind, id, content) ==
  /\ sent < Limit /\ sent' = sent + 1
  /\ requests' = requests \cup {NewRequest(kind, id, content)}
  /\ crossed' = IF MayCross(kind, id) THEN crossed \cup {id} ELSE crossed

\* What the API does with one.  It knows no row that is not there (404), and a
\* decision is taken once (409).
Accepts(q) ==
  CASE q.kind \in {"delete", "toggle", "act"} -> rows[q.id] # Blank
    [] q.kind = "decide" -> rows[q.id] = "pending"
    [] OTHER -> TRUE
Writes(q) == q.kind \notin {"act", "plan"}
Effect(q) == IF q.kind \in {"delete", "reset"} THEN Blank ELSE q.content
Written(q) == IF Writes(q) THEN {q.id} ELSE {}

\* The API does, or does not, what is asked; it stores effect in the rows written.
Work(q, outcome, written, effect) ==
  /\ q.outcome = "sent"
  /\ requests' = (requests \ {q}) \cup {[q EXCEPT !.outcome = outcome]}
  /\ LET done == IF Performed(outcome) THEN written ELSE {}
     IN /\ rows' = [i \in Ids |-> IF i \in done THEN effect ELSE rows[i]]
        /\ latest' = [i \in Ids |-> IF i \in done /\ q.n > latest[i].n
                                      THEN [n |-> q.n, content |-> effect] ELSE latest[i]]
        /\ unseen' = IF outcome = "lost" THEN unseen \cup done ELSE unseen
  /\ UNCHANGED <<page, ui, list, sent, opened, crossed>>

Serve(q, outcome) == (Performed(outcome) => Accepts(q)) /\ Work(q, outcome, Written(q), Effect(q))

Answered(q) == q.outcome # "sent"

\* The answer arrives: the request is over.
Over(q) == requests' = requests \ {q} /\ UNCHANGED <<page, rows, sent, opened, latest, crossed>>

\* The callbacks of a page that was left still run, but its state is gone.
SetUi(q, value) == ui' = IF q.here THEN value ELSE ui

OnPage(p) == page = p

\* The user leaves the page and returns: what useState kept is gone, the query
\* cache and the requests on their way are not.
Reopen(empty) ==
  /\ page \in LeftPages /\ opened < MaxReopens /\ opened' = opened + 1
  /\ ui' = empty
  /\ requests' = {[q EXCEPT !.here = FALSE] : q \in requests}
  /\ UNCHANGED <<page, rows, list, sent, latest, crossed, unseen>>

\* An answer of the API arrives for the list.
Land(effect) ==
  /\ list.flight # NoRead /\ list' = Landed
  /\ ui' = effect
  /\ UNCHANGED <<page, rows, requests, sent, opened, latest, crossed, unseen>>

Local == <<page, rows, list, requests, sent, opened, latest, crossed, unseen>>
Click == <<page, rows, list, opened, latest, unseen>>

ReadOutcomes == {"done", "refused"}
Kinds == {"save", "delete", "reset", "sync", "toggle", "act", "plan", "decide"}
Statuses == {"pending", "approved", "rejected"}
Values == Contents \cup Statuses \cup {Blank}

BaseTypeOK ==
  /\ rows \in [Ids -> Values]
  /\ {list.data, list.flight} \subseteq
       [rows : [Ids -> Values], outcome : ReadOutcomes \cup {"none"}]
  /\ requests \subseteq
       [n : 1..Limit, kind : Kinds, id : Ids, content : Values,
        outcome : {"sent"} \cup Outcomes, here : BOOLEAN]
  /\ \A q, s \in requests : q.n = s.n => q = s
  /\ sent \in 0..Limit /\ opened \in 0..MaxReopens
  /\ latest \in [Ids -> [n : 0..Limit, content : Values]]
  /\ crossed \subseteq Ids /\ unseen \subseteq Ids

\* A page that was just opened, with the API storing stored.
BaseInit(stored) ==
  /\ rows = stored
  /\ list = [data |-> NoRead, flight |-> NoRead]
  /\ requests = {} /\ sent = 0 /\ opened = 0
  /\ latest = [i \in Ids |-> [n |-> 0, content |-> stored[i]]]
  /\ crossed = {} /\ unseen = {}

(***************************************************************************)
(* Properties of every page                                                *)
(***************************************************************************)
NoneComing == requests = {} /\ list.flight = NoRead

\* When nothing is on its way and the last reading did not fail, the list shows
\* what the API stores: a page refetches after each of its writes that the API
\* confirmed, and a query that was on its way does not overwrite that.  Rows are
\* excused when the answer to their write was lost, or when the write was over
\* before the page's first reading.
ShowsOwnWrites ==
  NoneComing /\ list.data.outcome = "done" => \A i \in Ids \ unseen : Shown[i] = rows[i]

\* Of the writes to one row that the API did, the one clicked last is what it
\* stores, whatever the order in which they reach it: the buttons of a page stay
\* disabled while its request is on its way.  They do not across two buttons, for
\* a user who leaves the page meanwhile, and on the pages that never disable them.
\* (A rollback writes no row of a list: it adds a version to a history.)
LastWriteWins == page # "versions" => \A i \in Ids \ crossed : rows[i] = latest[i].content
====================================================================================
