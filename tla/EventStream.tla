-------------------------------- MODULE EventStream --------------------------------
(***************************************************************************)
(* The timeline of the simple interface (ui-simple/src/lib/sse.ts and      *)
(* pages/Home.tsx): the events of the API reach a buffer of the page by a  *)
(* stream (GET /events, one server generator per connection), by the list  *)
(* read when the page is opened, and by a periodic list read while the     *)
(* stream is down.  Connections fail, are tried again by the browser, or   *)
(* are closed and opened again five seconds later; list answers are late.  *)
(***************************************************************************)
EXTENDS Naturals, SequencesExt, FiniteSets

CONSTANTS
  Window,     \* events a read of the API returns (limit, 200)
  Kept,       \* events the buffer keeps (200)
  SeenLimit,  \* event ids a stream remembers before it forgets them all (2000)
  Period,     \* clock ticks from one periodic read to the next
  AlwaysNew,       \* does the data the page polls change at every poll?
  MaxEvents, MaxErrors, MaxReads,  \* bounds on events, failed connections, list reads
  MaxRenders  \* bound on renders nobody here causes, when not AlwaysNew

ASSUME StreamAssumption ==
  /\ {Window, Kept, SeenLimit, Period, MaxEvents, MaxErrors, MaxReads, MaxRenders} \subseteq Nat
  /\ Window > 0 /\ Kept >= Window /\ SeenLimit >= Window /\ Period > 0 /\ MaxReads > 0 /\ AlwaysNew \in BOOLEAN

VARIABLES
  log,        \* events stored: the numbers 1..log, in ascending order
  up,         \* can the API be reached?
  sources,    \* the EventSource objects, in the order they were made
  timers,     \* per source, the reconnect delays that run
  current,    \* the source eventSourceRef holds
  connected, mounted,
  buffer,     \* bufferRef: event numbers
  reads,      \* list reads on their way
  issued,     \* how many list reads were sent
  wait,       \* the interval of the fallback: ticks since it was set, or Off
  errors, renders,
  streams,    \* history: streams the server started and times one forgot its ids, counted
              \* as long as the buffer has room for a copy more
  lacking,    \* history: events the last list answer lacked, not sent since
  doubled,    \* history: was a source closed with two delays running?
  leftPending \* history: was the page left with a delay running?

connection == <<sources, timers, current, connected>>
history == <<streams, lacking, doubled, leftPending>>
streamVars == <<log, up, sources, timers, current, connected, mounted, buffer, reads, issued, wait,
          errors, renders, streams, lacking, doubled, leftPending>>

Off == Period + 1
Events == 1..MaxEvents
Drop(s, n) == IF Len(s) <= n THEN s ELSE SubSeq(s, Len(s) - n + 1, Len(s))
Among(s, wanted) == FoldLeft(LAMBDA kept, e : IF e \in wanted THEN Append(kept, e) ELSE kept, <<>>, s)

\* get_events: the last Window events, oldest first, when there are n.
Latest(n) == Drop([i \in 1..n |-> i], Window)
GetEvents == Latest(log)

NewSource == [state |-> "connecting", batch |-> <<>>, seen |-> {}]
Live == {s \in DOMAIN sources : sources[s].state # "closed"}

OneMore == IF streams + 1 < Kept THEN streams + 1 ELSE streams

\* Home sets its interval anew at every render: refresh is a new function each time.
Rearm(isConnected) == IF isConnected THEN Off ELSE 0

\* A definition X_... states a plausible bug of the X that follows it.  No action uses one.

(***************************************************************************)
(* The world: events are appended, the API becomes reachable or not.       *)
(***************************************************************************)
Append1 ==
  /\ mounted /\ log < MaxEvents /\ log' = log + 1
  /\ UNCHANGED <<up, connection, mounted, buffer, reads, issued, wait, errors, renders, history>>

Reachable ==
  /\ up' = ~up
  /\ up => errors < MaxErrors
  /\ UNCHANGED <<log, connection, mounted, buffer, reads, issued, wait, errors, renders, history>>

(***************************************************************************)
(* The stream                                                              *)
(***************************************************************************)
\* The server accepts the connection and starts a generator with no ids seen.
Accept(s) ==
  /\ up /\ sources[s].state = "connecting"
  /\ sources' = [sources EXCEPT ![s] = [NewSource EXCEPT !.state = "open"]]
  /\ connected' = IF mounted THEN TRUE ELSE connected
  /\ wait' = IF mounted THEN Off ELSE wait
  /\ streams' = OneMore
  /\ UNCHANGED <<log, up, timers, current, mounted, buffer, reads, issued, errors, renders,
                 lacking, doubled, leftPending>>

\* Once a second the generator reads the events, having forgotten the ids when they
\* were too many at the end of the round before.
Unseen_All(s) == GetEvents
Unseen(s) == Among(GetEvents, Events \ sources[s].seen)
ServerRound(s) ==
  /\ mounted /\ sources[s].state = "open" /\ sources[s].batch = <<>>
  /\ Unseen(s) # <<>>
  /\ sources' = [sources EXCEPT ![s].batch = Unseen(s)]
  /\ UNCHANGED <<log, up, timers, current, connected, mounted, buffer, reads, issued, wait,
                 errors, renders, history>>

\* One event is sent and appended to the buffer by onmessage.
Appended_StaleState(e) == <<e>>
Appended_Unbounded(e) == Append(buffer, e)
Appended(e) == Drop(Append(buffer, e), Kept)

Deliver(s) ==
  LET e == Head(sources[s].batch)
      rest == Tail(sources[s].batch)
      seen == sources[s].seen \cup {e}
      forget == rest = <<>> /\ Cardinality(seen) > SeenLimit
  IN /\ mounted /\ sources[s].state = "open" /\ sources[s].batch # <<>>
     /\ sources' = [sources EXCEPT ![s].batch = rest, ![s].seen = IF forget THEN {} ELSE seen]
     /\ streams' = IF forget THEN OneMore ELSE streams
     /\ buffer' = Appended(e)
     /\ lacking' = lacking \ {e}
     /\ wait' = Rearm(connected)
     /\ UNCHANGED <<log, up, timers, current, connected, mounted, reads, issued, errors, renders,
                    doubled, leftPending>>

\* The connection fails.  The browser tries again by itself (connecting), or gives up
\* (closed); onerror starts a delay either way.
Fail(s, state) ==
  /\ errors < MaxErrors /\ errors' = errors + 1
  /\ sources[s].state \in {"connecting", "open"}
  /\ sources' = [sources EXCEPT ![s] = [NewSource EXCEPT !.state = state]]
  /\ timers' = [timers EXCEPT ![s] = @ + 1]
  /\ connected' = IF mounted THEN FALSE ELSE connected
  /\ wait' = IF mounted THEN Rearm(FALSE) ELSE wait
  /\ doubled' = (doubled \/ (state = "closed" /\ timers[s] > 0))
  /\ UNCHANGED <<log, up, current, mounted, buffer, reads, issued, renders, streams, lacking,
                 leftPending>>

\* The delay ends: a source that is closed by then is replaced.  Nothing asks
\* whether the page is still there, or whether a source was made already.
Replaces_Never(s) == FALSE
Replaces_Retrying(s) == sources[s].state = "connecting"
Replaces(s) == sources[s].state = "closed"
DelayEnds(s) ==
  /\ timers[s] > 0
  /\ IF Replaces(s)
       THEN /\ sources' = Append(sources, NewSource)
            /\ timers' = Append([timers EXCEPT ![s] = @ - 1], 0)
            /\ current' = Len(sources')
       ELSE timers' = [timers EXCEPT ![s] = @ - 1] /\ UNCHANGED <<sources, current>>
  /\ UNCHANGED <<log, up, connected, mounted, buffer, reads, issued, wait, errors, renders, history>>

\* The page is left: the source the reference holds is closed, its delays go on.  The
\* buffer, what is on its way to it, and later events are of no interest.
Closed_None == sources
Closed == [sources EXCEPT ![current] = [NewSource EXCEPT !.state = "closed"]]
Leave ==
  /\ mounted /\ mounted' = FALSE
  /\ sources' = Closed
  /\ wait' = Off /\ buffer' = <<>> /\ reads' = {}
  /\ leftPending' = (\E s \in DOMAIN timers : timers[s] > 0)
  /\ doubled' = (doubled \/ timers[current] > 1)
  /\ UNCHANGED <<log, up, timers, current, connected, issued, errors, renders, streams, lacking>>

(***************************************************************************)
(* The list: read once when the page is opened, then every Period ticks    *)
(* while the stream is down.                                               *)
(***************************************************************************)
Sent == [n |-> issued + 1, state |-> "sent", rows |-> <<>>]

Tick ==
  /\ wait < Period /\ wait' = wait + 1
  /\ UNCHANGED <<log, up, connection, mounted, buffer, reads, issued, errors, renders, history>>

Refresh ==
  /\ wait = Period /\ issued < MaxReads
  /\ wait' = 0 /\ issued' = issued + 1 /\ reads' = reads \cup {Sent}
  /\ UNCHANGED <<log, up, connection, mounted, buffer, errors, renders, history>>

\* A query of the page brings new data: the page is rendered, which matters when it
\* sets an interval anew that was under way.
RenderedWait_Never == Off
RenderedWait == Rearm(connected)
Render ==
  /\ mounted /\ wait # RenderedWait /\ wait' = RenderedWait
  /\ AlwaysNew \/ renders < MaxRenders
  /\ renders' = IF AlwaysNew THEN renders ELSE renders + 1
  /\ UNCHANGED <<log, up, connection, mounted, buffer, reads, issued, errors, history>>

\* The API answers a list read; getEvents turns a failure into an empty list.
AnswerList(r) ==
  /\ r.state = "sent"
  /\ \E rows \in {<<>>} \cup (IF up THEN {GetEvents} ELSE {}) :
       reads' = (reads \ {r}) \cup {[r EXCEPT !.state = "answered", !.rows = rows]}
  /\ UNCHANGED <<log, up, connection, mounted, buffer, issued, wait, errors, renders, history>>

ListLanded(r) ==
  /\ r.state = "answered" /\ reads' = reads \ {r}
  /\ buffer' = Drop(r.rows, Kept)
  /\ lacking' = ToSet(GetEvents) \ ToSet(r.rows)
  /\ wait' = Rearm(connected)
  /\ UNCHANGED <<log, up, connection, mounted, issued, errors, renders, streams, doubled, leftPending>>

(***************************************************************************)
(* The page is opened: one source, one list read, the interval set.        *)
(***************************************************************************)
StreamInit ==
  /\ log = 0 /\ up = TRUE
  /\ sources = <<NewSource>> /\ timers = <<0>> /\ current = 1
  /\ connected = FALSE /\ mounted = TRUE
  /\ buffer = <<>>
  /\ reads = {[n |-> 1, state |-> "sent", rows |-> <<>>]} /\ issued = 1
  /\ wait = 0 /\ errors = 0 /\ renders = 0
  /\ streams = 0 /\ lacking = {} /\ doubled = FALSE /\ leftPending = FALSE

StreamNext ==
  \/ Append1 \/ Reachable \/ Leave \/ Tick \/ Refresh \/ Render
  \/ \E s \in DOMAIN sources : Accept(s) \/ ServerRound(s) \/ Deliver(s) \/ DelayEnds(s)
                               \/ \E state \in {"connecting", "closed"} : Fail(s, state)
  \/ \E r \in reads : AnswerList(r) \/ ListLanded(r)

\* The timers and intervals of a browser end, requests are answered, and a server
\* that can be reached accepts connections and goes on with its generators.
Fairness ==
  /\ WF_streamVars(Tick \/ Refresh)
  /\ WF_streamVars(\E r \in reads : AnswerList(r) \/ ListLanded(r))
  /\ WF_streamVars(\E s \in DOMAIN sources : Accept(s))
  /\ WF_streamVars(\E s \in DOMAIN sources : ServerRound(s) \/ Deliver(s))
  /\ WF_streamVars(\E s \in DOMAIN sources : DelayEnds(s))

StreamSpec == StreamInit /\ [][StreamNext]_streamVars /\ Fairness

(***************************************************************************)
(* Properties                                                              *)
(***************************************************************************)
StreamTypeOK ==
  /\ log \in 0..MaxEvents /\ {up, connected, mounted, doubled, leftPending} \subseteq BOOLEAN
  /\ Len(sources) \in 1..(MaxErrors + 1) /\ current \in DOMAIN sources
  /\ \A s \in DOMAIN sources :
       /\ sources[s].state \in {"connecting", "open", "closed"}
       /\ ToSet(sources[s].batch) \cup sources[s].seen \subseteq Events
       /\ timers[s] \in 0..MaxErrors
  /\ ToSet(buffer) \subseteq Events /\ Len(buffer) <= Kept
  /\ \A r \in reads : r.n \in 1..MaxReads /\ ToSet(r.rows) \subseteq Events
  /\ issued \in 1..MaxReads /\ wait \in 0..Off
  /\ errors \in 0..MaxErrors /\ renders \in 0..MaxRenders /\ lacking \subseteq Events

\* Once the page's stream has sent all the API returns, the buffer holds each of these
\* events, but for those a late or failed list answer lacked, which no stream sends
\* again, and those that second copies of others pushed out.
CaughtUp(s) == /\ sources[s].state = "open" /\ sources[s].batch = <<>>
               /\ ToSet(GetEvents) \subseteq sources[s].seen
SecondCopies == Len(buffer) - Cardinality(ToSet(buffer))
NothingMissed ==
  mounted /\ ~doubled /\ CaughtUp(current) =>
    Cardinality(ToSet(GetEvents) \ (lacking \cup ToSet(buffer))) <= SecondCopies

\* An event is in the buffer once from a list and once per stream that sent it; a
\* stream sends it again only after it forgot its ids.
Copies(e) == Cardinality({i \in DOMAIN buffer : buffer[i] = e})
OncePerStream == \A e \in ToSet(buffer) : Copies(e) <= 1 + streams

\* The timeline shows each event, and once.
TimelineFaithful == StreamTypeOK /\ NothingMissed /\ OncePerStream

\* The page holds one connection at a time, unless a source failed a second time
\* before the delay of its first failure was over; and none once it was left,
\* unless a delay was running then.
OneSource == /\ Cardinality(Live) <= 1 \/ doubled
             /\ mounted \/ Live = {} \/ doubled \/ leftPending

\* Failures end and the API can be reached: the page shows itself connected, and
\* goes on to.
Reconnects == <>[](up /\ mounted) => <>[]connected

\* "Realtime mati, pakai refresh berkala": while the stream is down the list is read.
FallbackRefreshes ==
  (mounted /\ ~connected) ~> (connected \/ ~mounted \/ reads # {} \/ issued = MaxReads)
====================================================================================
