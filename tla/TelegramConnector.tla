----------------------------- MODULE TelegramConnector -----------------------------
(***************************************************************************)
(* The Telegram connector, telegram_connector of                           *)
(* app/services/connector/main.py, over the row of one bot.                *)
(*                                                                         *)
(* It lists the accounts, and asks Telegram for the updates after the last *)
(* one it knows.  Asking for what comes after an update is what confirms   *)
(* it: Telegram forgets the updates up to there and returns the others.    *)
(* The connector stores the id of each update before it handles it.        *)
(*                                                                         *)
(* All tokens are taken to be of one bot.  The last update id is a key of  *)
(* its own, or in the dictionary of the connector while a command fails.   *)
(***************************************************************************)
EXTENDS RowStores, Sequences

CONSTANT MaxUpdates     \* bound on updates

ASSUME UpdatesAssumption == MaxUpdates \in Nat

VARIABLES
  arrived,      \* updates so far, with the ids 1 to arrived
  confirmed,    \* Telegram has forgotten those up to here
  memOffset,    \* _fallback_last_update of the connector
  conn,         \* the connector: where it is, the last update id it read, and the updates at hand
  handled,      \* history: how often each update was handled
  forgotten,    \* history: updates whose handling a crash cut off
  rewound       \* history: was the last update id ever deleted, read or kept elsewhere than in Redis?

connVars == <<arrived, confirmed, memOffset, conn, handled, forgotten, rewound>>

Updates == 1..MaxUpdates
Resting == [at |-> "idle", last |-> 0, batch |-> <<>>]

ConnInit ==
  /\ arrived = 0 /\ confirmed = 0 /\ memOffset = 0 /\ conn = Resting
  /\ handled = [u \in Updates |-> 0] /\ forgotten = {} /\ rewound = FALSE

\* The row changes while the connector works; deleting the account takes the id away.
RowStep == RowNext /\ rewound' = (rewound \/ \E r \in Editors : op[r].at = "forget" /\ op'[r].at = "idle")
           /\ UNCHANGED <<arrived, confirmed, memOffset, conn, handled, forgotten>>

\* Somebody writes to the bot.
Arrive ==
  /\ store = "telegram" /\ arrived < MaxUpdates /\ arrived' = arrived + 1
  /\ UNCHANGED <<rowVars, confirmed, memOffset, conn, handled, forgotten, rewound>>

(***************************************************************************)
(* _polling_akun: an account that is listed, enabled and has a token       *)
(***************************************************************************)
ListAccounts ==
  /\ store = "telegram" /\ conn.at = "idle"
  /\ listed /\ row.on /\ row.secret # 0
  /\ conn' = [Resting EXCEPT !.at = "listed"]
  /\ UNCHANGED <<rowVars, arrived, confirmed, memOffset, handled, forgotten, rewound>>

\* get_telegram_last_update_id
ReadLast(failed) ==
  /\ conn.at = "listed" /\ MayFail(failed) /\ Spend(failed)
  /\ conn' = [conn EXCEPT !.at = "poll", !.last = IF failed THEN memOffset ELSE offset]
  /\ rewound' = (rewound \/ failed)
  /\ UNCHANGED <<store, row, listed, offset, mem, op, begun, meant, undone, torn, runs,
                 arrived, confirmed, memOffset, handled, forgotten>>

\* getUpdates with the offset, which is left out when it is not known; the answer, or
\* none.
Offset_Reread(last) == last
Offset(last) == last + 1
Larger(m, n) == IF m > n THEN m ELSE n
Poll(lost) ==
  /\ conn.at = "poll"
  /\ confirmed' = IF conn.last = 0 THEN confirmed ELSE Larger(confirmed, Offset(conn.last) - 1)
  /\ LET news == [i \in 1..(arrived - confirmed') |-> confirmed' + i]
     IN conn' = IF lost \/ news = <<>> THEN Resting ELSE [conn EXCEPT !.at = "store", !.batch = news]
  /\ UNCHANGED <<rowVars, arrived, memOffset, handled, forgotten, rewound>>

(***************************************************************************)
(* _proses_update_telegram: the id is stored, then the command is handled, *)
(* whatever comes of it.                                                   *)
(***************************************************************************)
Stored_AsOffset(batch) == batch[1] + 1
Stored_WholeBatch(batch) == batch[Len(batch)]
Stored(batch) == batch[1]
StoreLast(fare) ==
  /\ conn.at = "store" /\ MayFail(fare # "done") /\ Spend(fare # "done")
  /\ offset' = IF Happens(fare) THEN Stored(conn.batch) ELSE offset
  /\ memOffset' = IF fare = "done" THEN memOffset ELSE Stored(conn.batch)
  /\ conn' = [conn EXCEPT !.at = "handle"]
  /\ rewound' = (rewound \/ fare = "failed")
  /\ UNCHANGED <<store, row, listed, mem, op, begun, meant, undone, torn, runs,
                 arrived, confirmed, handled, forgotten>>

Handle ==
  /\ conn.at = "handle"
  /\ handled' = [handled EXCEPT ![Head(conn.batch)] = @ + 1]
  /\ conn' = IF Len(conn.batch) = 1 THEN Resting ELSE [conn EXCEPT !.at = "store", !.batch = Tail(@)]
  /\ UNCHANGED <<rowVars, arrived, confirmed, memOffset, forgotten, rewound>>

\* A process dies; with the connector go the updates at hand, and its dictionary.
ProcessDies(p) ==
  /\ store = "telegram" /\ Die(p)
  /\ IF p = "other"
     THEN /\ conn' = Resting /\ memOffset' = 0
          /\ forgotten' = forgotten \cup (IF conn.at = "handle" THEN {Head(conn.batch)} ELSE {})
     ELSE UNCHANGED <<conn, memOffset, forgotten>>
  /\ UNCHANGED <<arrived, confirmed, handled, rewound>>

ConnNext ==
  \/ Arrive \/ ListAccounts
  \/ \E failed \in BOOLEAN : ReadLast(failed) \/ Poll(failed)
  \/ \E fare \in Fares : StoreLast(fare)
  \/ Handle
  \/ \E p \in Processes : ProcessDies(p)

ConnTypeOK ==
  /\ arrived \in 0..MaxUpdates /\ confirmed \in 0..arrived
  /\ {memOffset, offset, conn.last} \subseteq 0..arrived
  /\ conn.at \in {"idle", "listed", "poll", "store", "handle"} /\ conn.batch \in Seq(1..arrived)
  /\ handled \in [Updates -> Nat] /\ forgotten \subseteq 1..arrived /\ rewound \in BOOLEAN

(***************************************************************************)
(* Properties                                                              *)
(***************************************************************************)
AtHand == {conn.batch[i] : i \in 1..Len(conn.batch)}

\* A command that was sent to the bot is executed once: twice only if the account was
\* deleted or the last update id was diverted into the process or back, and never only
\* if the connector died over it, one command each time.
UpdatesCounted ==
  /\ \A u \in Updates : handled[u] > 1 => rewound
  /\ \A u \in 1..Larger(confirmed, offset) : handled[u] > 0 \/ u \in forgotten \cup AtHand
  /\ Cardinality(forgotten) <= faults
====================================================================================
