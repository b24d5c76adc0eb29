------------------------------- MODULE SettingsPages -------------------------------
(***************************************************************************)
(* The sections of settings/page.tsx that keep accounts: Telegram bots,    *)
(* MCP servers, integration accounts, the catalog of templates that makes  *)
(* accounts of the last two kinds, and the API token of the browser.       *)
(*                                                                         *)
(* A section has a list and a form.  The form has a secret (bot token,     *)
(* auth token, API key) the list never shows; sent blank, it leaves the    *)
(* one stored alone.  No button is disabled while a request is on its way. *)
(***************************************************************************)
EXTENDS ConsolePage

CONSTANT McpTemplates   \* the templates of MCP servers; the others are of providers
ASSUME CatalogAssumption == McpTemplates \subseteq Ids

SectionNames == {"telegram", "mcp", "providers"}

\* carried is the request that first carried the secret in the form, and lost says
\* whether a secret left it by a save that carried it and was not confirmed.
SectionEmpty == [id |-> Blank, content |-> Blank, secret |-> FALSE, carried |-> 0, lost |-> FALSE]
SectionUi ==
  [id : Ids \cup {Blank}, content : Contents \cup {Blank}, secret : BOOLEAN, carried : 0..MaxSends, lost : BOOLEAN]

\* No field is disabled while a request is on its way.
SectionTyped(id, content) == ui' = [ui EXCEPT !.id = id, !.content = content] /\ UNCHANGED Local
SecretType ==
  page \in SectionNames /\ ui' = [ui EXCEPT !.secret = TRUE, !.carried = 0] /\ UNCHANGED Local

\* The form is filled from a row or a template, with no secret.
FormFrom(id, content) ==
  /\ ui' = [SectionEmpty EXCEPT !.id = id, !.content = content]
  /\ UNCHANGED Local

SaveAccount ==
  /\ ui.id # Blank /\ ui.content # Blank
  /\ Request("save", ui.id, ui.content)
  /\ ui' = IF ui.secret /\ ui.carried = 0 THEN [ui EXCEPT !.carried = sent + 1] ELSE ui
  /\ UNCHANGED Click

\* The secret goes out of the form.
WithoutSecret(q, confirmed) ==
  [ui EXCEPT !.secret = FALSE, !.carried = 0,
             !.lost = ui.secret /\ ui.carried \in 1..q.n /\ ~confirmed]

\* Only a confirmed save clears it.
AccountSaved_Unchecked(upsert, reader, q, o) ==
  /\ q.kind = "save" /\ Answered(q)
  /\ Over(q)
  /\ Invalidate(reader, o, q) /\ SetUi(q, WithoutSecret(q, Confirms(upsert, q.outcome)))
AccountSaved(upsert, reader, q, o) ==
  /\ q.kind = "save" /\ Answered(q)
  /\ Over(q)
  /\ IF Confirms(upsert, q.outcome)
       THEN Invalidate(reader, o, q) /\ SetUi(q, WithoutSecret(q, TRUE))
       ELSE UNCHANGED <<ui, list, unseen>>

\* Behind a confirm.
DeleteAccount(id) ==
  /\ id \in Listed
  /\ Request("delete", id, Blank)
  /\ UNCHANGED Click /\ UNCHANGED ui

AccountDeleted(delete, reader, q, o) ==
  /\ q.kind = "delete" /\ Answered(q)
  /\ Over(q)
  /\ IF Confirms(delete, q.outcome) THEN Invalidate(reader, o, q) ELSE UNCHANGED <<list, unseen>>
  /\ UNCHANGED ui

(***************************************************************************)
(* Telegram bots: pakaiAkunTelegram, simpanAkunTelegram, hapusAkunTelegram *)
(***************************************************************************)
TelegramQuery(o) == OnPage("telegram") /\ Poll("getTelegramConnectorAccounts", o)
TelegramType(id, content) == OnPage("telegram") /\ SectionTyped(id, content)
TelegramUse(id) == OnPage("telegram") /\ id \in Listed /\ FormFrom(id, Shown[id])
TelegramSave == OnPage("telegram") /\ SaveAccount
TelegramSaved(q, o) ==
  OnPage("telegram") /\ AccountSaved("upsertTelegramConnectorAccount", "getTelegramConnectorAccounts", q, o)
TelegramDelete(id) == OnPage("telegram") /\ DeleteAccount(id)
TelegramDeleted(q, o) ==
  OnPage("telegram") /\ AccountDeleted("deleteTelegramConnectorAccount", "getTelegramConnectorAccounts", q, o)

(***************************************************************************)
(* MCP servers: the form is refused if its headers or environment are no   *)
(* JSON objects                                                            *)
(***************************************************************************)
McpQuery(o) == OnPage("mcp") /\ Poll("getMcpIntegrationServers", o)
McpType(id, content) == OnPage("mcp") /\ SectionTyped(id, content)
McpUse(id) == OnPage("mcp") /\ id \in Listed /\ FormFrom(id, Shown[id])
McpTemplate(id, content) == OnPage("mcp") /\ FormFrom(id, content)
McpSave == OnPage("mcp") /\ SaveAccount
McpSaved(q, o) ==
  OnPage("mcp") /\ AccountSaved("upsertMcpIntegrationServer", "getMcpIntegrationServers", q, o)
McpDelete(id) == OnPage("mcp") /\ DeleteAccount(id)
McpDeleted(q, o) ==
  OnPage("mcp") /\ AccountDeleted("deleteMcpIntegrationServer", "getMcpIntegrationServers", q, o)

(***************************************************************************)
(* Integration accounts                                                    *)
(***************************************************************************)
ProviderQuery(o) == OnPage("providers") /\ Poll("getIntegrationAccounts", o)
ProviderType(id, content) == OnPage("providers") /\ SectionTyped(id, content)
ProviderUse(id) == OnPage("providers") /\ id \in Listed /\ FormFrom(id, Shown[id])
ProviderTemplate(id, content) == OnPage("providers") /\ FormFrom(id, content)
ProviderSave == OnPage("providers") /\ SaveAccount
ProviderSaved(q, o) ==
  OnPage("providers") /\ AccountSaved("upsertIntegrationAccount", "getIntegrationAccounts", q, o)
ProviderDelete(id) == OnPage("providers") /\ DeleteAccount(id)
ProviderDeleted(q, o) ==
  OnPage("providers") /\ AccountDeleted("deleteIntegrationAccount", "getIntegrationAccounts", q, o)

SectionLand == page \in SectionNames /\ Land(ui)
SectionReopen == page \in SectionNames /\ Reopen(SectionEmpty)

(***************************************************************************)
(* The API token of the browser.  What is stored survives the page, and    *)
(* shown says whether the field showed the token when the page opened.     *)
(***************************************************************************)
OnBrowser == OnPage("browser")
Opening(stored, saved, builtIn, lost) ==
  LET shown == IF saved THEN GetApiAuthToken(stored, builtIn) ELSE NoToken
  IN [field |-> shown, stored |-> stored, saved |-> saved, builtIn |-> builtIn,
      shown |-> shown = GetApiAuthToken(stored, builtIn), lost |-> lost]
Tokens == Contents \cup {NoToken}
BrowserUi ==
  [field : Tokens, stored : Tokens, saved : BOOLEAN, builtIn : Tokens, shown : BOOLEAN, lost : BOOLEAN]

BrowserType(token) == OnBrowser /\ ui' = [ui EXCEPT !.field = token, !.shown = TRUE] /\ UNCHANGED Local

\* simpanPengaturanUi: a blank field removes the token.
BrowserSave_TokenOnly ==
  /\ OnBrowser
  /\ ui' = [ui EXCEPT !.stored = StoreToken(ui.field),
                      !.lost = ui.lost \/ (ui.stored # NoToken /\ ~ui.shown)]
  /\ UNCHANGED Local
BrowserSave ==
  /\ OnBrowser
  /\ ui' = [ui EXCEPT !.stored = StoreToken(ui.field), !.saved = TRUE,
                      !.lost = ui.lost \/ (ui.stored # NoToken /\ ~ui.shown)]
  /\ UNCHANGED Local
\* hapusTokenApi
BrowserForget ==
  OnBrowser /\ ui' = [ui EXCEPT !.field = NoToken, !.stored = ClearToken, !.shown = TRUE] /\ UNCHANGED Local
BrowserReopen == OnBrowser /\ Reopen(Opening(ui.stored, ui.saved, ui.builtIn, ui.lost))

(***************************************************************************)
(* The catalog of templates.  A request names providers and MCP templates; *)
(* the API takes none of a kind to mean all of that kind, so that adding   *)
(* one template of one kind adds every missing one of the other.  It never *)
(* overwrites an account.  The page reads again the lists it thinks have   *)
(* changed.                                                                *)
(***************************************************************************)
OnCatalog == OnPage("catalog") /\ list.data # NoRead
Providers == Ids \ McpTemplates
Made == CHOOSE c \in Contents : TRUE
CatalogEmpty == [none |-> TRUE]

AskFor(providers, mcp, reload) ==
  /\ Request("templates", CHOOSE i \in Ids : TRUE, [providers |-> providers, mcp |-> mcp, reload |-> reload])
  /\ UNCHANGED Click /\ UNCHANGED ui

CatalogQuery(o) == OnPage("catalog") /\ Poll("getIntegrationAccounts", o)
CatalogAddAll == OnCatalog /\ AskFor({}, {}, Ids)
CatalogAddMissing ==
  LET missing == Ids \ Listed
  IN OnCatalog /\ missing # {} /\ AskFor(missing \cap Providers, missing \cap McpTemplates, Ids)
CatalogAddProvider(i) == OnCatalog /\ i \in Providers \ Listed /\ AskFor({i}, {}, Providers)
CatalogAddMcp(i) == OnCatalog /\ i \in McpTemplates \ Listed /\ AskFor({}, {i}, McpTemplates)

Chosen(asked) ==
  (IF asked.providers = {} THEN Providers ELSE asked.providers)
    \cup (IF asked.mcp = {} THEN McpTemplates ELSE asked.mcp)

\* Rows of a list the page will not read again are not shown before the next poll.
TemplatesServed(q, outcome) ==
  /\ OnPage("catalog") /\ q.outcome = "sent"
  /\ requests' = (requests \ {q}) \cup {[q EXCEPT !.outcome = outcome]}
  /\ LET made == IF Performed(outcome) THEN {i \in Chosen(q.content) : rows[i] = Blank} ELSE {}
     IN /\ rows' = [i \in Ids |-> IF i \in made THEN Made ELSE rows[i]]
        /\ latest' = [i \in Ids |-> IF i \in made THEN [n |-> q.n, content |-> Made] ELSE latest[i]]
        /\ unseen' = unseen \cup (IF outcome = "done" THEN made \ q.content.reload ELSE made)
  /\ UNCHANGED <<page, ui, list, sent, opened, crossed>>

\* One list is read again; what is shown, or on its way, of the other stays.
Reread(reload, o) ==
  LET other == IF list.flight = NoRead THEN list.data ELSE list.flight
      now == [i \in Ids |-> IF i \notin reload THEN other.rows[i] ELSE IF o = "done" THEN rows[i] ELSE Blank]
  IN /\ list' = [list EXCEPT !.flight =
                   [rows |-> now, outcome |-> IF o = "done" THEN other.outcome ELSE o]]
     /\ unseen' = IF o = "done" THEN unseen \ reload ELSE unseen

TemplatesAdded_NoRefetch(q, o) ==
  /\ OnPage("catalog") /\ Answered(q)
  /\ Over(q)
  /\ UNCHANGED <<ui, list, unseen>>
TemplatesAdded(q, o) ==
  /\ OnPage("catalog") /\ Answered(q)
  /\ Over(q)
  /\ IF Confirms("bootstrapIntegrationsCatalog", q.outcome)
       THEN Reread(q.content.reload, o) ELSE UNCHANGED <<list, unseen>>
  /\ UNCHANGED ui

CatalogLand == OnPage("catalog") /\ Land(ui)
CatalogReopen == OnPage("catalog") /\ Reopen(CatalogEmpty)

(***************************************************************************)
(* The sections together                                                   *)
(***************************************************************************)
SettingsPageNames == SectionNames \cup {"browser", "catalog"}

SettingsClicks ==
  \/ \E d \in Drafts :
       \/ TelegramType(d[1], d[2]) \/ McpType(d[1], d[2]) \/ ProviderType(d[1], d[2])
       \/ McpTemplate(d[1], d[2]) \/ ProviderTemplate(d[1], d[2])
  \/ SecretType \/ TelegramSave \/ McpSave \/ ProviderSave
  \/ \E i \in Ids :
       \/ TelegramUse(i) \/ TelegramDelete(i) \/ McpUse(i) \/ McpDelete(i) \/ ProviderUse(i) \/ ProviderDelete(i)
       \/ CatalogAddProvider(i) \/ CatalogAddMcp(i)
  \/ CatalogAddAll \/ CatalogAddMissing
  \/ \E t \in Tokens : BrowserType(t)
  \/ BrowserSave \/ BrowserForget
  \/ SectionReopen \/ BrowserReopen \/ CatalogReopen

SettingsAnswers ==
  \/ SectionLand \/ CatalogLand
  \/ \E o \in ReadOutcomes : TelegramQuery(o) \/ McpQuery(o) \/ ProviderQuery(o) \/ CatalogQuery(o)
  \/ \E q \in requests, o \in ReadOutcomes :
       \/ TelegramSaved(q, o) \/ TelegramDeleted(q, o) \/ McpSaved(q, o) \/ McpDeleted(q, o)
       \/ ProviderSaved(q, o) \/ ProviderDeleted(q, o) \/ TemplatesAdded(q, o)
  \/ \E q \in requests, o \in Outcomes : TemplatesServed(q, o)

SettingsNext == SettingsClicks \/ SettingsAnswers

CatalogTypeOK ==
  /\ rows \in [Ids -> {Blank, Made}] /\ ui = CatalogEmpty
  /\ \A q \in requests : q.content \in [providers : SUBSET Providers, mcp : SUBSET McpTemplates, reload : SUBSET Ids]
  /\ sent \in 0..MaxSends /\ unseen \subseteq Ids
SettingsTypeOK ==
  CASE page = "browser" -> ui \in BrowserUi
    [] page = "catalog" -> CatalogTypeOK
    [] OTHER -> ui \in SectionUi /\ BaseTypeOK

\* A secret typed into a form leaves it only when a row or template is put in its
\* place, or when a save was confirmed that carried it, or one that was sent before
\* it was typed.  The token in the browser is removed only by a user who was shown
\* it: saving the other settings with an empty field removes it.
SecretsLostForCause == page \in SectionNames \cup {"browser"} => ~ui.lost

\* A request for one template makes no account but that one.
OneTemplateAdded ==
  [][page = "catalog" => \A i \in Ids : rows'[i] # rows[i] =>
       \E q \in requests : i \in q.content.providers \cup q.content.mcp \/ q.content.reload = Ids]_vars
====================================================================================
