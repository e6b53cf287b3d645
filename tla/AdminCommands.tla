--------------------------- MODULE AdminCommands ---------------------------
(***************************************************************************)
(* The commands that ask a store or its app something: app bulk execute,   *)
(* status and cancel, app execute, app graphiql, app logs and app webhook  *)
(* trigger (crates/cfy-cli/src/commands/app.rs), over the clients of       *)
(* crates/cfy-bulk and crates/cfy-app (logs.rs, webhook.rs).               *)
(*                                                                         *)
(* server.plan is what the store is; server.operation the state of the     *)
(* bulk operation; server.log the number of log entries there are, and     *)
(* server.subscribed whether the subscription still holds.                 *)
(***************************************************************************)
EXTENDS AppConfiguration

CONSTANTS
  MaxLogs,       \* entries the app writes
  Connections    \* browsers' requests to the GraphiQL server

Plans == {"development", "other"}
Ended == {"canceled", "completed", "failed", "expired"}

(* app_bulk_client.                                                        *)
AppClient == <<"environment", "session", "management", "secret", "exchange", "version">>

BulkExecute ==
  /\ Begin("bulk-execute", SUBSET {"mutation", "variables", "watch", "output"},
           {Only("results", "user"), <<>>}, [plan : Plans, operation : {"none"}, staged : {FALSE}])
  /\ todo = <<"document">> \o AppClient \o <<"kind">>
            \o Chosen("mutation", <<"plan", "stage", "upload">>) \o <<"run">>
            \o Chosen("watch", <<"poll", "download">>) \o <<"report">>
  /\ agreed = IF "output" \in given THEN {"results"} ELSE {}

BulkStatus ==
  /\ Begin("bulk-status", SUBSET {"id"}, {<<>>}, [operation : {"none", "running"}])
  /\ todo = AppClient \o <<"status">>
  /\ agreed = {}

BulkCancel ==
  /\ Begin("bulk-cancel", {{"id"}}, {<<>>}, [operation : {"running"} \union Ended])
  /\ todo = AppClient \o <<"cancel">>
  /\ agreed = {}

Execute ==
  /\ Begin("execute", SUBSET {"mutation", "output"}, {Only("results", "user"), <<>>},
           [plan : Plans, executed : {0}])
  /\ todo = <<"document", "variables">> \o AppClient \o Chosen("mutation", <<"plan">>)
            \o <<"execute", "report">>
  /\ agreed = IF "output" \in given THEN {"results"} ELSE {}

(* The policy is DevelopmentStoresOnly, where `store` says neither.        *)
Graphiql ==
  /\ Begin("graphiql", {{"lazy"}, {}, {"allow"}, {"deny"}}, {<<>>},
           [plan : Plans, executed : {0},
            asks : [Connections -> {"page", "forbidden", "query", "mutation"}]])
  /\ todo = <<"terminal">> \o Without("lazy", AppClient) \o <<"bind", "serve">>
  /\ agreed = {}

Logs ==
  /\ Begin("logs", {{}}, {<<>>}, [log : {0}, subscribed : {FALSE}])
  /\ todo = <<"environment", "sources", "session", "management", "app", "stores",
              "subscribe", "stream">>
  /\ agreed = {}

WebhookTrigger ==
  /\ Begin("webhook-trigger", SUBSET {"prompt", "api-version", "topic", "localhost", "secret"},
           {<<>>}, [delivered : {FALSE}])
  /\ todo = <<"environment", "session", "management", "app", "api-versions", "topics", "address">>
            \o Without("secret", <<"secret">>) \o <<"trigger">>
            \o Chosen("localhost", <<"deliver">>)
  /\ agreed = {}

AdminBegins == BulkExecute \/ BulkStatus \/ BulkCancel \/ Execute \/ Graphiql \/ Logs \/ WebhookTrigger

-----------------------------------------------------------------------------
(* What the clients share.                                                 *)

ReadDocument == Step("document")
ReadVariables == Step("variables")
AppSecret == Step("secret")
ExchangeCredentials == Step("exchange")
ResolveVersion == Step("version")

(* Mutant: a store of any plan will do.                                    *)
AnyPlan == At("plan") /\ Learn("plan", server.plan) /\ Pass /\ Quiet

(* The plan is read before a mutation, and may change after it.            *)
CheckPlan ==
  /\ At("plan")
  /\ server.plan = "development"
  /\ Learn("plan", server.plan)
  /\ Pass /\ Quiet

-----------------------------------------------------------------------------
(* Bulk operations.                                                        *)

(* A query takes no variables, a mutation needs them.                      *)
CheckKind == ("mutation" \in given <=> "variables" \in given) /\ Step("kind")

StageUpload == Mutation("stage", <<>>)
UploadVariables == Mutation("upload", Only("staged", TRUE))

RunOperation == Mutation("run", Only("operation", "created"))

(* Mutant: one answer is enough.                                           *)
PollOnce == At("poll") /\ Learn("operation", server.operation) /\ Pass /\ Quiet

(* poll: until the operation has ended; only Ctrl-C bounds it.             *)
Poll ==
  /\ At("poll")
  /\ Learn("operation", server.operation)
  /\ IF server.operation \in Ended THEN Pass ELSE Stay
  /\ Quiet

(* download_jsonl, where there is a result; --output-file takes it.        *)
Download ==
  /\ At("download")
  /\ IF held.operation = "completed" /\ "output" \in given
     THEN Set("results", "results") \/ UNCHANGED files
     ELSE UNCHANGED files
  /\ Pass
  /\ OnDisk

ReportOperation == command \notin {"execute", "config-validate"} /\ Step("report")

ReadStatus == Step("status")

CancelOperation ==
  Mutation("cancel", Only("operation", IF server.operation \in Ended THEN server.operation
                                       ELSE "canceling"))

-----------------------------------------------------------------------------
(* app execute.                                                            *)

ExecuteDocument == Mutation("execute", Only("executed", server.executed + 1))

ReportResult ==
  /\ command = "execute"
  /\ IF "output" \in given THEN Replace("report", "results", "results") ELSE Step("report")

-----------------------------------------------------------------------------
(* app graphiql: the browsers' requests are served at the same time, and   *)
(* share the client, which a lazy server makes for the first under a lock. *)
(* held[c] is where the request of c is.                                   *)

CheckTerminal == Step("terminal")

Bind ==
  /\ At("bind")
  /\ held' = Over([c \in Connections |-> "new"],
                  Over([lock |-> FALSE, client |-> "lazy" \notin given, checked |-> {}, made |-> {}],
                       held))
  /\ Pass /\ Quiet

Serving(c, from) == At("serve") /\ held[c] = from
Moves(c, to) == held' = [held EXCEPT ![c] = to]

(* Mutant: the key is not looked at.                                       *)
ReadAnyRequest(c) ==
  /\ Serving(c, "new")
  /\ Moves(c, IF server.asks[c] # "page" THEN "client" ELSE "done")
  /\ Stay /\ Quiet

(* serve_graphiql_connection: the key, then what is asked for.             *)
ReadRequest(c) ==
  /\ Serving(c, "new")
  /\ Moves(c, IF server.asks[c] \in {"query", "mutation"} THEN "client" ELSE "done")
  /\ Stay /\ Quiet

(* Mutant: the lock is given back before the client is made.               *)
TakeUnlocked(c) ==
  /\ Serving(c, "client")
  /\ Moves(c, IF held.client THEN "policy" ELSE "exchange")
  /\ Stay /\ Quiet

TakeClient(c) ==
  /\ Serving(c, "client")
  /\ ~held.lock
  /\ IF held.client THEN Moves(c, "policy")
     ELSE held' = [held EXCEPT ![c] = "exchange", !.lock = TRUE]
  /\ Stay /\ Quiet

MakeClient(c) ==
  /\ Serving(c, "exchange")
  /\ \/ held' = [held EXCEPT ![c] = "policy", !.lock = FALSE, !.client = TRUE,
                             !.made = @ \union {c}]
     \/ held' = [held EXCEPT ![c] = "done", !.lock = FALSE]
  /\ Stay /\ Quiet

(* execute_document_with_policy.                                           *)
CheckPolicy(c) ==
  /\ Serving(c, "policy")
  /\ held' = [held EXCEPT ![c] = IF \/ server.asks[c] = "query" \/ "allow" \in given
                                    \/ "deny" \notin given /\ server.plan = "development"
                                 THEN "execute" ELSE "done",
                          !.checked = IF server.plan = "development" THEN @ \union {c} ELSE @]
  /\ Stay /\ Quiet

ServeDocument(c) ==
  /\ Serving(c, "execute")
  /\ Moves(c, "done")
  /\ sent' = Append(sent, c)
  /\ server' = [server EXCEPT !.executed = @ + 1]
  /\ Stay /\ UNCHANGED <<files, agreed>>

StopServing == At("serve") /\ Return("ok") /\ UNCHANGED held /\ Quiet

GraphiqlServes ==
  \/ \E c \in Connections : ReadRequest(c) \/ TakeClient(c) \/ MakeClient(c) \/ CheckPolicy(c)
                            \/ ServeDocument(c)
  \/ StopServing

-----------------------------------------------------------------------------
(* app logs.                                                               *)

CheckSources == Step("sources")
CheckStores == Step("stores")

Subscribe ==
  /\ At("subscribe")
  /\ sent' = Append(sent, "subscribe")
  /\ server' = [server EXCEPT !.subscribed = TRUE]
  /\ held' = Over([cursor |-> 0, shown |-> <<>>, seen |-> {}, interrupted |-> FALSE], held)
  /\ Pass
  /\ UNCHANGED <<files, agreed>>

Streaming == At("stream") /\ ~held.interrupted

(* A page follows the cursor and has the next one, or none (0), so that    *)
(* the log is read from its start again; an answer that says "too many     *)
(* requests" or that is lost leaves everything as it is, to be asked for   *)
(* again.  shown is what was shown since there was no cursor, seen what    *)
(* was ever shown.                                                         *)
PollLogs ==
  /\ Streaming /\ server.subscribed
  /\ \E last \in held.cursor..server.log :
       LET page == [i \in 1..(last - held.cursor) |-> held.cursor + i]
           seen == held.seen \union (held.cursor + 1)..last
       IN \/ held' = [held EXCEPT !.cursor = last, !.shown = @ \o page, !.seen = seen]
          \/ held' = [held EXCEPT !.cursor = 0, !.shown = <<>>, !.seen = seen]
  /\ Stay /\ Quiet

(* Mutant: the cursor belongs to the subscription.                         *)
ResubscribeFromStart ==
  /\ Streaming /\ ~server.subscribed
  /\ server' = [server EXCEPT !.subscribed = TRUE]
  /\ held' = [held EXCEPT !.cursor = 0]
  /\ Stay /\ UNCHANGED <<files, agreed, sent>>

Resubscribe ==
  /\ Streaming /\ ~server.subscribed
  /\ server' = [server EXCEPT !.subscribed = TRUE]
  /\ Stay /\ UNCHANGED <<held, files, agreed, sent>>

InterruptLogs ==
  /\ Streaming
  /\ held' = [held EXCEPT !.interrupted = TRUE]
  /\ Stay /\ Quiet

StopLogs == At("stream") /\ held.interrupted /\ Return("ok") /\ UNCHANGED held /\ Quiet

-----------------------------------------------------------------------------
(* app webhook trigger: what is not given is asked for, where somebody can *)
(* answer.                                                                 *)

ChooseApiVersion == given \intersect {"api-version", "prompt"} # {} /\ Step("api-versions")
ChooseTopic == given \intersect {"topic", "prompt"} # {} /\ Step("topics")
ResolveDelivery == Step("address")

(* cliTesting answers with `success`; for a local address, with a sample.  *)
Trigger == Mutation("trigger", Only("delivered", "localhost" \notin given))

(* The local server may take it and answer that it failed.                 *)
DeliverLocally == Mutation("deliver", Only("delivered", TRUE))

-----------------------------------------------------------------------------
(* The services go their own way.                                          *)

OperationRuns ==
  /\ Planned /\ "operation" \in DOMAIN server
  /\ \E next \in CASE server.operation = "created" -> {"running"}
                   [] server.operation = "running" -> {"completed", "failed", "expired"}
                   [] server.operation = "canceling" -> {"canceled"}
                   [] OTHER -> {} :
        server' = [server EXCEPT !.operation = next]
  /\ Stay /\ UNCHANGED <<held, files, agreed, sent>>

PlanChanges ==
  /\ Planned /\ "plan" \in DOMAIN server /\ server.plan = "development"
  /\ server' = [server EXCEPT !.plan = "other"]
  /\ Stay /\ UNCHANGED <<held, files, agreed, sent>>

AppLogs ==
  /\ At("stream") /\ server.log < MaxLogs
  /\ server' = [server EXCEPT !.log = @ + 1]
  /\ Stay /\ UNCHANGED <<held, files, agreed, sent>>

SubscriptionExpires ==
  /\ At("stream") /\ server.subscribed
  /\ server' = [server EXCEPT !.subscribed = FALSE]
  /\ Stay /\ UNCHANGED <<held, files, agreed, sent>>

AdminSteps ==
  \/ ReadDocument \/ ReadVariables \/ AppSecret \/ ExchangeCredentials \/ ResolveVersion \/ CheckPlan
  \/ CheckKind \/ StageUpload \/ UploadVariables \/ RunOperation \/ Poll \/ Download
  \/ ReportOperation \/ ReadStatus \/ CancelOperation \/ ExecuteDocument \/ ReportResult
  \/ CheckTerminal \/ Bind \/ GraphiqlServes
  \/ CheckSources \/ CheckStores \/ Subscribe \/ PollLogs \/ Resubscribe \/ StopLogs
  \/ ChooseApiVersion \/ ChooseTopic \/ ResolveDelivery \/ Trigger \/ DeliverLocally

AdminWorld ==
  OperationRuns \/ PlanChanges \/ AppLogs \/ SubscriptionExpires \/ InterruptLogs

-----------------------------------------------------------------------------
(* Properties.                                                             *)

Did(s) == \E i \in DOMAIN sent : sent[i] = s

(* A document that changes the store is sent only to a store that was a    *)
(* development store when the command asked, unless the command allows it; *)
(* a browser without the key is served nothing, and the client is made     *)
(* once however the requests come.                                         *)
MutationAllowed ==
  /\ (Did("run") \/ Did("execute")) /\ "mutation" \in given =>
       "allow" \in given \/ (Knows("plan") /\ held.plan = "development")
  /\ command \in {"graphiql", "store-graphiql"} /\ Knows("made") =>
       /\ Cardinality(held.made) <= 1
       /\ \A c \in Connections : Did(c) =>
            \/ server.asks[c] = "query"
            \/ server.asks[c] = "mutation" /\ ("allow" \in given \/ c \in held.checked)

(* No entry of the log is passed over, and the logs shown are the entries  *)
(* from the first, each once and in order, however often the subscription  *)
(* runs out: only after a page without a cursor are they shown again.      *)
NoLogLost ==
  Knows("shown") =>
    /\ held.shown = [i \in 1..held.cursor |-> i]
    /\ 1..held.cursor \subseteq held.seen
    /\ \A n \in held.seen : 1..n \subseteq held.seen
=============================================================================
