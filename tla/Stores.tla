------------------------------- MODULE Stores -------------------------------
(***************************************************************************)
(* The store commands (crates/cfy-cli/src/commands/store.rs, over          *)
(* crates/cfy-store), and app import-custom-data.                          *)
(*                                                                         *)
(* A store session is an entry of an index file and a credential in the    *)
(* system's store.  server.index is the stores with an entry, and          *)
(* server.scopes the scopes in the entry of s; server.stored is the        *)
(* generation of the credential of s (0: none), server.fresh whether its   *)
(* access token is good for a while, server.renews whether it has a        *)
(* refresh token, and server.issued the last generation Shopify gave out.  *)
(***************************************************************************)
EXTENDS AdminCommands

CONSTANTS
  MaxTokens,     \* generations of credentials of s
  MaxAttempts    \* times a request is sent: max_retries + 1 in the code

Entries == {"s", "t"}
Scopes == {"read", "write"}
Expanded(scopes) == scopes \union (IF "write" \in scopes THEN {"read"} ELSE {})

Registry ==
  {[index |-> S, scopes |-> c, stored |-> n, issued |-> 1, fresh |-> f, renews |-> r, executed |-> 0] :
     S \in {{}, {"s"}}, c \in {{}, {"write"}}, n \in 0..1, f, r \in BOOLEAN}

(* store_access_token: from the environment, or through the registry.      *)
Token == Without("token", <<"entry", "credential", "refresh", "keep-refreshed", "keep-index">>)

StoreInfo ==
  /\ Begin("store-info", {{}}, {<<>>}, Registry)
  /\ todo = Token \o <<"info">> /\ agreed = {}

StoreExecute ==
  /\ Begin("store-execute", {{"token"}, {"token", "mutation"}}, {<<>>}, [executed : {0}])
  /\ todo = Token \o <<"execute-document">> /\ agreed = {}

StoreGraphiql ==
  /\ Begin("store-graphiql", {{"token", "allow"}, {"token", "deny"}}, {<<>>},
           [plan : Plans, executed : {0},
            asks : [Connections -> {"page", "forbidden", "query", "mutation"}]])
  /\ todo = <<"terminal">> \o Token \o <<"version", "bind", "serve">> /\ agreed = {}

StoreBulkExecute ==
  /\ Begin("store-bulk-execute",
           {o \union {"token"} : o \in SUBSET {"mutation", "variables", "allow", "watch", "output"}},
           {Only("results", "user"), <<>>}, [operation : {"none"}, staged : {FALSE}])
  /\ todo = <<"document">> \o Token \o <<"version", "store-kind">>
            \o Chosen("mutation", <<"stage", "upload">>) \o <<"run">>
            \o Chosen("watch", <<"poll", "download">>) \o <<"report">>
  /\ agreed = IF "output" \in given THEN {"results"} ELSE {}

StoreBulkStatus ==
  /\ Begin("store-bulk-status", {{"token"}}, {<<>>}, [operation : {"none", "running"}])
  /\ todo = Token \o <<"version", "status">> /\ agreed = {}

StoreBulkCancel ==
  /\ Begin("store-bulk-cancel", {{"token"}}, {<<>>}, [operation : {"running"} \union Ended])
  /\ todo = Token \o <<"version", "cancel">> /\ agreed = {}

Saving == <<"keep-credential", "index", "keep-entry">>

StoreAuth ==
  /\ Begin("store-auth", {{}}, {<<>>}, {r \in Registry : r.renews})
  /\ todo = <<"terminal", "scopes", "callback-port", "approval", "exchange-code">> \o Saving
  /\ agreed = {}

CreatePreview ==
  /\ Begin("store-create", {{}}, {<<>>} \union [{"instance"} -> {"user", "broken"}],
           {r \in Registry : r.index = {} /\ r.scopes = {} /\ r.stored = 0 /\ ~r.renews})
  /\ todo = <<"instance", "create-store">> \o Saving
  /\ agreed = {}

ListSessions ==
  /\ Begin("store-auth-list", {{}}, {<<>>}, Registry)
  /\ todo = <<"entries", "prune">> /\ agreed = {}

ListStores ==
  /\ Begin("store-list", SUBSET {"organization", "prompt"}, {<<>>}, [organizations : 0..2])
  /\ todo = <<"session", "store-organizations", "organization-stores">> /\ agreed = {}

DeleteStore ==
  /\ Begin("store-delete", SUBSET {"confirm"}, {<<>>}, [exists : {TRUE}])
  /\ todo = <<"confirm", "endpoint", "delete-store">> /\ agreed = {}

OpenStore ==
  /\ Begin("store-open", SUBSET {"unsupported"}, {<<>>}, {<<>>})
  /\ todo = <<"store-operation">> /\ agreed = {}

(* server.pages is the pages each kind of definition has.                  *)
ImportDefinitions ==
  /\ Begin("import-custom-data", {{}}, {<<>>}, [pages : [{"metafields", "metaobjects"} -> 1..2]])
  /\ todo = <<"environment", "session", "management", "secret", "exchange",
              "metafields", "metaobjects", "report">>
  /\ agreed = {}

StoreBegins ==
  \/ StoreInfo \/ StoreExecute \/ StoreGraphiql \/ StoreBulkExecute \/ StoreBulkStatus
  \/ StoreBulkCancel \/ StoreAuth \/ CreatePreview \/ ListSessions \/ ListStores \/ DeleteStore
  \/ OpenStore \/ ImportDefinitions

-----------------------------------------------------------------------------
(* access_token: the index is read first, and the one that was read is     *)
(* saved, whatever another process has saved since.                        *)

LoadEntry ==
  /\ At("entry")
  /\ Learn("index", server.index)
  /\ IF "s" \in server.index THEN Pass ELSE Return("error")
  /\ Quiet

LoadCredential ==
  /\ At("credential")
  /\ server.stored # 0
  /\ Learn("stored", server.stored)
  /\ \/ server.fresh /\ todo' = SubSeq(todo, 5, Len(todo))
        /\ UNCHANGED <<commandVars, given, found>>
     \/ ~server.fresh /\ server.renews /\ Pass
     \/ ~server.fresh /\ ~server.renews /\ Return("error")
  /\ Quiet

(* The entry of a credential that is gone is dropped.                      *)
DropEntry ==
  /\ At("credential")
  /\ server.stored = 0
  /\ server' = [server EXCEPT !.index = held.index \ {"s"}]
  /\ Return("error")
  /\ UNCHANGED <<held, files, agreed, sent>>

(* A refresh token is good once; the answer may be lost.                   *)
Refresh ==
  /\ At("refresh")
  /\ held.stored = server.issued /\ server.issued < MaxTokens
  /\ sent' = Append(sent, "refresh")
  /\ server' = [server EXCEPT !.issued = @ + 1]
  /\ Learn("granted", server.issued + 1)
  /\ Pass \/ Return("error")
  /\ UNCHANGED <<files, agreed>>

(* Mutant: the session is saved as it was before the refresh.              *)
KeepExpired ==
  /\ At("keep-refreshed")
  /\ Pass
  /\ UNCHANGED <<held, files, agreed, sent, server>>

KeepRefreshed ==
  /\ At("keep-refreshed")
  /\ server' = [server EXCEPT !.stored = held.granted, !.fresh = TRUE]
  /\ Pass
  /\ UNCHANGED <<held, files, agreed, sent>>

KeepIndex ==
  /\ At("keep-index")
  /\ server' = [server EXCEPT !.index = held.index]
  /\ Then
  /\ UNCHANGED <<held, files, agreed, sent>>

-----------------------------------------------------------------------------
(* store auth, and the session of a preview store.                         *)

(* The scopes of the session there is are asked for again.                 *)
MergeScopes ==
  /\ At("scopes")
  /\ Learn("requested", {"read"} \union (IF "s" \in server.index THEN server.scopes ELSE {}))
  /\ Pass /\ Quiet

BindCallback == Step("callback-port")

(* One connection, within five minutes: the approval or an error.          *)
AwaitApproval == Step("approval")

(* resolve_granted_scopes: fewer than were asked for is an error, and what *)
(* is granted to write may be read too; it is saved as it was granted.     *)
ExchangeCode ==
  /\ At("exchange-code")
  /\ server.issued < MaxTokens
  /\ sent' = Append(sent, "exchange-code")
  /\ server' = [server EXCEPT !.issued = @ + 1]
  /\ \E scopes \in SUBSET Scopes :
       /\ held' = Over([granted |-> server.issued + 1, scopes |-> scopes], held)
       /\ IF held.requested \subseteq Expanded(scopes) THEN Pass ELSE Return("error")
  /\ UNCHANGED <<files, agreed>>

(* An instance ID that cannot be read is made anew.                        *)
InstanceId ==
  /\ At("instance")
  /\ IF Content("instance") = "user" THEN UNCHANGED files ELSE Set("instance", "new")
  /\ Pass
  /\ OnDisk

CreateStore ==
  /\ At("create-store")
  /\ sent' = Append(sent, "create-store")
  /\ server' = [server EXCEPT !.issued = @ + 1]
  /\ held' = Over([granted |-> server.issued + 1, scopes |-> Scopes, requested |-> Scopes], held)
  /\ Pass \/ Return("error")
  /\ UNCHANGED <<files, agreed>>

KeepCredential ==
  /\ At("keep-credential")
  /\ server' = [server EXCEPT !.stored = held.granted, !.fresh = TRUE]
  /\ Pass
  /\ UNCHANGED <<held, files, agreed, sent>>

LoadIndex ==
  /\ At("index")
  /\ Learn("index", server.index)
  /\ Pass /\ Quiet

(* Where the index cannot be saved the credential is deleted, also one     *)
(* that has replaced another; that may fail too.                           *)
KeepEntry ==
  /\ At("keep-entry")
  /\ \/ /\ server' = [server EXCEPT !.index = held.index \union {"s"}, !.scopes = held.scopes]
        /\ Then
     \/ /\ server' \in {server, [server EXCEPT !.stored = 0]}
        /\ Return("error")
  /\ UNCHANGED <<held, files, agreed, sent>>

(* list_current: entries without a credential are left out of the index,   *)
(* which is saved where there was one; t has its credential.               *)
ListEntries ==
  /\ At("entries")
  /\ held' = Over([index |-> server.index,
                   listed |-> {e \in server.index : e = "t" \/ server.stored # 0}], held)
  /\ Pass /\ Quiet

PruneIndex ==
  /\ At("prune")
  /\ server' = IF held.listed = held.index THEN server ELSE [server EXCEPT !.index = held.listed]
  /\ Then
  /\ UNCHANGED <<held, files, agreed, sent>>

-----------------------------------------------------------------------------
(* What is asked of the store and of the organization.                     *)

ReadInfo == Step("info")

(* The document is sent as a query, whatever it is: an answer of 408, 429  *)
(* or 5xx, or none in time, has it sent again.                             *)
ExecuteAnyDocument ==
  /\ At("execute-document")
  /\ sent' = Append(sent, "execute-document")
  /\ \E n \in 0..1 : server' = [server EXCEPT !.executed = @ + n]
  /\ \/ Then \/ Return("error")
     \/ Len(sent) + 1 < MaxAttempts /\ Stay
  /\ OnServer

(* Mutant: --allow-mutations is not looked at.                             *)
AnyStoreKind == ("mutation" \in given <=> "variables" \in given) /\ Step("store-kind")

CheckStoreKind ==
  /\ "mutation" \in given => {"allow", "variables"} \subseteq given
  /\ "variables" \in given => "mutation" \in given
  /\ Step("store-kind")

StoreOrganization ==
  /\ At("store-organizations")
  /\ \/ server.organizations = 0 /\ Return("ok")
     \/ server.organizations > 0 /\ Pass
        /\ (server.organizations = 1 \/ given \intersect {"organization", "prompt"} # {})
  /\ UNCHANGED held /\ Quiet

OrganizationStores == Step("organization-stores")

Confirmed == "confirm" \in given /\ Step("confirm")
Endpoint == Step("endpoint")
RemoveStore == Mutation("delete-store", Only("exists", FALSE))

StoreOperation == "unsupported" \notin given /\ Step("store-operation")

(* Mutant: the page size is taken for the number of definitions.           *)
LoadFirstPage(kind) == At(kind) /\ Learn(kind, 1) /\ Pass /\ Quiet

(* load_connection, a page at a time.                                      *)
LoadPage(kind) ==
  /\ At(kind)
  /\ LET page == IF Knows(kind) THEN held[kind] + 1 ELSE 1
     IN Learn(kind, page) /\ (IF page = server.pages[kind] THEN Pass ELSE Stay)
  /\ Quiet

SkipDenied == At("metafields") /\ Learn("denied", TRUE) /\ Pass /\ Quiet

-----------------------------------------------------------------------------
(* Other processes use the registry, which has no lock.                    *)

RegistryInUse ==
  Planned /\ Head(todo) \in {"credential", "refresh", "keep-refreshed", "keep-index", "scopes",
                             "approval", "exchange-code", "keep-credential", "index", "keep-entry",
                             "prune"}
  /\ "issued" \in DOMAIN server

OtherSavesIndex ==
  /\ RegistryInUse
  /\ \E S \in SUBSET Entries : S # server.index /\ server' = [server EXCEPT !.index = S]
  /\ Stay /\ UNCHANGED <<held, files, agreed, sent>>

OtherRefreshes ==
  /\ RegistryInUse
  /\ server.stored = server.issued /\ ~server.fresh /\ server.renews /\ server.issued < MaxTokens
  /\ server' = [server EXCEPT !.issued = @ + 1, !.stored = @ + 1, !.fresh = TRUE]
  /\ Stay /\ UNCHANGED <<held, files, agreed, sent>>

StoreSteps ==
  \/ LoadEntry \/ LoadCredential \/ DropEntry \/ Refresh \/ KeepRefreshed \/ KeepIndex
  \/ MergeScopes \/ BindCallback \/ AwaitApproval \/ ExchangeCode \/ InstanceId \/ CreateStore
  \/ KeepCredential \/ LoadIndex \/ KeepEntry \/ ListEntries \/ PruneIndex
  \/ ReadInfo \/ ExecuteAnyDocument \/ CheckStoreKind \/ StoreOrganization \/ OrganizationStores
  \/ Confirmed \/ Endpoint \/ RemoveStore \/ StoreOperation
  \/ LoadPage("metafields") \/ LoadPage("metaobjects") \/ SkipDenied

StoreWorld == OtherSavesIndex \/ OtherRefreshes

-----------------------------------------------------------------------------
(* A store command that says it is done used, or leaves, a session that    *)
(* holds: what was granted is kept, at least the scopes there were are     *)
(* kept, and definitions are converted from all the pages there are.       *)
StoreEnd ==
  result = "ok" =>
    /\ Knows("granted") => server.stored >= held.granted
    /\ command \in {"store-auth", "store-create"} =>
         "s" \in server.index /\ held.requested \subseteq Expanded(server.scopes)
    /\ command = "import-custom-data" =>
         /\ held["metaobjects"] = server.pages["metaobjects"]
         /\ Knows("denied") \/ held["metafields"] = server.pages["metafields"]

(* A document that changes the store is executed once, even where the      *)
(* answer is lost (docs/http-graphql.md says a mutation is not retried).   *)
ExecutedOnce ==
  command = "store-execute" /\ "mutation" \in given => server.executed <= 1
=============================================================================
