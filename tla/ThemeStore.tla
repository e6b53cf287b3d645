----------------------------- MODULE ThemeStore -----------------------------
(***************************************************************************)
(* The theme commands of the CLI against one store: theme push, pull,      *)
(* share, duplicate, publish, delete and the theme of the Liquid console   *)
(* (crates/cfy-cli/src/lib.rs), the requests they make                     *)
(* (crates/cfy-api/src/theme.rs) and when a request is sent again          *)
(* (HttpClient::execute).                                                  *)
(*                                                                         *)
(* A user runs one command; users share the store.  A file is the number   *)
(* of its contents, 0 where there is none.  Each attempt of a request      *)
(* reaches the store or does not, and is answered or not: a change may     *)
(* have been made although the answer says nothing of it.                  *)
(***************************************************************************)
EXTENDS Naturals, FiniteSets

CONSTANTS
  Users,       \* one command each
  Themes,      \* the themes there may be
  Paths,       \* the asset paths
  NoTheme,     \* the target of a command that has none yet
  MaxRetries,  \* RetryPolicy::max_retries
  MaxEnvironments  \* bound: the environments one share is asked for

ASSUME RetryAssumption == MaxRetries \in Nat
ASSUME EnvironmentsAssumption == MaxEnvironments \in Nat \ {0}
ASSUME ThemesAssumption == NoTheme \notin Themes

VARIABLES
  role,       \* per theme: its role; "none" before it is made, "deleted" after
  files,      \* per theme: its assets
  local,      \* per user: the files of the directory
  cmd,        \* per user: the command
  target,     \* per user: the theme it works on
  deleting,   \* per user: --allow-delete
  left,       \* per user: the environments of a share that are still to come
  shared,     \* per user: share_theme's `results`, the themes it has shared
  pc,         \* per user: the next step
  tries,      \* per user: execute's local `attempt`
  todo,       \* per user: the assets still to be downloaded or pushed
  got,        \* per user: the assets downloaded
  failed,     \* per user: PushSummary::failed is not empty
  cancelled,  \* per user: the Cancellation flag
  result,     \* per user: how the command ended
  made,       \* per user: the themes its requests have made
  asked,      \* per user: the themes it has asked to be deleted again
  disturbed   \* per user: somebody else has changed its theme meanwhile

store == <<role, files>>
asking == <<cmd, target, deleting, left, shared>>
vars == <<store, local, asking, pc, tries, todo, got, failed, cancelled, result,
          made, asked, disturbed>>

Contents == 0..2
Nothing == [k \in Paths |-> 0]
Directories == [Paths -> {0, 2}]
Commands == {"push", "pull", "share", "duplicate", "publish", "delete", "console"}
Roles == {"main", "unpublished", "development"}

(* GET is sent again by default; every other request here says Unsafe.     *)
Reading == {"list", "keys", "asset"}
Changing == {"create", "push", "cleanup", "act"}

TypeOK ==
  /\ role \in [Themes -> Roles \union {"none", "deleted"}]
  /\ files \in [Themes -> [Paths -> Contents]]
  /\ local \in [Users -> [Paths -> Contents]]
  /\ cmd \in [Users -> Commands]
  /\ target \in [Users -> Themes \union {NoTheme}]
  /\ deleting \in [Users -> BOOLEAN]
  /\ left \in [Users -> 0..MaxEnvironments - 1]
  /\ shared \in [Users -> SUBSET Themes]
  /\ pc \in [Users -> {"start", "read", "commit", "done"} \union Reading \union Changing]
  /\ tries \in [Users -> 0..MaxRetries]
  /\ todo \in [Users -> SUBSET Paths]
  /\ got \in [Users -> [Paths -> Contents]]
  /\ failed \in [Users -> BOOLEAN]
  /\ cancelled \in [Users -> BOOLEAN]
  /\ result \in [Users -> {"none", "ok", "error"}]
  /\ \A u \in Users : result[u] = "none" <=> pc[u] # "done"
  /\ made \in [Users -> SUBSET Themes]
  /\ asked \in [Users -> SUBSET Themes]
  /\ disturbed \in [Users -> BOOLEAN]

(* A live theme, one more or none, and any directories.                    *)
Init ==
  /\ role \in {r \in [Themes -> {"main", "unpublished", "none"}] :
                 Cardinality({t \in Themes : r[t] = "main"}) = 1}
  /\ files = [t \in Themes |-> IF role[t] = "none" THEN Nothing ELSE [k \in Paths |-> 1]]
  /\ cmd \in [Users -> Commands]
  /\ local \in [Users -> Directories]
  /\ \A u \in Users : cmd[u] \notin {"push", "pull"} => local[u] = Nothing
  /\ target \in [Users -> Themes \union {NoTheme}]
  /\ \A u \in Users : IF cmd[u] \in {"share", "console"} THEN target[u] = NoTheme
                     ELSE target[u] # NoTheme /\ role[target[u]] # "none"
  /\ deleting \in [Users -> BOOLEAN]
  /\ \A u \in Users : deleting[u] => cmd[u] = "push"
  /\ left \in [Users -> 0..MaxEnvironments - 1]
  /\ \A u \in Users : left[u] # 0 => cmd[u] = "share"
  /\ shared = [u \in Users |-> {}]
  /\ pc = [u \in Users |-> "start"]
  /\ tries = [u \in Users |-> 0]
  /\ todo = [u \in Users |-> {}]
  /\ got = [u \in Users |-> Nothing]
  /\ failed = [u \in Users |-> FALSE]
  /\ cancelled = [u \in Users |-> FALSE]
  /\ result = [u \in Users |-> "none"]
  /\ made = [u \in Users |-> {}]
  /\ asked = [u \in Users |-> {}]
  /\ disturbed = [u \in Users |-> FALSE]

-----------------------------------------------------------------------------
Goto(u, step) == pc' = [pc EXCEPT ![u] = step] /\ UNCHANGED result
End(u, how) == pc' = [pc EXCEPT ![u] = "done"] /\ result' = [result EXCEPT ![u] = how]

(* What u does to theme t disturbs every other command that works on it.   *)
Disturb(u, t) ==
  disturbed' = [v \in Users |-> disturbed[v] \/ (v # u /\ target[v] = t)]

Exists(t) == role[t] \in Roles

(* request_is_retryable.  Mutant: whatever failed is sent again.           *)
AlwaysRetryable(step) == TRUE
Retryable(step) == step \in Reading

(* Mutant: one attempt too many.                                           *)
SendAgainOnceMore(u) ==
  /\ Retryable(pc[u])
  /\ tries[u] <= MaxRetries
  /\ tries' = [tries EXCEPT ![u] = @ + 1]
  /\ UNCHANGED <<pc, result>>

(* An attempt has failed with a status or an error after which a request   *)
(* that may be repeated is repeated; or it was the last, or must not be.   *)
SendAgain(u) ==
  /\ Retryable(pc[u])
  /\ tries[u] < MaxRetries
  /\ tries' = [tries EXCEPT ![u] = @ + 1]
  /\ UNCHANGED <<pc, result>>

Answered(u) == tries' = [tries EXCEPT ![u] = 0]
Unanswered(u) == SendAgain(u) \/ (End(u, "error") /\ Answered(u))

(* check_cancelled comes before a request, not between its attempts.       *)
GoesOn(u) == ~cancelled[u] \/ tries[u] > 0

-----------------------------------------------------------------------------
(* Reading.                                                                *)

Start(u) ==
  /\ pc[u] = "start"
  /\ Goto(u, CASE cmd[u] \in {"push", "console"} -> "list"
               [] cmd[u] = "pull"                -> "keys"
               [] cmd[u] = "share"               -> "read"
               [] OTHER                          -> "act")
  /\ UNCHANGED <<store, local, asking, tries, todo, got, failed, cancelled, made, asked, disturbed>>

(* theme push looks its theme up, and asks before it touches the live one; *)
(* the answer, --force and a terminal that is missing are the two cases.   *)
ListForPush(u) ==
  /\ pc[u] = "list" /\ cmd[u] = "push"
  /\ Answered(u)
  /\ IF ~Exists(target[u]) THEN End(u, "error")
     ELSE \/ Goto(u, "read")
          \/ role[target[u]] = "main" /\ End(u, "error")
  /\ UNCHANGED <<store, local, asking, todo, got, failed, cancelled, made, asked, disturbed>>

(* The console takes the first development theme of its name, or makes one. *)
ListForConsole(u) ==
  /\ pc[u] = "list" /\ cmd[u] = "console"
  /\ Answered(u)
  /\ IF \E t \in Themes : role[t] = "development"
     THEN /\ \E t \in Themes : role[t] = "development" /\ target' = [target EXCEPT ![u] = t]
          /\ Goto(u, "push")
          /\ todo' = [todo EXCEPT ![u] = Paths]
     ELSE Goto(u, "create") /\ UNCHANGED <<target, todo>>
  /\ disturbed' = [disturbed EXCEPT ![u] = FALSE]
  /\ UNCHANGED <<store, local, cmd, deleting, left, shared, got, failed, cancelled, made, asked>>

(* read_theme_files, which may fail.  Each environment of a share may name *)
(* a directory of its own, which is read when its turn comes.              *)
Read(u) ==
  /\ pc[u] = "read"
  /\ \/ End(u, "error") /\ UNCHANGED local
     \/ cmd[u] = "push" /\ Goto(u, "keys") /\ UNCHANGED local
     \/ /\ cmd[u] = "share" /\ Goto(u, "create")
        /\ \E d \in Directories : local' = [local EXCEPT ![u] = d]
  /\ UNCHANGED <<store, asking, tries, todo, got, failed, cancelled, made, asked, disturbed>>

(* The end of a download: the differences for push, the files for pull.    *)
(* diff_assets uploads what differs and deletes what is not there.         *)
Differing(u) == {k \in Paths : local[u][k] # got'[u][k]}

Downloaded(u) ==
  IF cmd[u] = "push"
  THEN Goto(u, "push") /\ todo' = [todo EXCEPT ![u] = Differing(u)]
  ELSE Goto(u, "commit") /\ todo' = [todo EXCEPT ![u] = {}]

(* ThemeClient::pull, its list of keys.                                    *)
Keys(u) ==
  /\ pc[u] = "keys"
  /\ GoesOn(u)
  /\ Exists(target[u])
  /\ Answered(u)
  /\ got' = [got EXCEPT ![u] = Nothing]
  /\ LET keys == {k \in Paths : files[target[u]][k] # 0}
     IN IF keys = {} THEN Downloaded(u)
        ELSE Goto(u, "asset") /\ todo' = [todo EXCEPT ![u] = keys]
  /\ UNCHANGED <<store, local, asking, failed, cancelled, made, asked, disturbed>>

(* And one request for each of them.                                       *)
Asset(u, k) ==
  /\ pc[u] = "asset"
  /\ GoesOn(u)
  /\ k \in todo[u]
  /\ Exists(target[u]) /\ files[target[u]][k] # 0
  /\ Answered(u)
  /\ got' = [got EXCEPT ![u][k] = files[target[u]][k]]
  /\ IF todo[u] = {k} THEN Downloaded(u)
     ELSE Goto(u, "asset") /\ todo' = [todo EXCEPT ![u] = @ \ {k}]
  /\ UNCHANGED <<store, local, asking, failed, cancelled, made, asked, disturbed>>

(* No answer, an error, or something that is not there.                    *)
ReadingFails(u) ==
  /\ pc[u] \in Reading
  /\ GoesOn(u) /\ Unanswered(u)
  /\ UNCHANGED <<store, local, asking, todo, got, failed, cancelled, made, asked, disturbed>>

(* check_cancelled, before the requests of a download and before a theme   *)
(* is made for share.                                                      *)
Stop(u) ==
  /\ pc[u] \in {"keys", "asset"} \union (IF cmd[u] = "share" THEN {"create"} ELSE {})
  /\ ~GoesOn(u)
  /\ End(u, "error")
  /\ UNCHANGED <<store, local, asking, tries, todo, got, failed, cancelled, made, asked, disturbed>>

(* commit_staged_files_cancellable, as ThemeCommit shows it to be.         *)
CommitFiles(u) ==
  /\ pc[u] = "commit"
  /\ \/ /\ ~cancelled[u]
        /\ End(u, "ok")
        /\ local' = [local EXCEPT ![u] = [k \in Paths |-> IF got[u][k] # 0 THEN got[u][k] ELSE @[k]]]
     \/ End(u, "error") /\ UNCHANGED local
  /\ UNCHANGED <<store, asking, tries, todo, got, failed, cancelled, made, asked, disturbed>>

-----------------------------------------------------------------------------
(* Changing.                                                               *)

Put(t, r, f) == role' = [role EXCEPT ![t] = r] /\ files' = [files EXCEPT ![t] = f]

(* create_theme, for share and for the console.                            *)
Create(u, t) ==
  /\ pc[u] = "create"
  /\ GoesOn(u)
  /\ role[t] = "none"
  /\ Put(t, IF cmd[u] = "share" THEN "unpublished" ELSE "development", Nothing)
  /\ made' = [made EXCEPT ![u] = @ \union {t}]
  /\ \/ /\ Answered(u)
        /\ Goto(u, "push")
        /\ target' = [target EXCEPT ![u] = t]
        /\ todo' = [todo EXCEPT ![u] = IF cmd[u] = "share" THEN {k \in Paths : local[u][k] # 0} ELSE Paths]
        /\ disturbed' = [disturbed EXCEPT ![u] = FALSE]
     \/ Unanswered(u) /\ UNCHANGED <<target, todo, disturbed>>
  /\ UNCHANGED <<local, cmd, deleting, left, shared, got, failed, cancelled, asked>>

Duplicate(u, t) ==
  /\ pc[u] = "act" /\ cmd[u] = "duplicate"
  /\ Exists(target[u]) /\ role[t] = "none"
  /\ Put(t, "unpublished", files[target[u]])
  /\ made' = [made EXCEPT ![u] = @ \union {t}]
  /\ (End(u, "ok") /\ Answered(u)) \/ Unanswered(u)
  /\ UNCHANGED <<local, asking, todo, got, failed, cancelled, asked, disturbed>>

Publish(u) ==
  /\ pc[u] = "act" /\ cmd[u] = "publish"
  /\ Exists(target[u])
  /\ role' = [t \in Themes |-> CASE t = target[u]    -> "main"
                                 [] role[t] = "main" -> "unpublished"
                                 [] OTHER            -> role[t]]
  /\ (End(u, "ok") /\ Answered(u)) \/ Unanswered(u)
  /\ UNCHANGED <<files, local, asking, todo, got, failed, cancelled, made, asked, disturbed>>

(* Shopify does not delete the live theme.                                 *)
Delete(u) ==
  /\ pc[u] = "act" /\ cmd[u] = "delete"
  /\ Exists(target[u]) /\ role[target[u]] # "main"
  /\ Put(target[u], "deleted", Nothing)
  /\ Disturb(u, target[u])
  /\ (End(u, "ok") /\ Answered(u)) \/ Unanswered(u)
  /\ UNCHANGED <<local, asking, todo, got, failed, cancelled, made, asked>>

ChangeFails(u) ==
  /\ pc[u] \in {"create", "act"}
  /\ pc[u] = "create" => GoesOn(u)
  /\ Unanswered(u)
  /\ UNCHANGED <<store, local, asking, todo, got, failed, cancelled, made, asked, disturbed>>

(* ThemeClient::push: what is uploaded comes before what is deleted.       *)
Wanted(u, k) == IF cmd[u] = "console" THEN 1 ELSE local[u][k]
Uploads(u) == {k \in todo[u] : Wanted(u, k) # 0}

Due(u, k) ==
  /\ pc[u] = "push"
  /\ k \in todo[u]
  /\ k \in Uploads(u) \/ Uploads(u) = {}

(* A change was made, or not; it was answered, or is one of the failures.  *)
Pushed(u, k, ok) ==
  \/ /\ tries' = [tries EXCEPT ![u] = 0]
     /\ todo' = [todo EXCEPT ![u] = @ \ {k}]
     /\ failed' = [failed EXCEPT ![u] = @ \/ ~ok]
     /\ UNCHANGED <<pc, result>>
  \/ ~ok /\ SendAgain(u) /\ UNCHANGED <<todo, failed>>

Push(u, k, ok) ==
  /\ Due(u, k)
  /\ GoesOn(u)
  /\ k \in Uploads(u) \/ deleting[u]
  /\ Exists(target[u])
  /\ files' = [files EXCEPT ![target[u]][k] = Wanted(u, k)]
  /\ Disturb(u, target[u])
  /\ Pushed(u, k, ok)
  /\ UNCHANGED <<role, local, asking, got, cancelled, made, asked>>

PushFails(u, k) ==
  /\ Due(u, k)
  /\ GoesOn(u)
  /\ k \in Uploads(u) \/ deleting[u]
  /\ Pushed(u, k, FALSE)
  /\ UNCHANGED <<store, local, asking, got, cancelled, made, asked, disturbed>>

(* Without --allow-delete a deletion is skipped.                           *)
SkipDeletion(u, k) ==
  /\ Due(u, k)
  /\ GoesOn(u)
  /\ k \notin Uploads(u) /\ ~deleting[u]
  /\ todo' = [todo EXCEPT ![u] = @ \ {k}]
  /\ UNCHANGED <<store, local, asking, pc, tries, got, failed, cancelled, result, made, asked, disturbed>>

StopPushing(u) ==
  /\ pc[u] = "push" /\ todo[u] # {}
  /\ ~GoesOn(u)
  /\ todo' = [todo EXCEPT ![u] = {}]
  /\ failed' = [failed EXCEPT ![u] = TRUE]
  /\ UNCHANGED <<store, local, asking, pc, tries, got, cancelled, result, made, asked, disturbed>>

(* share_theme's loop: the theme is one of the results; the next           *)
(* environment is shared, or it was the last.                              *)
NextEnvironment(u) ==
  /\ shared' = [shared EXCEPT ![u] = @ \union {target[u]}]
  /\ \/ left[u] = 0 /\ End(u, "ok") /\ UNCHANGED <<target, left>>
     \/ /\ left[u] > 0 /\ Goto(u, "read")
        /\ left' = [left EXCEPT ![u] = @ - 1]
        /\ target' = [target EXCEPT ![u] = NoTheme]

(* Mutant: the failures are a warning.                                     *)
PushEndsWell(u) ==
  /\ pc[u] = "push" /\ todo[u] = {}
  /\ \/ cmd[u] = "share" /\ NextEnvironment(u)
     \/ cmd[u] # "share" /\ End(u, "ok") /\ UNCHANGED <<target, left, shared>>
  /\ UNCHANGED <<store, local, cmd, deleting, tries, todo, got, failed, cancelled, made, asked, disturbed>>

(* Every change has been tried; share takes its theme back after a failure, *)
(* and keeps those of the environments before.                             *)
PushEnds(u) ==
  /\ pc[u] = "push" /\ todo[u] = {}
  /\ \/ cmd[u] = "share" /\ ~failed[u] /\ NextEnvironment(u)
     \/ cmd[u] = "share" /\ failed[u] /\ Goto(u, "cleanup") /\ UNCHANGED <<target, left, shared>>
     \/ cmd[u] # "share" /\ End(u, IF failed[u] THEN "error" ELSE "ok") /\ UNCHANGED <<target, left, shared>>
  /\ UNCHANGED <<store, local, cmd, deleting, tries, todo, got, failed, cancelled, made, asked, disturbed>>

(* Mutant: the cancellation of the command cancels its cleanup.            *)
CleanupCancellably(u) ==
  /\ pc[u] = "cleanup"
  /\ End(u, "error")
  /\ IF cancelled[u] THEN UNCHANGED <<store, asked, disturbed>>
     ELSE /\ asked' = [asked EXCEPT ![u] = @ \union {target[u]}]
          /\ Put(target[u], "deleted", Nothing)
          /\ Disturb(u, target[u])
  /\ UNCHANGED <<local, asking, tries, todo, got, failed, cancelled, made>>

(* share's delete_theme, with a cancellation of its own.                   *)
Cleanup(u) ==
  /\ pc[u] = "cleanup"
  /\ End(u, "error")
  /\ asked' = [asked EXCEPT ![u] = @ \union {target[u]}]
  /\ \/ /\ role[target[u]] # "main"
        /\ Put(target[u], "deleted", Nothing)
        /\ Disturb(u, target[u])
     \/ UNCHANGED <<store, disturbed>>
  /\ UNCHANGED <<local, asking, tries, todo, got, failed, cancelled, made>>

(* Ctrl-C, once the command's signal task runs; any other command it kills. *)
Cancel(u) ==
  /\ ~cancelled[u]
  /\ CASE cmd[u] \in {"pull", "share"} -> pc[u] # "done"
       [] cmd[u] = "push"             -> pc[u] \in {"keys", "asset", "push"}
       [] OTHER                       -> FALSE
  /\ cancelled' = [cancelled EXCEPT ![u] = TRUE]
  /\ UNCHANGED <<store, local, asking, pc, tries, todo, got, failed, result, made, asked, disturbed>>

-----------------------------------------------------------------------------
Downloading(u) ==
  \/ ListForPush(u) \/ ListForConsole(u) \/ Read(u) \/ Keys(u) \/ CommitFiles(u)
  \/ ReadingFails(u) \/ Stop(u)
  \/ \E k \in Paths : Asset(u, k)

Making(u) ==
  \/ \E t \in Themes : Create(u, t) \/ Duplicate(u, t)
  \/ Publish(u) \/ Delete(u) \/ ChangeFails(u) \/ Cleanup(u)

Uploading(u) ==
  \/ \E k \in Paths : PushFails(u, k) \/ SkipDeletion(u, k) \/ \E ok \in BOOLEAN : Push(u, k, ok)
  \/ StopPushing(u) \/ PushEnds(u)

Next == \E u \in Users : Start(u) \/ Downloading(u) \/ Making(u) \/ Uploading(u) \/ Cancel(u)

Spec == Init /\ [][Next]_vars

-----------------------------------------------------------------------------
(* Properties.                                                             *)

(* A command that reports success has done what it says, whatever was sent *)
(* again or tried in between, unless somebody else changed the theme: what *)
(* was pushed or shared is in the theme, what was pulled in the directory. *)
HasPushed(u) ==
  \A k \in Paths :
    /\ Wanted(u, k) # 0 => files[target[u]][k] = Wanted(u, k)
    /\ cmd[u] = "push" /\ deleting[u] => files[target[u]][k] = local[u][k]

HasPulled(u) ==
  \A k \in Paths : files[target[u]][k] # 0 => local'[u][k] = files[target[u]][k]

Completes(u) == (result[u] = "none" /\ result'[u] = "ok") \/ shared'[u] # shared[u]

SuccessIsTrue ==
  [][\A u \in Users : Completes(u) /\ ~disturbed[u] =>
       /\ cmd[u] \in {"push", "share", "console"} => HasPushed(u)
       /\ cmd[u] = "pull" => HasPulled(u)]_vars

(* A share that fails in the upload of a theme, a cancelled one too, has   *)
(* asked for this theme to be deleted ("upload every asset, and roll it    *)
(* back on failure", ThemeClient::share), and never for one that it has    *)
(* shared for an environment before, which stays although the command ends *)
(* in an error; a share that succeeds has made what it reports, and no     *)
(* more.  A creation that was not answered leaves a theme nobody knows of. *)
ShareTakesBack ==
  \A u \in Users : cmd[u] = "share" =>
    /\ result[u] = "error" /\ target[u] \in made[u] => target[u] \in asked[u]
    /\ asked[u] \intersect shared[u] = {}
    /\ result[u] = "ok" => left[u] = 0 /\ made[u] = shared[u]

(* No command makes two themes, nor a share two for one environment, even  *)
(* if the answer to its request is lost ("POST is not retryable by         *)
(* default", docs/http-graphql.md).                                        *)
NoSecondTheme == \A u \in Users : Cardinality(made[u] \ shared[u]) <= 1

(* The themes that the commands make are accounted for.                    *)
ThemesAccountedFor == TypeOK /\ ShareTakesBack /\ NoSecondTheme
=============================================================================
