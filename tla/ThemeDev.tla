------------------------------ MODULE ThemeDev ------------------------------
(***************************************************************************)
(* `cfy theme dev` (theme_dev of crates/cfy-cli): the files of a directory *)
(* are uploaded to a theme, and whatever an editor does to them afterwards *)
(* is noticed by a watcher, gathered for a while, coalesced, read and      *)
(* pushed, a whole batch being sent again when part of it fails.           *)
(*                                                                         *)
(* A file is the number of the write that made its contents, and 0 where   *)
(* there is none.                                                          *)
(***************************************************************************)
EXTENDS Naturals, Sequences

CONSTANTS
  Paths,     \* the asset paths
  MaxEdits   \* bound: what the editor does

ASSUME ThemeDevAssumption == MaxEdits \in Nat

VARIABLES
  local,     \* per path: the file in the directory
  remote,    \* per path: the asset of the theme
  edits,     \* how often the editor has done something
  watching,  \* the watcher exists
  queue,     \* the watcher's channel
  batch,     \* the events gathered
  unread,    \* the paths still to be read
  changes,   \* the ThemeChanges: <<path, contents>>, contents 0 to delete
  unsent,    \* those not yet sent in this attempt
  failed,    \* one of them has failed in this attempt
  attempt,   \* sync_with_retry's local of that name
  at,        \* where theme_dev is
  theme,     \* the theme: the user's, or one that this run creates
  listening, \* tokio has replaced the disposition of SIGINT
  missed     \* paths whose present file the session has passed over: changed
             \* between their scan and the watcher, never in the directory, or
             \* there and not readable when their event was handled

fileVars == <<local, remote, edits, missed>>
syncVars == <<changes, unsent, failed, attempt>>
vars == <<fileVars, watching, queue, batch, unread, syncVars, at, theme, listening>>

Attempts == 4

(* A write by somebody else, before; writes of this run count from 2.      *)
Foreign == 1
Contents == 0..(MaxEdits + 2)

Ended == {"ended", "killed"}

Event == [gone : SUBSET Paths, there : SUBSET Paths]

TypeOK ==
  /\ local \in [Paths -> Contents]
  /\ remote \in [Paths -> Contents]
  /\ edits \in 0..MaxEdits
  /\ watching \in BOOLEAN /\ failed \in BOOLEAN /\ listening \in BOOLEAN
  /\ queue \in Seq(Event) /\ batch \in Seq(Event)
  /\ unread \subseteq Paths /\ missed \subseteq Paths
  /\ changes \subseteq Paths \X Contents /\ unsent \subseteq changes
  /\ attempt \in 1..Attempts
  /\ at \in {"create", "scan", "sync", "ready", "select", "debounce", "read", "cleanup"} \union Ended
  /\ theme \in {"user", "none", "lost", "created", "deleted", "undeleted"}

Init ==
  /\ local \in [Paths -> {0, 2}]
  /\ theme \in {"user", "none"}
  /\ remote \in [Paths -> IF theme = "user" THEN {0, Foreign} ELSE {0}]
  /\ at = IF theme = "user" THEN "scan" ELSE "create"
  /\ edits = 0
  /\ watching = FALSE
  /\ queue = <<>> /\ batch = <<>>
  /\ unread = Paths
  /\ changes = {} /\ unsent = {} /\ failed = FALSE /\ attempt = 1
  /\ listening = FALSE
  /\ missed = {}

-----------------------------------------------------------------------------
(* The editor, at any time.                                                *)

(* Once it watches, the watcher sends what happened; before that, a change *)
(* to a file that has been scanned is not seen.                            *)
Notice(gone, there) ==
  /\ edits' = edits + 1
  /\ IF watching
     THEN /\ queue' = Append(queue, [gone |-> gone, there |-> there])
          /\ missed' = missed \ (gone \union there)
     ELSE /\ missed' = missed \union ((gone \union there) \ unread)
          /\ UNCHANGED queue

Editing == edits < MaxEdits /\ at \notin Ended

Write(p) ==
  /\ Editing
  /\ local' = [local EXCEPT ![p] = edits + 3]
  /\ Notice({}, {p})
  /\ UNCHANGED <<remote, watching, batch, unread, syncVars, at, theme, listening>>

Remove(p) ==
  /\ Editing
  /\ local[p] # 0
  /\ local' = [local EXCEPT ![p] = 0]
  /\ Notice({p}, {})
  /\ UNCHANGED <<remote, watching, batch, unread, syncVars, at, theme, listening>>

Rename(p, q) ==
  /\ Editing
  /\ p # q
  /\ local[p] # 0
  /\ local' = [local EXCEPT ![p] = 0, ![q] = local[p]]
  /\ Notice({p}, {q})
  /\ UNCHANGED <<remote, watching, batch, unread, syncVars, at, theme, listening>>

-----------------------------------------------------------------------------
(* sync_with_retry and ThemeClient::push.                                  *)

StartSync(new) ==
  /\ at' = "sync"
  /\ changes' = new
  /\ unsent' = new
  /\ failed' = FALSE
  /\ attempt' = 1

(* The code sends them in the order of their paths, which are distinct.    *)
Send(c) ==
  /\ at = "sync"
  /\ c \in unsent
  /\ remote' = [remote EXCEPT ![c[1]] = c[2]]
  /\ unsent' = unsent \ {c}
  /\ UNCHANGED <<local, edits, missed, watching, queue, batch, unread, changes, failed, attempt, at, theme, listening>>

(* A request fails before or after the server has served it; the push goes *)
(* on with the next one.                                                   *)
SendFails(c) ==
  /\ at = "sync"
  /\ c \in unsent
  /\ \/ UNCHANGED remote
     \/ remote' = [remote EXCEPT ![c[1]] = c[2]]
  /\ unsent' = unsent \ {c}
  /\ failed' = TRUE
  /\ UNCHANGED <<local, edits, missed, watching, queue, batch, unread, changes, attempt, at, theme, listening>>

(* Mutant: part of the batch having failed, the session goes on.           *)
SyncedInPart ==
  /\ at = "sync" /\ unsent = {}
  /\ at' = IF watching THEN "select" ELSE "ready"
  /\ changes' = {}
  /\ UNCHANGED <<fileVars, watching, queue, batch, unread, unsent, failed, attempt, theme, listening>>

Synced ==
  /\ at = "sync" /\ unsent = {}
  /\ ~failed
  /\ at' = IF watching THEN "select" ELSE "ready"
  /\ changes' = {}
  /\ UNCHANGED <<fileVars, watching, queue, batch, unread, unsent, failed, attempt, theme, listening>>

(* After a delay the whole batch is sent again, as it was read.            *)
Resend ==
  /\ at = "sync" /\ unsent = {}
  /\ failed /\ attempt < Attempts
  /\ attempt' = attempt + 1
  /\ unsent' = changes
  /\ failed' = FALSE
  /\ UNCHANGED <<fileVars, watching, queue, batch, unread, changes, at, theme, listening>>

GiveUp ==
  /\ at = "sync" /\ unsent = {}
  /\ failed /\ attempt = Attempts
  /\ at' = "cleanup"
  /\ UNCHANGED <<fileVars, watching, queue, batch, unread, syncVars, theme, listening>>

-----------------------------------------------------------------------------
(* theme_dev.                                                              *)

(* The creation is asked for once, outside of what the cleanup covers: when *)
(* its answer is lost, the theme that it may have made is lost with it.    *)
CreateTheme ==
  /\ at = "create"
  /\ \/ at' = "scan" /\ theme' = "created"
     \/ at' = "ended" /\ theme' \in {"none", "lost"}
  /\ UNCHANGED <<fileVars, watching, queue, batch, unread, syncVars, listening>>

(* The directory is read one file after the other.                         *)
ScanFile(p) ==
  /\ at = "scan"
  /\ p \in unread
  /\ unread' = unread \ {p}
  /\ IF local[p] # 0
     THEN changes' = changes \union {<<p, local[p]>>} /\ UNCHANGED missed
     ELSE missed' = (IF remote[p] # 0 THEN missed \union {p} ELSE missed) /\ UNCHANGED changes
  /\ UNCHANGED <<local, remote, edits, watching, queue, batch, unsent, failed, attempt, at, theme, listening>>

InitialSync ==
  /\ at = "scan"
  /\ unread = {}
  /\ StartSync(changes)
  /\ UNCHANGED <<fileVars, watching, queue, batch, unread, theme, listening>>

(* "Ready and watching" has been printed; now the watcher is made.         *)
Watch ==
  /\ at = "ready"
  /\ watching' = TRUE
  /\ listening' = TRUE
  /\ at' = "select"
  /\ UNCHANGED <<fileVars, queue, batch, unread, syncVars, theme>>

(* A file cannot be read, or the watcher not be made, or it fails.         *)
Error ==
  /\ at \in {"scan", "ready", "select", "debounce"}
  /\ at' = "cleanup"
  /\ UNCHANGED <<fileVars, watching, queue, batch, unread, syncVars, theme, listening>>

(* Mutant: an event that another one follows is dropped.                   *)
FirstEventOfMany ==
  /\ at = "select"
  /\ queue # <<>>
  /\ batch' = IF Len(queue) > 1 THEN <<>> ELSE <<Head(queue)>>
  /\ queue' = Tail(queue)
  /\ at' = "debounce"
  /\ UNCHANGED <<fileVars, watching, unread, syncVars, theme, listening>>

FirstEvent ==
  /\ at = "select"
  /\ queue # <<>>
  /\ batch' = <<Head(queue)>>
  /\ queue' = Tail(queue)
  /\ at' = "debounce"
  /\ UNCHANGED <<fileVars, watching, unread, syncVars, theme, listening>>

About(e, p) == p \in e.gone \union e.there
Touched(s) == {p \in Paths : \E i \in 1..Len(s) : About(s[i], p)}

(* The events that came during the delay are gathered.                     *)
Drain ==
  /\ at = "debounce"
  /\ batch' = batch \o queue
  /\ queue' = <<>>
  /\ unread' = Touched(batch')
  /\ at' = "read"
  /\ UNCHANGED <<fileVars, watching, syncVars, theme, listening>>

(* coalesce: the last event of a path decides, and of a rename's two       *)
(* entries the one for the new name.                                       *)
Deletes(s, p) ==
  \E i \in 1..Len(s) :
    /\ About(s[i], p) /\ p \notin s[i].there
    /\ \A k \in i + 1..Len(s) : ~About(s[k], p)

(* A path to be uploaded is read now.  One that is not there is skipped,   *)
(* and so is, without a word, a file whose metadata, canonical path or     *)
(* contents cannot be read: unless another event about it is on its way,   *)
(* the session has passed over it.                                         *)
ReadPath(p) ==
  /\ at = "read"
  /\ p \in unread
  /\ unread' = unread \ {p}
  /\ \/ /\ Deletes(batch, p)
        /\ changes' = changes \union {<<p, 0>>}
        /\ UNCHANGED missed
     \/ /\ ~Deletes(batch, p) /\ local[p] # 0
        /\ changes' = changes \union {<<p, local[p]>>}
        /\ UNCHANGED missed
     \/ /\ ~Deletes(batch, p) /\ local[p] = 0
        /\ UNCHANGED <<changes, missed>>
     \/ /\ ~Deletes(batch, p) /\ local[p] # 0
        /\ missed' = missed \union ({p} \ Touched(queue))
        /\ UNCHANGED changes
  /\ UNCHANGED <<local, remote, edits, watching, queue, batch, unsent, failed, attempt, at, theme, listening>>

(* Mutant: the events gathered are kept.                                   *)
PushKeepingBatch ==
  /\ at = "read"
  /\ unread = {} /\ changes # {}
  /\ StartSync(changes)
  /\ UNCHANGED <<fileVars, watching, queue, batch, unread, theme, listening>>

Push ==
  /\ at = "read"
  /\ unread = {} /\ changes # {}
  /\ batch' = <<>>
  /\ StartSync(changes)
  /\ UNCHANGED <<fileVars, watching, queue, unread, theme, listening>>

NothingToPush ==
  /\ at = "read"
  /\ unread = {} /\ changes = {}
  /\ batch' = <<>>
  /\ at' = "select"
  /\ UNCHANGED <<fileVars, watching, queue, unread, syncVars, theme, listening>>

(* Ctrl-C kills the process until the select has been polled for the first *)
(* time; from then on it is heard while the select waits, and lost when it *)
(* comes at another moment (no step).                                      *)
Interrupt ==
  /\ at \notin Ended
  /\ listening => at = "select"
  /\ at' = IF listening THEN "cleanup" ELSE "killed"
  /\ UNCHANGED <<fileVars, watching, queue, batch, unread, syncVars, theme, listening>>

(* Mutant: only a session that got ready cleans up.                        *)
CleanUpIfReady ==
  /\ at = "cleanup"
  /\ at' = "ended"
  /\ theme' = IF theme = "created" /\ watching THEN "deleted" ELSE theme
  /\ UNCHANGED <<fileVars, watching, queue, batch, unread, syncVars, listening>>

CleanUp ==
  /\ at = "cleanup"
  /\ at' = "ended"
  /\ IF theme = "created" THEN theme' \in {"deleted", "undeleted"} ELSE UNCHANGED theme
  /\ UNCHANGED <<fileVars, watching, queue, batch, unread, syncVars, listening>>

-----------------------------------------------------------------------------
Editor ==
  \/ \E p \in Paths : Write(p) \/ Remove(p)
  \/ \E p, q \in Paths : Rename(p, q)

Sync == Synced \/ Resend \/ GiveUp \/ \E c \in unsent : Send(c) \/ SendFails(c)

Dev ==
  \/ CreateTheme \/ InitialSync \/ Watch \/ FirstEvent \/ Drain \/ Push \/ NothingToPush
  \/ \E p \in Paths : ScanFile(p) \/ ReadPath(p)
  \/ CleanUp

Next == Editor \/ Sync \/ Dev \/ Error \/ Interrupt

Spec == Init /\ [][Next]_vars

(* theme_dev runs on; the editor and the user owe nothing, and a request   *)
(* may fail every time.                                                    *)
FairSpec == Spec /\ WF_vars(Sync \/ Dev)

-----------------------------------------------------------------------------
(* Properties.                                                             *)

(* The last word about p on its way to the theme, in the channel, in the   *)
(* batch, among the changes or in the theme itself, is the present state   *)
(* of the file.                                                            *)
LastWord(p) ==
  IF p \in Touched(queue) THEN Deletes(queue, p) <=> local[p] = 0
  ELSE IF p \in Touched(batch) /\ (at = "debounce" \/ p \in unread)
       THEN Deletes(batch, p) <=> local[p] = 0
  ELSE IF \E c \in changes : c[1] = p THEN <<p, local[p]>> \in changes
  ELSE remote[p] = local[p]

(* No change is lost between the editor and the theme, for every path but  *)
(* those that the session has passed over.                                 *)
Covered ==
  at \notin Ended \union {"cleanup"} =>
    \A p \in Paths \ missed : (~watching /\ p \in unread) \/ LastWord(p)

(* What each step of theme_dev finds, and leaves to the next one.          *)
Stages ==
  /\ at \in {"create", "scan", "ready"} => ~watching
  /\ at \in {"select", "debounce", "read"} => watching
  /\ ~watching => queue = <<>>
  /\ at \in {"create", "scan", "sync", "ready", "select"} => batch = <<>>
  /\ at \in {"create", "ready", "select", "debounce"} => changes = {}
  /\ at \in {"sync", "ready", "select", "debounce"} => unread = {}
  /\ at = "create" => unread = Paths
  /\ at = "read" => unread \subseteq Touched(batch)

(* One change per path; what an attempt has sent without an error is in    *)
(* the theme.                                                              *)
OneChangeEach ==
  /\ \A c, d \in changes : c[1] = d[1] => c = d
  /\ at \in {"scan", "read"} => \A c \in changes : c[1] \notin unread
  /\ at = "sync" /\ ~failed => \A c \in changes \ unsent : remote[c[1]] = c[2]

(* The invariant of the session's state.                                   *)
NoChangeLost == TypeOK /\ Stages /\ OneChangeEach /\ Covered

(* A session that goes on brings the theme up to date: once the editor     *)
(* rests, every path but those that the session has passed over is in the  *)
(* theme as it is in the directory.                                        *)
Converges ==
  []<>(at \in Ended \/ \A p \in Paths \ missed : remote[p] = local[p])

(* However the session ends, but for a kill, the theme whose creation was  *)
(* answered is deleted, or its deletion was tried and failed and the error *)
(* says so.  The one whose answer was lost stays in the store, and nothing *)
(* has been uploaded to it.                                                *)
ThemeIsDeleted ==
  /\ at = "ended" => theme # "created"
  /\ theme = "lost" => at = "ended" /\ \A p \in Paths : remote[p] = 0
=============================================================================
