------------------------------- MODULE AppDev -------------------------------
(***************************************************************************)
(* `cfy app dev` (app_dev of crates/cfy-cli/src/commands/app.rs): one task *)
(* starts the servers, the tunnel and the remote development session, and  *)
(* then selects over them and over the changes of the project until one of *)
(* them ends; whatever has been started is stopped again on the way out.   *)
(*                                                                         *)
(* The components' task is what DevSession promises of it.  The project is *)
(* the number of its edits; a manifest or an archive is the number of the  *)
(* edit it was made from, 0 where there is none.                           *)
(***************************************************************************)
EXTENDS TunnelSession, TlsProxy

CONSTANTS
  Configurations,   \* the options that may be given
  MaxEdits          \* bound: how often the project is edited

ASSUME AppDevAssumption ==
  /\ {"web", "theme", "mkcert"} \subseteq Processes
  /\ MaxEdits \in Nat

VARIABLES
  opts,        \* webs, proxy, theme, tunnel, tui, notify
  at,          \* where app_dev is; "held" by a request that nobody answers
  result,      \* the result it returns, or is about to; "unsaid" is a success too,
               \* after an answer that does not say whether the session is deleted
  cancelled,   \* the Cancellation flag
  signal,      \* the signal task
  local,       \* local_task
  graphiql,    \* GraphiqlServer
  questions,   \* the browsers whose connections GraphiQL answers
  dashboard,   \* dashboard_task
  files,       \* the project
  noticed,     \* the last edit the watcher has seen
  event,       \* a relevant change waits in the channel
  manifest,    \* the manifest in hand
  bundle,      \* the archive in hand
  remote,      \* the development session in the store
  disk         \* .catify/dev: session.json and manifest.json

graphiqlVars == <<graphiql, questions>>
tasks == <<signal, local, graphiqlVars, dashboard>>
project == <<files, noticed, event>>
hand == <<manifest, bundle>>
servers == <<tunnelVars, proxyVars>>
vars == <<opts, at, result, cancelled, tasks, project, hand, remote, disk, servers>>

Versions == 0..MaxEdits + 1
Remote == [session : {"none", "other", "ours"}, manifest : Versions, source : Versions]
Preparing == {"prepare", "install", "certify", "proxy", "preview", "tunnel", "manifest", "upload",
              "create", "initialize", "state", "record"}
Looping == {"select", "reload", "refresh", "update", "save", "persist", "notify"}
Leaving == {"shutting", "quitting", "joining", "closing", "delete", "abort", "stop"}

AppDevTypeOK ==
  /\ TunnelTypeOK
  /\ ProxyTypeOK
  /\ opts \in Configurations
  /\ at \in Preparing \union {"session", "announce", "watch"} \union Looping \union Leaving
            \union {"held", "ended", "killed"}
  /\ result \in {"none", "ok", "unsaid", "error"}
  /\ cancelled \in BOOLEAN
  /\ signal \in {"none", "listening", "stopping", "done"}
  /\ local \in {"none", "running", "cancelling", "failing", "ok", "cancelled", "failed"}
  /\ graphiql \in {"none", "bound", "serving", "stopped"} /\ questions \in SUBSET Clients
  /\ dashboard \in {"none", "running", "closed", "failed"}
  /\ files \in Versions /\ noticed \in Versions /\ event \in BOOLEAN
  /\ manifest \in Versions /\ bundle \in Versions
  /\ remote \in Remote
  /\ disk \in [manifest : Versions, source : Versions]

Init ==
  /\ TunnelInit
  /\ ProxyInit
  /\ opts \in Configurations
  /\ at = "prepare"
  /\ result = "none"
  /\ cancelled = FALSE
  /\ signal = "none" /\ local = "none" /\ graphiql = "none" /\ dashboard = "none"
  /\ questions = {}
  /\ files = 1 /\ noticed = 0 /\ event = FALSE
  /\ manifest = 0 /\ bundle = 0
  /\ remote \in {[session |-> s, manifest |-> 0, source |-> 0] : s \in {"none", "other"}}
  /\ disk = [manifest |-> 0, source |-> 0]

-----------------------------------------------------------------------------
Goto(step) == at' = step /\ UNCHANGED result
Calm == UNCHANGED <<opts, cancelled, tasks, project, hand, remote, disk, servers>>

(* An error is returned: what was started is dropped, which asks the       *)
(* processes to stop and closes the servers.                               *)
Return(how) ==
  /\ at' = "ended"
  /\ result' = how
  /\ AskAll
  /\ DropProxy
  /\ graphiql' = IF graphiql = "bound" THEN "none" ELSE graphiql
  /\ signal' = "done"
  /\ UNCHANGED <<opts, cancelled, local, questions, dashboard, project, hand, remote, disk,
                 tunnel, attempt, child>>

(* The error paths before the loop: delete_session, then tunnel.stop.      *)
Abort == at' = "abort" /\ result' = "error"

(* The arms of the loop that end it: everything local is shut down.        *)
Shut(step, how) ==
  /\ at' = step
  /\ result' = how
  /\ cancelled' = TRUE
  /\ AskAll
  /\ UNCHANGED <<opts, tasks, project, hand, disk, tunnel, attempt, child, proxyVars>>

Quit(step, how) == Shut(step, how) /\ UNCHANGED remote

-----------------------------------------------------------------------------
(* Up to the watcher.                                                      *)

(* Options, configuration, session, app, credentials; GraphiQL is bound.   *)
Prepare ==
  /\ at = "prepare"
  /\ manifest' = files
  /\ graphiql' = "bound"
  /\ Goto(IF opts.proxy THEN "install" ELSE "preview")
  /\ UNCHANGED <<opts, cancelled, signal, local, questions, dashboard, project, bundle, remote,
                 disk, servers>>

PrepareFails == at \in {"prepare", "preview"} /\ Return("error")

(* prepare_mkcert: -install, then the certificate and its key.             *)
RunMkcert ==
  /\ at \in {"install", "certify"}
  /\ child["mkcert"] # "running"
  /\ Spawn("mkcert")
  /\ UNCHANGED <<opts, at, result, cancelled, tasks, project, hand, remote, disk, tunnel, attempt,
                 proxyVars>>

MkcertDone ==
  /\ at \in {"install", "certify"}
  /\ child["mkcert"] = "left"
  /\ child' = [child EXCEPT !["mkcert"] = "none"]
  /\ Goto(IF at = "install" THEN "certify" ELSE "proxy")
  /\ UNCHANGED <<opts, cancelled, tasks, project, hand, remote, disk, tunnel, attempt, asked,
                 proxyVars>>

MkcertFails ==
  /\ at \in {"install", "certify"}
  /\ child["mkcert"] = "left"
  /\ Return("error")

StartTls ==
  /\ at = "proxy"
  /\ StartProxy
  /\ Goto("preview")
  /\ UNCHANGED <<opts, cancelled, tasks, project, hand, remote, disk, tunnelVars>>

(* The addresses, the certificates or the port may not do.                 *)
TlsFails == at = "proxy" /\ Return("error")

StartPreview ==
  /\ at = "preview"
  /\ IF opts.theme THEN Spawn("theme") ELSE UNCHANGED <<child, asked>>
  /\ Goto(IF opts.tunnel THEN "tunnel" ELSE "manifest")
  /\ UNCHANGED <<opts, cancelled, tasks, project, hand, remote, disk, tunnel, attempt, proxyVars>>

Tunnelling ==
  /\ at = "tunnel"
  /\ Starting
  /\ UNCHANGED <<opts, at, result, cancelled, tasks, project, hand, remote, disk, proxyVars>>

TunnelStarted == at = "tunnel" /\ tunnel = "ready" /\ Goto("manifest") /\ Calm

TunnelFails == at = "tunnel" /\ tunnel = "failed" /\ Return("error")

(* dev_manifest; the first error that stops the tunnel and nothing else.   *)
MakeManifest == at = "manifest" /\ Goto("upload") /\ Calm

StopFailed ==
  /\ at \in {"manifest", "upload"}
  /\ at' = "stop"
  /\ result' = "error"
  /\ Calm

(* upload_dev_source: a build, an archive, a URL and its upload, which a   *)
(* cancellation ends.                                                      *)
Upload ==
  /\ at \in {"upload", "refresh"}
  /\ ~cancelled
  /\ bundle' = files
  /\ Goto(IF at = "upload" THEN "create" ELSE "update")
  /\ UNCHANGED <<opts, cancelled, tasks, project, manifest, remote, disk, servers>>

CreateSession ==
  /\ at = "create"
  /\ remote' = [remote EXCEPT !.session = "ours", !.source = bundle]
  /\ Goto("initialize")
  /\ UNCHANGED <<opts, cancelled, tasks, project, hand, disk, servers>>

(* No answer, user errors, or no session in the answer: it may be there.   *)
CreateFails ==
  /\ at = "create"
  /\ remote' \in {remote, [remote EXCEPT !.session = "ours", !.source = bundle]}
  /\ Abort
  /\ UNCHANGED <<opts, cancelled, tasks, project, hand, disk, servers>>

Initialize ==
  /\ at = "initialize"
  /\ remote' = [remote EXCEPT !.manifest = manifest]
  /\ Goto("state")
  /\ UNCHANGED <<opts, cancelled, tasks, project, hand, disk, servers>>

InitializeFails ==
  /\ at = "initialize"
  /\ remote' \in {remote, [remote EXCEPT !.manifest = manifest]}
  /\ Abort
  /\ UNCHANGED <<opts, cancelled, tasks, project, hand, disk, servers>>

(* persist_dev_state: session.json, then manifest.json.                    *)
RecordState ==
  /\ at \in {"state", "save"}
  /\ disk' = [disk EXCEPT !.source = bundle]
  /\ Goto(IF at = "state" THEN "record" ELSE "persist")
  /\ UNCHANGED <<opts, cancelled, tasks, project, hand, remote, servers>>

RecordManifest ==
  /\ at \in {"record", "persist"}
  /\ disk' = [disk EXCEPT !.manifest = manifest]
  /\ signal' = IF at = "record" THEN "listening" ELSE signal
  /\ Goto(IF at = "record" THEN "session" ELSE "notify")
  /\ UNCHANGED <<opts, cancelled, local, graphiqlVars, dashboard, project, hand, remote, servers>>

AbortPersist ==
  /\ at \in {"state", "record"} \/ (at = "session" /\ opts.webs)
  /\ Abort
  /\ Calm

(* DevSession::start; a cancellation makes it an error like any other.     *)
StartLocal ==
  /\ at = "session"
  /\ ~(opts.webs /\ cancelled)
  /\ local' = "running"
  /\ IF opts.webs THEN Spawn("web") ELSE UNCHANGED <<child, asked>>
  /\ Goto("announce")
  /\ UNCHANGED <<opts, cancelled, signal, graphiqlVars, dashboard, project, hand, remote, disk,
                 tunnel, attempt, proxyVars>>

Announce == at = "announce" /\ Goto("watch") /\ Calm

(* The line cannot be written: the one error that deletes nothing.         *)
AnnounceFails == at = "announce" /\ ~opts.tui /\ Return("error")

(* From here on the watcher's channel takes the edits.                     *)
Watch ==
  /\ at = "watch"
  /\ graphiql' = "serving"
  /\ dashboard' = IF opts.tui /\ opts.webs THEN "running" ELSE "none"
  /\ Goto("select")
  /\ UNCHANGED <<opts, cancelled, signal, local, questions, project, hand, remote, disk, servers>>

WatchFails == at = "watch" /\ Quit("quitting", "error")

-----------------------------------------------------------------------------
(* The loop: any arm that is ready.                                        *)

LocalEnded == local \in {"ok", "cancelled", "failed"}

DashboardClosed == at = "select" /\ dashboard = "closed" /\ Quit("quitting", "ok")
DashboardFailed == at = "select" /\ dashboard = "failed" /\ Quit("shutting", "error")

LocalArm ==
  /\ at = "select"
  /\ LocalEnded
  /\ Quit("shutting", IF local = "ok" \/ (local = "cancelled" /\ cancelled) THEN "ok" ELSE "error")

GraphiqlArm == at = "select" /\ graphiql = "stopped" /\ Quit("quitting", "error")

ThemeArm == at = "select" /\ opts.theme /\ child["theme"] = "left" /\ Quit("quitting", "error")

(* A relevant change, and 250 ms without another.                          *)
ChangeArm ==
  /\ at = "select"
  /\ event
  /\ event' = FALSE
  /\ Goto("reload")
  /\ UNCHANGED <<opts, cancelled, tasks, files, noticed, hand, remote, disk, servers>>

(* Mutant: the manifest of the first load is sent again.                   *)
ReloadNothing ==
  /\ at = "reload"
  /\ Goto("refresh")
  /\ Calm

Reload ==
  /\ at = "reload"
  /\ manifest' = files
  /\ Goto("refresh")
  /\ UNCHANGED <<opts, cancelled, tasks, project, bundle, remote, disk, servers>>

(* Mutant: the update does not name the new sources.                       *)
UpdateManifest ==
  /\ at = "update"
  /\ remote' = [remote EXCEPT !.manifest = manifest]
  /\ Goto("save")
  /\ UNCHANGED <<opts, cancelled, tasks, project, hand, disk, servers>>

UpdateSession ==
  /\ at = "update"
  /\ remote' = [remote EXCEPT !.manifest = manifest, !.source = bundle]
  /\ Goto("save")
  /\ UNCHANGED <<opts, cancelled, tasks, project, hand, disk, servers>>

(* It is refused, or it is not answered and may have been made.            *)
UpdateFails ==
  /\ at = "update"
  /\ remote' \in {remote, [remote EXCEPT !.manifest = manifest, !.source = bundle]}
  /\ Shut("quitting", "error")

(* send_dev_notification: nothing, a POST, or a file that may lie in the   *)
(* project, where the watcher sees it change.                              *)
Notify ==
  /\ at = "notify"
  /\ event' = (event \/ opts.notify = "file")
  /\ Goto("select")
  /\ UNCHANGED <<opts, cancelled, tasks, files, noticed, hand, remote, disk, servers>>

(* The configuration does not load, Ctrl-C comes during the upload, a file *)
(* or the notification cannot be written.                                  *)
ChangeFails ==
  /\ \/ at \in {"reload", "refresh", "save", "persist"}
     \/ at = "notify" /\ opts.notify # "none"
  /\ Quit("quitting", "error")

-----------------------------------------------------------------------------
(* The way out.                                                            *)

(* The supervisor has no process left; the arms but two await local_task.  *)
Quitted ==
  /\ at \in {"shutting", "quitting"}
  /\ Active = {}
  /\ at = "quitting" => LocalEnded
  /\ Goto("joining")
  /\ Calm

(* Mutant: the GraphiQL server is not awaited.                             *)
CloseAtOnce ==
  /\ at = "joining"
  /\ StopProxy
  /\ Goto("closing")
  /\ UNCHANGED <<opts, cancelled, tasks, project, hand, remote, disk, tunnelVars>>

CloseServers ==
  /\ at = "joining"
  /\ graphiql # "serving"
  /\ StopProxy
  /\ Goto("closing")
  /\ UNCHANGED <<opts, cancelled, tasks, project, hand, remote, disk, tunnelVars>>

ServersClosed == at = "closing" /\ proxy # "stopping" /\ Goto("delete") /\ Calm

(* delete_session: done, or an error, with or without the session gone; or *)
(* an answer without devSessionDelete, which is taken for done.            *)
DeleteSession ==
  /\ at \in {"delete", "abort"}
  /\ \E gone \in BOOLEAN, answer \in {"deleted", "unsaid", "failed"} :
        /\ answer = "deleted" => gone
        /\ remote' = IF gone THEN [session |-> "none", manifest |-> 0, source |-> 0] ELSE remote
        /\ result' = IF answer = "failed" THEN "error"
                     ELSE IF answer = "unsaid" /\ result = "ok" THEN "unsaid"
                     ELSE result
  /\ at' = "stop"
  /\ UNCHANGED <<opts, cancelled, tasks, project, hand, disk, servers>>

(* tunnel.stop shuts the supervisor down once more, where there is one.    *)
StopLast ==
  /\ at = "stop"
  /\ tunnel = "ready"
  /\ StopTunnel
  /\ UNCHANGED <<opts, at, result, cancelled, tasks, project, hand, remote, disk, proxyVars>>

End ==
  /\ at = "stop"
  /\ tunnel # "ready"
  /\ tunnel = "stopped" => Active = {}
  /\ Return(result)

-----------------------------------------------------------------------------
(* The tasks beside it.                                                    *)

(* Ctrl-C: the flag, then every process is asked.                          *)
CtrlC ==
  /\ signal = "listening"
  /\ signal' = "stopping"
  /\ cancelled' = TRUE
  /\ UNCHANGED <<opts, at, result, local, graphiqlVars, dashboard, project, hand, remote, disk,
                 servers>>

SignalShutdown ==
  /\ signal = "stopping"
  /\ signal' = "done"
  /\ AskAll
  /\ UNCHANGED <<opts, at, result, cancelled, local, graphiqlVars, dashboard, project, hand,
                 remote, disk, tunnel, attempt, child, proxyVars>>

(* A request that nobody ever answers: no client has a timeout, and the    *)
(* task looks at no cancellation while it awaits one.                      *)
RequestHangs ==
  /\ \/ at \in {"prepare", "upload", "create", "initialize", "refresh", "update", "delete", "abort"}
     \/ at = "notify" /\ opts.notify = "call"
  /\ Goto("held")
  /\ Calm

(* Before there is a signal task, Ctrl-C ends the process where it is.     *)
KilledByCtrlC ==
  /\ at \in Preparing \union {"held"}
  /\ signal = "none"
  /\ Goto("killed")
  /\ Calm

(* The web component exits with success: wait returns Ok, and nobody else  *)
(* is asked to stop.                                                       *)
LocalExits ==
  /\ local = "running"
  /\ opts.webs
  /\ ~cancelled
  /\ child["web"] = "left"
  /\ local' = "ok"
  /\ UNCHANGED <<opts, at, result, cancelled, signal, graphiqlVars, dashboard, project, hand,
                 remote, disk, servers>>

(* A spent restart budget or the cancellation shut the supervisor down.    *)
LocalShutsDown ==
  /\ local = "running"
  /\ \/ cancelled /\ local' = IF opts.webs THEN "cancelling" ELSE "cancelled"
     \/ opts.webs /\ ~cancelled /\ child["web"] = "left" /\ local' = "failing"
  /\ IF opts.webs THEN AskAll ELSE UNCHANGED asked
  /\ UNCHANGED <<opts, at, result, cancelled, signal, graphiqlVars, dashboard, project, hand,
                 remote, disk, tunnel, attempt, child, proxyVars>>

LocalStopped ==
  /\ local \in {"cancelling", "failing"}
  /\ Active = {}
  /\ local' = IF local = "cancelling" THEN "cancelled" ELSE "failed"
  /\ UNCHANGED <<opts, at, result, cancelled, signal, graphiqlVars, dashboard, project, hand,
                 remote, disk, servers>>

(* Mutant: the server does not look at the flag.                           *)
GraphiqlStopsByError(how) ==
  /\ graphiql = "serving"
  /\ how = "error"
  /\ graphiql' = "stopped"
  /\ UNCHANGED <<opts, at, result, cancelled, signal, local, questions, dashboard, project, hand,
                 remote, disk, servers>>

(* GraphiqlServer::run looks at the flag every 100 ms; accept may fail.    *)
GraphiqlStops(how) ==
  /\ graphiql = "serving"
  /\ how = "cancelled" => cancelled
  /\ graphiql' = "stopped"
  /\ UNCHANGED <<opts, at, result, cancelled, signal, local, questions, dashboard, project, hand,
                 remote, disk, servers>>

(* A task of its own answers each connection, which nobody awaits or       *)
(* aborts: it may outlive the server, and app_dev too.                     *)
GraphiqlAccepts(c) ==
  /\ graphiql = "serving"
  /\ questions' = questions \union {c}
  /\ UNCHANGED <<opts, at, result, cancelled, signal, local, graphiql, dashboard, project, hand,
                 remote, disk, servers>>

GraphiqlAnswers(c) ==
  /\ questions' = questions \ {c}
  /\ UNCHANGED <<opts, at, result, cancelled, signal, local, graphiql, dashboard, project, hand,
                 remote, disk, servers>>

(* run_app_dev_dashboard ends: cancelled, told of the session's shutdown,  *)
(* or because the terminal cannot be drawn.                                *)
DashboardEnds ==
  /\ dashboard = "running"
  /\ \/ cancelled \/ local # "running"
     \/ dashboard' = "failed"
  /\ dashboard' \in {"closed", "failed"}
  /\ UNCHANGED <<opts, at, result, cancelled, signal, local, graphiqlVars, project, hand, remote,
                 disk, servers>>

(* q or Esc.                                                               *)
DashboardQuit ==
  /\ dashboard = "running"
  /\ cancelled' = TRUE
  /\ UNCHANGED <<opts, at, result, tasks, project, hand, remote, disk, servers>>

Browse ==
  /\ Serving
  /\ UNCHANGED <<opts, at, result, cancelled, tasks, project, hand, remote, disk, tunnelVars>>

ProxyTask ==
  /\ ProxyStops
  /\ UNCHANGED <<opts, at, result, cancelled, tasks, project, hand, remote, disk, tunnelVars>>

ProcessExits(c) ==
  /\ Exit(c)
  /\ UNCHANGED <<opts, at, result, cancelled, tasks, project, hand, remote, disk, proxyVars>>

(* The user saves a file; before the watcher is there, nobody sees it, and *)
(* on the way out nobody reads it.                                         *)
Edit ==
  /\ at \notin Leaving \union {"held", "ended", "killed"}
  /\ files <= MaxEdits
  /\ files' = files + 1
  /\ IF at \in Looping THEN event' = TRUE /\ noticed' = files' ELSE UNCHANGED <<event, noticed>>
  /\ UNCHANGED <<opts, at, result, cancelled, tasks, hand, remote, disk, servers>>

-----------------------------------------------------------------------------
Starts ==
  \/ Prepare \/ PrepareFails \/ RunMkcert \/ MkcertDone \/ MkcertFails \/ StartTls \/ TlsFails
  \/ StartPreview \/ Tunnelling \/ TunnelStarted \/ TunnelFails \/ MakeManifest \/ StopFailed
  \/ Upload \/ CreateSession \/ CreateFails \/ Initialize \/ InitializeFails \/ RecordState
  \/ RecordManifest \/ AbortPersist \/ StartLocal \/ Announce \/ AnnounceFails \/ Watch \/ WatchFails

Selects ==
  \/ DashboardClosed \/ DashboardFailed \/ LocalArm \/ GraphiqlArm \/ ThemeArm
  \/ ChangeArm \/ Reload \/ UpdateSession \/ UpdateFails \/ Notify \/ ChangeFails

Ends == Quitted \/ CloseServers \/ ServersClosed \/ DeleteSession \/ StopLast \/ End

Tasks ==
  \/ SignalShutdown \/ LocalShutsDown \/ LocalStopped
  \/ \E how \in {"cancelled", "error"} : GraphiqlStops(how)
  \/ DashboardEnds \/ ProxyTask

Environment ==
  \/ CtrlC \/ RequestHangs \/ KilledByCtrlC \/ DashboardQuit \/ LocalExits \/ Browse \/ Edit
  \/ \E c \in Processes : ProcessExits(c)
  \/ \E c \in Clients : GraphiqlAccepts(c) \/ GraphiqlAnswers(c)

Next == Starts \/ Selects \/ Ends \/ Tasks \/ Environment

Spec == Init /\ [][Next]_vars

(* The task and the tasks beside it run unless a request holds the task,   *)
(* mkcert and a process that was asked to stop leave.  A browser need      *)
(* never close its connection.                                             *)
Fairness ==
  /\ WF_vars(Starts \/ Selects \/ Ends)
  /\ WF_vars(SignalShutdown)
  /\ WF_vars(LocalShutsDown \/ LocalStopped)
  /\ WF_vars(GraphiqlStops("cancelled"))
  /\ WF_vars(ProxyTask)
  /\ \A c \in Processes : WF_vars((c \in asked \/ c = "mkcert") /\ ProcessExits(c))

FairSpec == Spec /\ Fairness

-----------------------------------------------------------------------------
(* Properties.                                                             *)

(* When app_dev has returned, on whatever path, a process it started and   *)
(* that still runs has been asked to stop, the TLS proxy is closed with    *)
(* its connections, and GraphiQL takes no connection any more (those it    *)
(* has taken are answered until the program exits); and if the deletion of *)
(* the development session was answered and app_dev succeeded, no session  *)
(* of the app is left in the store.                                        *)
CleanEnd ==
  at = "ended" =>
    /\ Active \subseteq asked
    /\ proxy \notin {"running", "stopping"} /\ connections = {}
    /\ graphiql \notin {"bound", "serving"}
    /\ result = "ok" => remote.session = "none"

(* Whenever the loop is idle, the store, the two files of .catify/dev and  *)
(* the archive agree on what is previewed, however many changes have come  *)
(* through; and the sources are never older than their manifest.           *)
InStep ==
  at \in {"select", "reload", "refresh"} =>
    /\ remote.session = "ours"
    /\ disk = [manifest |-> remote.manifest, source |-> remote.source]
    /\ remote.source = bundle /\ remote.manifest <= remote.source

(* How they come to agree, one step after the other.                       *)
Progress ==
  /\ manifest <= files
  /\ at \in {"create", "update"} => manifest <= bundle
  /\ at \in {"initialize", "state", "record", "session", "announce", "watch", "save", "persist",
            "notify"} =>
       /\ remote.session = "ours" /\ remote.source = bundle
       /\ manifest <= bundle
  /\ at \in {"state", "record", "session", "announce", "watch", "save", "persist", "notify"} =>
       remote.manifest = manifest
  /\ at \in {"record", "session", "announce", "watch", "persist", "notify"} => disk.source = bundle
  /\ at \in {"session", "announce", "watch", "notify"} => disk.manifest = manifest
  /\ at = "update" => remote.session = "ours"

(* What is open where: the servers are closed before the last steps, only  *)
(* a deletion that has been confirmed leaves success as it is, and Ctrl-C  *)
(* is listened to before anything is served.                               *)
Open ==
  /\ proxy = "stopping" => at = "closing"
  /\ graphiql = "bound" => at # "ended"
  /\ graphiql = "serving" => at \in Looping \union {"shutting", "quitting", "joining", "held"}
  /\ result = "ok" => at \in Leaving \union {"held", "ended"}
  /\ signal = "none" => at \notin {"session", "announce", "watch"} \union Looping
                       /\ graphiql # "serving" /\ result # "ok"
  /\ at \in {"stop", "ended"} /\ result = "ok" => remote.session = "none"

(* The invariant of app dev's state.                                       *)
AppDevInv == AppDevTypeOK /\ InStep /\ Progress /\ Open

(* Whenever the store is behind the edits that the watcher has seen, it    *)
(* comes to have them all, or the command is on its way out, or held by a  *)
(* request that nobody answers.                                            *)
EditsArrive ==
  noticed > remote.manifest ~>
    (remote.session = "ours" /\ remote.manifest >= noticed) \/ at \notin Looping

(* Once cancelled, by Ctrl-C or from the dashboard, app dev returns,       *)
(* whatever it was doing: debouncing, or waiting for a server, a browser   *)
(* or a process; a request that nobody answers is all that can hold it.    *)
CancelEndsAppDev == cancelled ~> at \in {"ended", "held"}
=============================================================================
