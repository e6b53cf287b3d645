------------------------------ MODULE Commands ------------------------------
(***************************************************************************)
(* The dispatch of the CLI (run of crates/cfy-cli/src/lib.rs): one of its  *)
(* commands, from any options and any state of the files and services it   *)
(* deals with, to its exit; any step may fail, and Ctrl-C may end it       *)
(* anywhere.                                                               *)
(***************************************************************************)
EXTENDS Deploy, Scaffold, Hydrogen, Tools, Stores

(* app build is BuildPipeline, build after build.                          *)
VARIABLES world, config, output, cache, tmp, fd, pc, mode, graph, known, pending, prints, job, builds,
          report

CONSTANTS Builders, Extensions, MaxVersion, MaxBuilds, Worlds

buildVars ==
  <<world, config, output, cache, tmp, fd, pc, mode, graph, known, pending, prints, job, builds, report>>

Build == INSTANCE BuildPipeline WITH todo <- pending

ASSUME PipelineAssumption ==
  /\ MaxVersion \in Nat /\ MaxBuilds \in Nat
  /\ Worlds \subseteq SUBSET Build!Mishaps

(* A browser's request has a name of its own among what is sent and learnt.*)
ASSUME ConnectionsAssumption ==
  Connections \intersect
    {"stage", "upload", "run", "cancel", "execute", "trigger", "deliver", "subscribe", "create-app",
     "create", "refresh", "exchange-code", "create-store", "delete-store", "create-storefront",
     "execute-document", "lock", "client", "checked", "made", "plan", "shown", "cursor",
     "seen", "granted"} = {}

(* A configuration is a shopify.app*.toml, and no other file there is.      *)
ASSUME FilesAssumption ==
  (Configs \union {Flagged}) \intersect
    {"cache", "extracted", "dependency", "staging", "temporary", "document", "builds", "archive",
     "executable", "version-file", "update-cache", "stylesheet"} = {}

vars == <<commandVars, deployVars, plannedVars, buildVars>>

Begins ==
  AdminBegins \/ ConfigurationBegins \/ ScaffoldBegins \/ HydrogenBegins \/ ToolsBegin \/ StoreBegins

Init ==
  /\ result = "none"
  /\ Build!Init
  /\ \/ DeployInit /\ Unplanned /\ world = {}
     \/ DeployIdle /\ at = "plan" /\ Begins /\ world = {}
     \/ DeployIdle /\ Unplanned /\ command = "build" /\ at = "building" /\ world # {}

Steps ==
  AdminSteps \/ ConfigurationSteps \/ ScaffoldSteps \/ HydrogenSteps \/ ToolsSteps \/ StoreSteps

World ==
  AdminWorld \/ Edit \/ SomebodyMakes \/ HydrogenWorld \/ ToolsWorld \/ StoreWorld

(* Steps whose failure the handler answers itself, and those that listen   *)
(* for Ctrl-C.                                                             *)
Handled == IF command = "app-init" THEN Undone \union {"unstage"} ELSE {"keep-entry"}
Listening == {"stream", "serve"}

Next ==
  \/ DeployNext /\ UNCHANGED <<plannedVars, buildVars>>
  \/ /\ Steps \/ World \/ StepFails(Handled) \/ Killed(Listening)
     /\ UNCHANGED <<deployVars, buildVars>>
  \/ /\ command = "build"
     /\ Build!Next
     /\ UNCHANGED <<commandVars, deployVars, plannedVars>>

Spec == Init /\ [][Next]_vars

-----------------------------------------------------------------------------
(* BuildPipeline's: a build that reports success has what it was asked     *)
(* for, and leaves a cache that the next one can read.                     *)
ReportIsTrue == Build!ReportIsTrue
CacheIsReadable == Build!CacheIsReadable /\ Build!TypeOK /\ Build!Written

(* What a file of the user's may be: what it was, what the user has made   *)
(* of it meanwhile ("broken"), what the command has added to it, or, where *)
(* the command could not read it, and for the settings, what the command   *)
(* knows of it ("rebuilt").  Two more are true of the code: fs::write may  *)
(* leave a file cut short, and the upgrade to Vite renames a file over     *)
(* another of the user's.                                                  *)
Preserved == {"user", "broken", "merged", "rebuilt"}
WrittenInPlace == {"zsh", ".gitignore"}
Renames == {<<"remix-env", "env">>, <<".eslintrc.js", ".eslintrc.cjs">>}
MayBe(p) ==
  Preserved
    \union (IF p \in WrittenInPlace THEN {"cut"} ELSE {})
    \union (IF \E r \in Renames : p = r[2] THEN {"renamed"} ELSE {})
Renamed(p) ==
  /\ command = "hydrogen-setup-vite"
  /\ \E r \in Renames : p = r[1] /\ Content(r[2]) = "renamed"

(* A file of the user's is never lost: it is there afterwards, as it was,  *)
(* with the change the command is for, or under its new name, unless an    *)
(* option or an answer lets the command replace it.  The exceptions are a  *)
(* file that fs::write was stopped in, and one whose name another of the   *)
(* user's takes (MayBe); a module that a Hydrogen route imports            *)
(* ("dependency") is written over unasked, and is no user's file here.     *)
UserFilesKept ==
  \A p \in DOMAIN found : found[p] = "user" =>
    \/ p \in agreed
    \/ p \in DOMAIN files /\ files[p] \in MayBe(p)
    \/ Renamed(p)

(* However an answer is lost, and wherever the command fails or is         *)
(* stopped, it asks for a change once: no second app, storefront, bulk     *)
(* operation, upload or token.  The exception is store execute, whose      *)
(* document is sent as a query (ExecutedOnce).                             *)
MutatesOnce ==
  command # "store-execute" => \A i, j \in DOMAIN sent : sent[i] = sent[j] => i = j

-----------------------------------------------------------------------------
(* What a command says when it ends, of what it leaves.                    *)

(* The registry names no plugin whose files are gone, but where another    *)
(* process has changed the installation of that plugin meanwhile, or has   *)
(* brought its record back; and the executable is at any time the old or   *)
(* the new one.                                                            *)
ToolsEnd ==
  /\ "records" \in DOMAIN server => \A p \in Plugins : Recorded(p) => p \in server.artifacts \union server.raced
  /\ Content("executable") \in {"none", "old", "released"}
  /\ result = "ok" /\ command = "theme-package" => Content("archive") = "complete"

(* app init leaves nothing of its own behind when it says it has failed.   *)
InitEnd ==
  command = "app-init" =>
    /\ result = "error" => Content("staging") = "none" /\ Content("directory") \in {"none", "user", "empty"}
    /\ result = "ok" => Content("staging") = "none" /\ Content("directory") = "linked"

(* A configuration is valid if nothing is wrong with any part of the       *)
(* project, and results are written of an operation that has completed.    *)
ReportEnd ==
  /\ command = "config-validate" /\ result = "ok" => server.flaws = {}
  /\ command \in {"bulk-execute", "store-bulk-execute"} /\ Content("results") = "results" =>
       server.operation = "completed"
  /\ command = "bulk-execute" /\ result = "ok" /\ "watch" \in given => server.operation \in Ended

(* A command's exit is true of what it leaves behind.                      *)
EndIsTrue == ToolsEnd /\ InitEnd /\ ReportEnd /\ StoreEnd
=============================================================================
