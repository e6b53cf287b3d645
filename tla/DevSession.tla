----------------------------- MODULE DevSession -----------------------------
(***************************************************************************)
(* DevSession of crates/cfy-dev: the components of `cfy app dev`, started, *)
(* waited for, restarted and shut down by one task, and the signal task of *)
(* crates/cfy-cli/src/commands/app.rs, which cancels them.  A child is     *)
(* what ChildLifecycle promises of it: it leaves when it likes, or, asked  *)
(* to stop, some time later.                                               *)
(***************************************************************************)
EXTENDS Naturals

CONSTANTS
  Components,    \* the names of the components
  MaxRestarts,   \* per component: its restart budget
  RestartFailed  \* DevOptions::restart_failed

ASSUME DevAssumption ==
  /\ Components # {}
  /\ MaxRestarts \in [Components -> Nat]
  /\ RestartFailed \in BOOLEAN

VARIABLES
  state,      \* per component: ComponentSnapshot::state
  restarts,   \* per component: ComponentSnapshot::restart_count
  held,       \* the components whose process is in the session's map
  child,      \* per component: its process, or how it left
  asked,      \* the components whose process was asked to stop
  at,         \* where the session's task is
  cur,        \* the component the task awaits or restarts
  outcome,    \* the result the task returns, or is about to
  cancelled,  \* the Cancellation flag
  signal,     \* the signal task
  late        \* the components whose process left after the cancellation

childVars == <<child, asked, late>>
vars == <<state, restarts, held, childVars, at, cur, outcome, cancelled, signal>>

Left == {"success", "failure", "stopped", "error"}

TypeOK ==
  /\ state \in [Components -> {"Pending", "Starting", "Running", "Restarting", "Failed", "Stopped"}]
  /\ restarts \in [Components -> Nat]
  /\ \A c \in Components : restarts[c] <= MaxRestarts[c]
  /\ held \in SUBSET Components
  /\ child \in [Components -> {"none", "running"} \union Left]
  /\ asked \in SUBSET Components
  /\ at \in {"start", "wait", "await", "backoff", "failed", "shutdown", "ended"}
  /\ cur \in Components
  /\ outcome \in {"none", "ok", "cancelled", "failed", "process"}
  /\ cancelled \in BOOLEAN
  /\ signal \in {"listening", "cancelled", "done"}
  /\ late \in SUBSET Components

Init ==
  /\ state = [c \in Components |-> "Pending"]
  /\ restarts = [c \in Components |-> 0]
  /\ held = {}
  /\ child = [c \in Components |-> "none"]
  /\ asked = {}
  /\ at = "start"
  /\ cur \in Components
  /\ outcome = "none"
  /\ cancelled = FALSE
  /\ signal = "listening"
  /\ late = {}

Running == {c \in Components : child[c] = "running"}

(* The supervisor starts the process, and the session holds its handle.    *)
Run(c) ==
  /\ child' = [child EXCEPT ![c] = "running"]
  /\ asked' = asked \ {c}
  /\ held' = held \union {c}
  /\ state' = [state EXCEPT ![c] = "Running"]

(* The task returns the error of the supervisor; the session is dropped    *)
(* with it, and every handle it holds asks its process to stop.            *)
Abort ==
  /\ at' = "ended"
  /\ outcome' = "process"
  /\ asked' = asked \union (held \intersect Running)
  /\ held' = {}

(* Mutant: only the processes in the map are asked to stop, when their     *)
(* handles are dropped, and they are not waited for.                       *)
BeginShutdownByDrop(verdict) ==
  /\ at' = "ended"
  /\ outcome' = verdict
  /\ state' = [c \in Components |-> "Stopped"]
  /\ held' = {}
  /\ asked' = asked \union (held \intersect Running)

(* DevSession::shutdown, up to where Supervisor::shutdown waits: it has    *)
(* asked every process that runs.                                          *)
BeginShutdown(verdict) ==
  /\ at' = "shutdown"
  /\ outcome' = verdict
  /\ state' = [c \in Components |-> "Stopped"]
  /\ held' = {}
  /\ asked' = asked \union Running

-----------------------------------------------------------------------------
(* DevSession::start: any order of the components.                         *)

Unstarted == {c \in Components : child[c] = "none"}

Start(c) ==
  /\ at = "start"
  /\ ~cancelled
  /\ c \in Unstarted
  /\ Run(c)
  /\ UNCHANGED <<restarts, at, cur, outcome, cancelled, signal, late>>

StartFails(c) ==
  /\ at = "start"
  /\ ~cancelled
  /\ c \in Unstarted
  /\ state' = [state EXCEPT ![c] = "Starting"]
  /\ Abort
  /\ UNCHANGED <<restarts, child, cur, cancelled, signal, late>>

StartCancelled ==
  /\ at = "start"
  /\ cancelled
  /\ Unstarted # {}
  /\ BeginShutdown("cancelled")
  /\ UNCHANGED <<restarts, child, cur, cancelled, signal, late>>

Started ==
  /\ at = "start"
  /\ Unstarted = {}
  /\ at' = "wait"
  /\ UNCHANGED <<state, restarts, held, childVars, cur, outcome, cancelled, signal>>

-----------------------------------------------------------------------------
(* DevSession::wait.                                                       *)

WaitCancelled ==
  /\ at = "wait"
  /\ cancelled
  /\ BeginShutdown("cancelled")
  /\ UNCHANGED <<restarts, child, cur, cancelled, signal, late>>

AllExited ==
  /\ at = "wait"
  /\ ~cancelled
  /\ held = {}
  /\ at' = "ended"
  /\ outcome' = "ok"
  /\ UNCHANGED <<state, restarts, held, childVars, cur, cancelled, signal>>

(* Any one component leaves the map, and its process alone is awaited.     *)
Take(c) ==
  /\ at = "wait"
  /\ ~cancelled
  /\ c \in held
  /\ held' = held \ {c}
  /\ cur' = c
  /\ at' = "await"
  /\ UNCHANGED <<state, restarts, childVars, outcome, cancelled, signal>>

WaitFails ==
  /\ at = "await"
  /\ child[cur] = "error"
  /\ Abort
  /\ UNCHANGED <<state, restarts, child, cur, cancelled, signal, late>>

(* Mutant: the flag is not looked at after the wait.                       *)
LeftUnlessStopped(how) ==
  /\ at = "await"
  /\ child[cur] = how

(* The process has left and nobody has cancelled.                          *)
LeftByItself(how) ==
  /\ at = "await"
  /\ child[cur] = how
  /\ ~cancelled

StoppedByCancel ==
  /\ at = "await"
  /\ \/ child[cur] = "stopped"
     \/ cancelled /\ child[cur] \in {"success", "failure"}
  /\ BeginShutdown("cancelled")
  /\ UNCHANGED <<restarts, child, cur, cancelled, signal, late>>

Finished ==
  /\ LeftByItself("success")
  /\ state' = [state EXCEPT ![cur] = "Stopped"]
  /\ at' = "wait"
  /\ UNCHANGED <<restarts, held, childVars, cur, outcome, cancelled, signal>>

(* Mutant: a failure ends the session at once.                             *)
SpentAtOnce(c) == TRUE

Spent(c) == ~RestartFailed \/ restarts[c] >= MaxRestarts[c]

Restart ==
  /\ LeftByItself("failure")
  /\ ~Spent(cur)
  /\ restarts' = [restarts EXCEPT ![cur] = @ + 1]
  /\ state' = [state EXCEPT ![cur] = "Restarting"]
  /\ at' = "backoff"
  /\ UNCHANGED <<held, childVars, cur, outcome, cancelled, signal>>

(* The backoff is slept through, cancelled or not.                         *)
Respawn ==
  /\ at = "backoff"
  /\ Run(cur)
  /\ at' = "wait"
  /\ UNCHANGED <<restarts, cur, outcome, cancelled, signal, late>>

RespawnFails ==
  /\ at = "backoff"
  /\ Abort
  /\ UNCHANGED <<state, restarts, child, cur, cancelled, signal, late>>

(* The state and the Failure event are sent, then shutdown is called.      *)
GiveUp ==
  /\ LeftByItself("failure")
  /\ Spent(cur)
  /\ state' = [state EXCEPT ![cur] = "Failed"]
  /\ at' = "failed"
  /\ UNCHANGED <<restarts, held, childVars, cur, outcome, cancelled, signal>>

StopSiblings ==
  /\ at = "failed"
  /\ BeginShutdown("failed")
  /\ UNCHANGED <<restarts, child, cur, cancelled, signal, late>>

-----------------------------------------------------------------------------
(* The rest of DevSession::shutdown: no process is active, or time is up.  *)

ShutdownDone ==
  /\ at = "shutdown"
  /\ Running = {}
  /\ at' = "ended"
  /\ UNCHANGED <<state, restarts, held, childVars, cur, outcome, cancelled, signal>>

ShutdownTimesOut ==
  /\ at = "shutdown"
  /\ Running # {}
  /\ at' = "ended"
  /\ outcome' = "process"
  /\ UNCHANGED <<state, restarts, held, childVars, cur, cancelled, signal>>

-----------------------------------------------------------------------------
(* The signal task: Ctrl-C sets the flag, then every process is asked.     *)

Cancel ==
  /\ signal = "listening"
  /\ signal' = "cancelled"
  /\ cancelled' = TRUE
  /\ UNCHANGED <<state, restarts, held, childVars, at, cur, outcome>>

(* Mutant: the flag alone is set.                                          *)
SignalOnlyFlag ==
  /\ signal = "cancelled"
  /\ signal' = "done"
  /\ UNCHANGED <<state, restarts, held, childVars, at, cur, outcome, cancelled>>

SignalShutdown ==
  /\ signal = "cancelled"
  /\ signal' = "done"
  /\ asked' = asked \union Running
  /\ UNCHANGED <<state, restarts, held, child, late, at, cur, outcome, cancelled>>

(* A process leaves; only one that was asked is reported as cancelled.     *)
Leave(c) ==
  /\ c \in Running
  /\ \E how \in Left :
        /\ how = "stopped" => c \in asked
        /\ child' = [child EXCEPT ![c] = how]
  /\ late' = IF cancelled THEN late \union {c} ELSE late \ {c}
  /\ UNCHANGED <<state, restarts, held, asked, at, cur, outcome, cancelled, signal>>

-----------------------------------------------------------------------------
Session ==
  \/ StartCancelled \/ Started \/ WaitCancelled \/ AllExited
  \/ \E c \in Components : Start(c) \/ Take(c)
  \/ StoppedByCancel \/ Finished \/ Restart \/ Respawn \/ GiveUp \/ StopSiblings
  \/ ShutdownDone

Failing ==
  \/ \E c \in Components : StartFails(c)
  \/ WaitFails \/ RespawnFails \/ ShutdownTimesOut

Next ==
  \/ Session
  \/ Failing
  \/ Cancel
  \/ SignalShutdown
  \/ \E c \in Components : Leave(c)

Spec == Init /\ [][Next]_vars

(* The session's task and the signal task run, a sleep ends, and a process *)
(* that was asked to stop leaves: ProcessSupervisor's RequestedChildLeaves. *)
(* Nobody has to cancel, and no process has to leave by itself.            *)
Fairness ==
  /\ WF_vars(Session \/ WaitFails)
  /\ WF_vars(SignalShutdown)
  /\ \A c \in Components : WF_vars(c \in asked /\ Leave(c))

FairSpec == Spec /\ Fairness

-----------------------------------------------------------------------------
(* Properties.                                                             *)

(* When the session has ended, no process of it runs, whichever way it     *)
(* ended; after an error of the supervisor a process may still run, but it *)
(* has been asked to stop.  A process spawned after the signal task had    *)
(* asked the others, at the end of a backoff, is no exception.             *)
NothingLeftBehind ==
  at = "ended" => \A c \in Running : c \in asked /\ outcome = "process"

(* A process that leaves after Ctrl-C is neither restarted nor reported as *)
(* failed, whatever its exit code.                                         *)
NoVerdictOnCancelled ==
  [][\A c \in late :
        /\ restarts'[c] = restarts[c]
        /\ state'[c] = "Failed" => state[c] = "Failed"]_vars

(* The session fails only over a component that has used all its restarts; *)
(* and it ends well only when every process has exited with success.       *)
OutcomeIsEarned ==
  /\ outcome = "failed" =>
       /\ child[cur] = "failure"
       /\ RestartFailed => restarts[cur] = MaxRestarts[cur]
  /\ outcome = "ok" => \A c \in Components : child[c] = "success"

(* Ctrl-C ends the session, wherever its task is: awaiting a process that  *)
(* would never exit, sleeping before a restart, or still starting.         *)
CancelEndsSession == cancelled ~> at = "ended"

(* The inductive invariant: what the map holds has been started, what runs *)
(* is held, awaited or asked to stop, and nobody is asked before a cancel, *)
(* a shutdown or an error.                                                 *)
HeldOrAsked ==
  /\ \A c \in Running : c \in held \/ c \in asked \/ (at = "await" /\ c = cur)
  /\ \A c \in held : child[c] # "none"

CancelSeen ==
  /\ signal = "listening" <=> ~cancelled
  /\ late # {} => cancelled

Progress ==
  /\ at \in {"start", "wait"} =>
       \A c \in Components : c \in held \/ child[c] \in {"none", "success"}
  /\ at \in {"await", "backoff", "failed"} =>
       /\ cur \notin held
       /\ \A c \in Components : c \in held \/ c = cur \/ child[c] = "success"
  /\ at \in {"wait", "await", "backoff", "failed"} => Unstarted = {}
  /\ at \in {"backoff", "failed"} => child[cur] = "failure"
  /\ at = "failed" => Spent(cur)
  /\ at = "shutdown" => Running \subseteq asked
  /\ at \notin {"shutdown", "ended"} => outcome = "none"

DInv ==
  TypeOK /\ HeldOrAsked /\ CancelSeen /\ Progress /\ NothingLeftBehind /\ OutcomeIsEarned
=============================================================================
