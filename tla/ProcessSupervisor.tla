------------------------- MODULE ProcessSupervisor -------------------------
(***************************************************************************)
(* The process supervisor of crates/cfy-process: a registry of running     *)
(* children, one supervising task per child, the handle its caller holds,  *)
(* and shutdown(), which any number of callers may run at once.            *)
(*                                                                         *)
(* The registry lock, the watch channel that carries a request and the     *)
(* notification that a child has left are shared by tasks which the Tokio  *)
(* runtime runs in parallel; each action is one step of one of them        *)
(* between two points at which another may run.  The operating system's    *)
(* process tree is part of the model: a direct child and the descendants   *)
(* that share its process group, or have left it with its output pipes.    *)
(***************************************************************************)
EXTENDS Naturals, FiniteSets

CONSTANTS
  Procs,      \* the children that may be spawned
  Shutters,   \* the callers of Supervisor::shutdown
  Inherits,   \* the children spawned with OutputMode::Inherit (no pipes)
  Forking,    \* the children that may start a descendant
  Forwarded   \* the children whose caller may wait with signal forwarding

ASSUME ChildrenAssumption ==
  Inherits \subseteq Procs /\ Forking \subseteq Procs /\ Forwarded \subseteq Procs

VARIABLES
  phase,      \* per child: where its supervising task is
  registry,   \* the children in SupervisorInner::children
  request,    \* per child: the value of its watch channel
  cancelled,  \* per child: supervise_child's local of that name
  result,     \* per child: what supervise_child returned
  handle,     \* per child: what became of its RunningProcess
  direct,     \* per child: the direct child process
  group,      \* per child: the descendants of the direct child
  signalled,  \* per child: the signal its process group was sent, if any
  killed,     \* per child: its process group was sent SIGKILL
  live,       \* some clone of the Supervisor still exists
  shut,       \* per shutdown caller: where it is
  unsent,     \* per shutdown caller: senders cloned and not yet used
  targets,    \* per shutdown caller: every child it found in the registry
  notified    \* per shutdown caller: its Notified future has fired

childVars == <<phase, request, cancelled, result, handle>>
treeVars  == <<direct, group, signalled, killed>>
shutVars  == <<shut, unsent, targets, notified>>
vars == <<registry, live, childVars, treeVars, shutVars>>

-----------------------------------------------------------------------------
(* The task of a child watches it and its channel; a request moves it to   *)
(* the grace period, and to killing when that is over.  The status known,  *)
(* it drops the process tree, joins the pipe readers, returns, leaves the  *)
(* registry and sends the result.                                          *)
Watching   == {"watching", "grace", "killing", "deaf"}
Supervised == Watching \union {"reaped", "draining", "returned"}
Departed   == {"removed", "done"}
Phase      == {"unborn", "spawned", "failed"} \union Supervised \union Departed

Signal  == {"interrupt", "terminate"}
Request == Signal \union {"none"}
Outcome == {"none", "exited", "cancelled", "error"}
Handle  == {"none", "held", "forwarding", "waiting", "finished", "dropped", "abandoned"}
(* Mutant: a Notified future counts only once it is polled.                *)
ArmedWhenPolled == {"asleep"}

(* A shutdown that would be woken by notify_waiters.                       *)
Armed == {"armed", "unready", "asleep"}
Stopped == {"ok", "timedout"}

TypeOK ==
  /\ phase \in [Procs -> Phase]
  /\ registry \in SUBSET Procs
  /\ request \in [Procs -> Request]
  /\ cancelled \in [Procs -> BOOLEAN]
  /\ result \in [Procs -> Outcome]
  /\ handle \in [Procs -> Handle]
  /\ direct \in [Procs -> {"none", "running", "exited"}]
  /\ group \in [Procs -> {"none", "alive", "escaped"}]
  /\ signalled \in [Procs -> Request]
  /\ killed \in [Procs -> BOOLEAN]
  /\ live \in BOOLEAN
  /\ shut \in [Shutters -> {"idle", "sending", "arming"} \union Armed \union Stopped]
  /\ unsent \in [Shutters -> SUBSET Procs]
  /\ targets \in [Shutters -> SUBSET Procs]
  /\ notified \in [Shutters -> BOOLEAN]
  /\ \A p \in Procs : phase[p] \in {"unborn", "spawned", "failed"} => handle[p] = "none"

Init ==
  /\ phase = [p \in Procs |-> "unborn"]
  /\ registry = {}
  /\ request = [p \in Procs |-> "none"]
  /\ cancelled = [p \in Procs |-> FALSE]
  /\ result = [p \in Procs |-> "none"]
  /\ handle = [p \in Procs |-> "none"]
  /\ direct = [p \in Procs |-> "none"]
  /\ group = [p \in Procs |-> "none"]
  /\ signalled = [p \in Procs |-> "none"]
  /\ killed = [p \in Procs |-> FALSE]
  /\ live = TRUE
  /\ shut = [s \in Shutters |-> "idle"]
  /\ unsent = [s \in Shutters |-> {}]
  /\ targets = [s \in Shutters |-> {}]
  /\ notified = [s \in Shutters |-> FALSE]

-----------------------------------------------------------------------------
(* Supervisor::spawn.                                                      *)

(* The operating system starts the process; it is attached to its tree.    *)
SpawnProcess(p) ==
  /\ live
  /\ phase[p] = "unborn"
  /\ phase' = [phase EXCEPT ![p] = "spawned"]
  /\ direct' = [direct EXCEPT ![p] = "running"]
  /\ UNCHANGED <<registry, live, request, cancelled, result, handle,
                 group, signalled, killed, shutVars>>

(* The program could not be started: spawn returns the error.              *)
SpawnFails(p) ==
  /\ live
  /\ phase[p] = "unborn"
  /\ phase' = [phase EXCEPT ![p] = "failed"]
  /\ UNCHANGED <<registry, live, request, cancelled, result, handle,
                 treeVars, shutVars>>

(* ProcessTree::attach failed: start_kill reaches the direct child alone,  *)
(* and the process never enters the registry.                              *)
AttachFails(p) ==
  /\ phase[p] = "spawned"
  /\ phase' = [phase EXCEPT ![p] = "failed"]
  /\ direct' = [direct EXCEPT ![p] = "exited"]
  /\ UNCHANGED <<registry, live, request, cancelled, result, handle,
                 group, signalled, killed, shutVars>>

(* The sender enters the registry, the task starts, the caller gets its    *)
(* handle.                                                                 *)
Register(p) ==
  /\ phase[p] = "spawned"
  /\ registry' = registry \union {p}
  /\ phase' = [phase EXCEPT ![p] = "watching"]
  /\ handle' = [handle EXCEPT ![p] = "held"]
  /\ UNCHANGED <<live, request, cancelled, result, treeVars, shutVars>>

-----------------------------------------------------------------------------
(* The handle.                                                             *)

(* watch::Sender::send fails, and changes nothing, once supervise_child    *)
(* has returned and with it the only receiver.                             *)
Listening(p) == phase[p] \in Supervised \ {"returned"}

Send(p, signal) ==
  request' = IF Listening(p) THEN [request EXCEPT ![p] = signal] ELSE request

(* RunningProcess::cancel.                                                 *)
Cancel(p) ==
  /\ handle[p] = "held"
  /\ Send(p, "terminate")
  /\ UNCHANGED <<registry, live, phase, cancelled, result, handle,
                 treeVars, shutVars>>

(* wait: the handle moves into the future and its completion is taken.     *)
Wait(p) ==
  /\ handle[p] = "held"
  /\ handle' = [handle EXCEPT ![p] = "waiting"]
  /\ UNCHANGED <<registry, live, phase, request, cancelled, result,
                 treeVars, shutVars>>

(* wait_with_signal_forwarding: completion and Ctrl-C are both awaited.    *)
WaitForwarding(p) ==
  /\ p \in Forwarded
  /\ handle[p] = "held"
  /\ handle' = [handle EXCEPT ![p] = "forwarding"]
  /\ UNCHANGED <<registry, live, phase, request, cancelled, result,
                 treeVars, shutVars>>

(* Ctrl-C while forwarding: the interrupt is requested, then awaited.      *)
ForwardInterrupt(p) ==
  /\ handle[p] = "forwarding"
  /\ Send(p, "interrupt")
  /\ handle' = [handle EXCEPT ![p] = "waiting"]
  /\ UNCHANGED <<registry, live, phase, cancelled, result, treeVars, shutVars>>

(* The result reaches the caller.                                          *)
Receive(p) ==
  /\ handle[p] \in {"waiting", "forwarding"}
  /\ phase[p] = "done"
  /\ handle' = [handle EXCEPT ![p] = "finished"]
  /\ UNCHANGED <<registry, live, phase, request, cancelled, result,
                 treeVars, shutVars>>

(* Mutant: drop forgets to send.                                           *)
DropHandleSilently(p) ==
  /\ handle[p] \in {"held", "forwarding"}
  /\ handle' = [handle EXCEPT ![p] = "dropped"]
  /\ UNCHANGED <<registry, live, phase, request, cancelled, result,
                 treeVars, shutVars>>

(* Drop, while the completion is still in the handle: the handle itself,   *)
(* or the future of wait_with_signal_forwarding before a Ctrl-C.           *)
DropHandle(p) ==
  /\ handle[p] \in {"held", "forwarding"}
  /\ Send(p, "terminate")
  /\ handle' = [handle EXCEPT ![p] = "dropped"]
  /\ UNCHANGED <<registry, live, phase, cancelled, result, treeVars, shutVars>>

(* Drop of a future that has taken the completion: nothing is sent.        *)
AbandonWait(p) ==
  /\ handle[p] = "waiting"
  /\ handle' = [handle EXCEPT ![p] = "abandoned"]
  /\ UNCHANGED <<registry, live, phase, request, cancelled, result,
                 treeVars, shutVars>>

-----------------------------------------------------------------------------
(* supervise_child, and the rest of the task spawn starts.                 *)

Advance(p, from, to) ==
  /\ phase[p] = from
  /\ phase' = [phase EXCEPT ![p] = to]

(* Mutant: the request is answered with SIGKILL at once.                   *)
TakeRequestKilling(p) ==
  /\ Advance(p, "watching", "killing")
  /\ request[p] # "none"
  /\ cancelled' = [cancelled EXCEPT ![p] = TRUE]
  /\ killed' = [killed EXCEPT ![p] = TRUE]
  /\ UNCHANGED <<registry, live, request, result, handle,
                 direct, group, signalled, shutVars>>

(* The select sees the request: the value read is the latest one sent.     *)
TakeRequest(p) ==
  /\ Advance(p, "watching", "grace")
  /\ request[p] # "none"
  /\ cancelled' = [cancelled EXCEPT ![p] = TRUE]
  /\ signalled' = [signalled EXCEPT ![p] = request[p]]
  /\ UNCHANGED <<registry, live, request, result, handle,
                 direct, group, killed, shutVars>>

(* Every sender is gone and none ever sent: the request branch of the      *)
(* select can only wait for the child.                                     *)
Senders(p) ==
  \/ p \in registry
  \/ \E s \in Shutters : p \in unsent[s]
  \/ handle[p] \in {"held", "forwarding", "waiting"}

ChannelClosed(p) ==
  /\ Advance(p, "watching", "deaf")
  /\ request[p] = "none"
  /\ ~ Senders(p)
  /\ UNCHANGED <<registry, live, request, cancelled, result, handle,
                 treeVars, shutVars>>

(* Mutant: the signal is repeated where SIGKILL is due.                    *)
GraceExpiresGently(p) ==
  /\ Advance(p, "grace", "killing")
  /\ UNCHANGED <<registry, live, request, cancelled, result, handle,
                 treeVars, shutVars>>

(* The grace period ends first: SIGKILL to the process group.              *)
GraceExpires(p) ==
  /\ Advance(p, "grace", "killing")
  /\ killed' = [killed EXCEPT ![p] = TRUE]
  /\ UNCHANGED <<registry, live, request, cancelled, result, handle,
                 direct, group, signalled, shutVars>>

(* child.wait returns the status of the direct child.                      *)
Reap(p) ==
  /\ phase[p] \in Watching
  /\ direct[p] = "exited"
  /\ phase' = [phase EXCEPT ![p] = "reaped"]
  /\ UNCHANGED <<registry, live, request, cancelled, result, handle,
                 treeVars, shutVars>>

(* Mutant: dropping the process tree kills nothing.                        *)
DropTreeQuietly(p) ==
  /\ Advance(p, "reaped", "draining")
  /\ UNCHANGED <<registry, live, request, cancelled, result, handle,
                 treeVars, shutVars>>

(* drop(process_tree): SIGKILL to whatever is left of the group.           *)
DropTree(p) ==
  /\ Advance(p, "reaped", "draining")
  /\ killed' = [killed EXCEPT ![p] = TRUE]
  /\ UNCHANGED <<registry, live, request, cancelled, result, handle,
                 direct, group, signalled, shutVars>>

(* Both pipe readers have met the end of their stream, which needs every   *)
(* holder of the pipes to be gone; with inherited output there are none.   *)
JoinOutput(p) ==
  /\ \/ p \in Inherits
     \/ group[p] = "none"
  /\ Advance(p, "draining", "returned")
  /\ result' = [result EXCEPT ![p] = IF cancelled[p] THEN "cancelled" ELSE "exited"]
  /\ UNCHANGED <<registry, live, request, cancelled, handle, treeVars, shutVars>>

(* A reader, or child.wait itself, reports an error: the task returns it   *)
(* at once, and dropping the process tree on the way kills the group.      *)
TaskFails(p) ==
  /\ \/ phase[p] \in Watching
     \/ phase[p] = "draining" /\ p \notin Inherits
  /\ phase' = [phase EXCEPT ![p] = "returned"]
  /\ result' = [result EXCEPT ![p] = "error"]
  /\ killed' = [killed EXCEPT ![p] = TRUE]
  /\ UNCHANGED <<registry, live, request, cancelled, handle,
                 direct, group, signalled, shutVars>>

(* remove_child: leave the registry, then wake every armed shutdown; only  *)
(* leave nothing behind when the supervisor itself is gone.                *)
RemoveChild(p) ==
  /\ Advance(p, "returned", "removed")
  /\ registry' = registry \ {p}
  /\ notified' = IF live
                   THEN [s \in Shutters |-> notified[s] \/ shut[s] \in Armed]
                   ELSE notified
  /\ UNCHANGED <<live, request, cancelled, result, handle, treeVars,
                 shut, unsent, targets>>

(* complete_tx.send: only now can the caller receive the result.           *)
Complete(p) ==
  /\ Advance(p, "removed", "done")
  /\ UNCHANGED <<registry, live, request, cancelled, result, handle,
                 treeVars, shutVars>>

-----------------------------------------------------------------------------
(* Supervisor::shutdown.                                                   *)

(* The senders are cloned under the registry lock.                         *)
Snapshot(s) ==
  /\ live
  /\ shut[s] = "idle"
  /\ shut' = [shut EXCEPT ![s] = "sending"]
  /\ unsent' = [unsent EXCEPT ![s] = registry]
  /\ targets' = [targets EXCEPT ![s] = registry]
  /\ UNCHANGED <<registry, live, childVars, treeVars, notified>>

(* They are used one after another, in the order of a hash map.            *)
SendTerminate(s, p) ==
  /\ shut[s] = "sending"
  /\ p \in unsent[s]
  /\ Send(p, "terminate")
  /\ unsent' = [unsent EXCEPT ![s] = @ \ {p}]
  /\ UNCHANGED <<registry, live, phase, cancelled, result, handle, treeVars,
                 shut, targets, notified>>

(* Mutant: the loop over the senders may end early.                        *)
SentSome(s) ==
  /\ shut[s] = "sending"
  /\ shut' = [shut EXCEPT ![s] = "arming"]
  /\ UNCHANGED <<registry, live, childVars, treeVars, unsent, targets, notified>>

SentAll(s) ==
  /\ shut[s] = "sending"
  /\ unsent[s] = {}
  /\ shut' = [shut EXCEPT ![s] = "arming"]
  /\ UNCHANGED <<registry, live, childVars, treeVars, unsent, targets, notified>>

(* The Notified future is created before the registry is looked at.        *)
Arm(s) ==
  /\ shut[s] = "arming"
  /\ shut' = [shut EXCEPT ![s] = "armed"]
  /\ notified' = [notified EXCEPT ![s] = FALSE]
  /\ UNCHANGED <<registry, live, childVars, treeVars, unsent, targets>>

(* Mutant: only the children that were signalled are waited for.           *)
CheckTargets(s) ==
  /\ shut[s] = "armed"
  /\ shut' = [shut EXCEPT ![s] =
                IF registry \intersect targets[s] = {} THEN "ok" ELSE "unready"]
  /\ UNCHANGED <<registry, live, childVars, treeVars, unsent, targets, notified>>

(* The registry is looked at under its lock.                               *)
CheckRegistry(s) ==
  /\ shut[s] = "armed"
  /\ shut' = [shut EXCEPT ![s] = IF registry = {} THEN "ok" ELSE "unready"]
  /\ UNCHANGED <<registry, live, childVars, treeVars, unsent, targets, notified>>

(* The lock is released; the future made before it is awaited.             *)
Sleep(s) ==
  /\ shut[s] = "unready"
  /\ shut' = [shut EXCEPT ![s] = "asleep"]
  /\ UNCHANGED <<registry, live, childVars, treeVars, unsent, targets, notified>>

(* Mutant: the first child that leaves ends the wait.                      *)
WakeOnce(s) ==
  /\ shut[s] = "asleep"
  /\ notified[s]
  /\ shut' = [shut EXCEPT ![s] = "ok"]
  /\ UNCHANGED <<registry, live, childVars, treeVars, unsent, targets, notified>>

Wake(s) ==
  /\ shut[s] = "asleep"
  /\ notified[s]
  /\ shut' = [shut EXCEPT ![s] = "arming"]
  /\ UNCHANGED <<registry, live, childVars, treeVars, unsent, targets, notified>>

(* Mutant: the deadline starts the next round.                             *)
ShutdownTimeoutRetries(s) ==
  /\ shut[s] = "asleep"
  /\ ~ notified[s]
  /\ shut' = [shut EXCEPT ![s] = "arming"]
  /\ UNCHANGED <<registry, live, childVars, treeVars, unsent, targets, notified>>

(* The deadline, the grace period and five seconds after the requests.     *)
ShutdownTimeout(s) ==
  /\ shut[s] = "asleep"
  /\ ~ notified[s]
  /\ shut' = [shut EXCEPT ![s] = "timedout"]
  /\ UNCHANGED <<registry, live, childVars, treeVars, unsent, targets, notified>>

(* The last clone of the supervisor is dropped, and the registry with it;  *)
(* no call on it is running then.                                          *)
DropSupervisor ==
  /\ live
  /\ \A s \in Shutters : shut[s] \in Stopped \union {"idle"}
  /\ \A p \in Procs : phase[p] # "spawned"
  /\ live' = FALSE
  /\ registry' = {}
  /\ UNCHANGED <<childVars, treeVars, shutVars>>

-----------------------------------------------------------------------------
(* The operating system.                                                   *)

(* The direct child exits, by itself or under the signal it was sent.      *)
Exit(p) ==
  /\ direct[p] = "running"
  /\ direct' = [direct EXCEPT ![p] = "exited"]
  /\ UNCHANGED <<registry, live, childVars, group, signalled, killed, shutVars>>

(* It starts a descendant, which shares its group and its pipes.           *)
Fork(p) ==
  /\ p \in Forking
  /\ direct[p] = "running"
  /\ ~ killed[p]
  /\ group[p] = "none"
  /\ group' = [group EXCEPT ![p] = "alive"]
  /\ UNCHANGED <<registry, live, childVars, direct, signalled, killed, shutVars>>

(* A descendant leaves the group (setsid), and keeps the pipes.            *)
Escape(p) ==
  /\ group[p] = "alive"
  /\ ~ killed[p]
  /\ group' = [group EXCEPT ![p] = "escaped"]
  /\ UNCHANGED <<registry, live, childVars, direct, signalled, killed, shutVars>>

DescendantExits(p) ==
  /\ group[p] # "none"
  /\ group' = [group EXCEPT ![p] = "none"]
  /\ UNCHANGED <<registry, live, childVars, direct, signalled, killed, shutVars>>

-----------------------------------------------------------------------------
SpawnCall(p)  == SpawnProcess(p) \/ SpawnFails(p) \/ AttachFails(p) \/ Register(p)
HandleCall(p) == Cancel(p) \/ Wait(p) \/ WaitForwarding(p) \/ ForwardInterrupt(p)
                   \/ Receive(p) \/ DropHandle(p) \/ AbandonWait(p)
Task(p)       == TakeRequest(p) \/ ChannelClosed(p) \/ GraceExpires(p) \/ Reap(p)
                   \/ DropTree(p) \/ JoinOutput(p) \/ RemoveChild(p) \/ Complete(p)
ShutdownCall(s) == (\E p \in Procs : SendTerminate(s, p)) \/ SentAll(s) \/ Arm(s)
                     \/ CheckRegistry(s) \/ Sleep(s) \/ Wake(s) \/ ShutdownTimeout(s)
System(p)     == Exit(p) \/ Fork(p) \/ Escape(p) \/ DescendantExits(p)

Next ==
  \/ \E p \in Procs : SpawnCall(p) \/ HandleCall(p) \/ Task(p) \/ TaskFails(p) \/ System(p)
  \/ \E s \in Shutters : Snapshot(s) \/ ShutdownCall(s)
  \/ DropSupervisor

Spec == Init /\ [][Next]_vars

(* What the runtime and the kernel owe: a task that can run runs, a timer  *)
(* fires, a spawn under way finishes, a process sent SIGKILL dies.  Nobody *)
(* owes a call on the handle, an exit by itself or the end of a process    *)
(* that has left the group.                                                *)
KillDelivered(p) ==
  \/ killed[p] /\ Exit(p)
  \/ killed[p] /\ group[p] = "alive" /\ DescendantExits(p)

Fairness ==
  /\ \A p \in Procs : /\ WF_vars(AttachFails(p) \/ Register(p))
                      /\ WF_vars(Task(p))
                      /\ WF_vars(KillDelivered(p))
                      /\ WF_vars(Receive(p))
  /\ \A s \in Shutters : WF_vars(ShutdownCall(s))

FairSpec == Spec /\ Fairness

-----------------------------------------------------------------------------
(* Properties.                                                             *)

(* A shutdown that sleeps while the registry is empty has been woken: the  *)
(* child that left last cannot have left unseen between the look at the    *)
(* registry and the sleep (shutdown makes its Notified future first).      *)
NoLostWakeup ==
  \A s \in Shutters : shut[s] = "asleep" /\ registry = {} => notified[s]

(* When a caller has its result, the child is out of the registry, its     *)
(* process group has been sent SIGKILL, and, unless the task failed, the   *)
(* direct child is dead and nobody holds the pipes that were captured.     *)
ResultMeansTreeGone ==
  \A p \in Procs : handle[p] = "finished" =>
     /\ p \notin registry
     /\ killed[p]
     /\ result[p] # "error" => /\ direct[p] = "exited"
                               /\ p \notin Inherits => group[p] = "none"

(* ProcessOutput::cancelled is set if and only if the group was sent a     *)
(* signal, and only a signal somebody requested is ever sent.              *)
CancelledMeansSignalled ==
  \A p \in Procs :
     /\ result[p] = "cancelled" => signalled[p] # "none" /\ request[p] # "none"
     /\ result[p] = "exited" => signalled[p] = "none"

(* A handle that was dropped has requested cleanup: no child is watched on *)
(* behalf of a dropped handle without a request in its channel.            *)
DropRequestsCleanup ==
  \A p \in Procs : handle[p] = "dropped" /\ phase[p] \in Watching => request[p] # "none"

(* Every child shutdown asked to stop has left when it returns Ok.         *)
ShutdownStopsItsTargets ==
  \A s \in Shutters : shut[s] = "ok" => \A p \in targets[s] : phase[p] \in Departed

(* Shutdown never turns to Ok while the supervisor still watches a child,  *)
(* one that was spawned after its requests went out included.              *)
OkOnlyWhenDrained ==
  [][\A s \in Shutters : shut'[s] = "ok" /\ shut[s] # "ok" =>
        \A p \in Procs : phase[p] \notin Supervised]_vars

(* No child is force-killed before it was asked to stop, except by a task  *)
(* that fails: SIGKILL to a running child follows a signal.                *)
KillOnlyAfterSignal ==
  [][\A p \in Procs : direct[p] = "running" /\ killed'[p] /\ ~ killed[p] =>
        signalled[p] # "none" \/ result'[p] = "error"]_vars

(* A child whose stop was requested, by its handle, by dropping the handle *)
(* or by a shutdown, leaves, unless a descendant has escaped with its      *)
(* pipes; it does so even when it ignores the signal.                      *)
RequestedChildLeaves ==
  \A p \in Procs :
     request[p] # "none" ~> phase[p] = "done" \/ group[p] = "escaped"

(* Every child that shutdown found in the registry leaves, whatever its    *)
(* handle does meanwhile.                                                  *)
ShutdownReachesEveryTarget ==
  \A s \in Shutters, p \in Procs :
     p \in targets[s] ~> phase[p] = "done" \/ group[p] = "escaped"

(* Shutdown returns.                                                       *)
ShutdownReturns ==
  \A s \in Shutters : shut[s] = "sending" ~> shut[s] \in Stopped

(* What was asked to stop does stop, and whoever waits for it returns.     *)
StopCompletes == RequestedChildLeaves /\ ShutdownReachesEveryTarget /\ ShutdownReturns

(* The inductive invariant.  The registry holds exactly the supervised     *)
(* children while the supervisor lives, which it does during every spawn.  *)
RegistryExact ==
  /\ registry = IF live THEN {p \in Procs : phase[p] \in Supervised} ELSE {}
  /\ \A p \in Procs : phase[p] = "spawned" => live

(* What a task has done by the time it stands at a phase.                  *)
ChildShape(p) ==
  /\ phase[p] \in {"unborn", "spawned", "failed"} => request[p] = "none"
  /\ result[p] # "none" <=> phase[p] \in Departed \union {"returned"}
  /\ phase[p] \in Departed \union {"draining", "returned"} => killed[p]
  /\ phase[p] \in {"grace", "killing"} => cancelled[p]
  /\ phase[p] \in {"reaped", "draining"} => direct[p] = "exited"
  /\ cancelled[p] <=> signalled[p] # "none"
  /\ signalled[p] # "none" => request[p] # "none"
  /\ result[p] = "cancelled" => cancelled[p]
  /\ result[p] = "exited" => ~ cancelled[p]
  /\ result[p] \in {"exited", "cancelled"} =>
        direct[p] = "exited" /\ (p \notin Inherits => group[p] = "none")
  /\ handle[p] = "finished" => phase[p] = "done"
  /\ handle[p] = "dropped" /\ phase[p] \in Watching => request[p] # "none"

(* What a shutdown knows: its targets were supervised when it began, and a *)
(* registry that emptied since it armed has notified it.                   *)
ShutShape(s) ==
  /\ ~ live => shut[s] \in Stopped \union {"idle"}
  /\ \A p \in targets[s] : phase[p] \in Supervised \union Departed
  /\ shut[s] = "ok" => \A p \in targets[s] : phase[p] \in Departed
  /\ shut[s] \in {"unready", "asleep"} /\ registry = {} => notified[s]

IInv ==
  /\ TypeOK
  /\ RegistryExact
  /\ \A p \in Procs : ChildShape(p)
  /\ \A s \in Shutters : ShutShape(s)

(* The supervisor implements what ChildLifecycle promises.  A child is     *)
(* active from its registration until it has left the registry.            *)
Life(p) == IF phase[p] \in Supervised THEN "active"
           ELSE IF phase[p] \in Departed THEN "gone" ELSE "none"

Lifecycle == INSTANCE ChildLifecycle WITH
  life    <- [p \in Procs |-> Life(p)],
  asked   <- {p \in Procs : request[p] # "none"},
  outcome <- [p \in Procs |-> IF phase[p] \in Departed THEN result[p] ELSE "none"],
  stopped <- {s \in Shutters : shut[s] = "ok"}

(* Seen through that mapping every step is one of a child being started,   *)
(* asked, or leaving with an outcome, of a shutdown succeeding, or nothing. *)
ImplementsLifecycle == Lifecycle!Spec
=============================================================================
