--------------------------- MODULE TunnelSession ---------------------------
(***************************************************************************)
(* TunnelSession of crates/cfy-tunnel: the provider's process is spawned   *)
(* again until it prints its public URL, and stopped with every other      *)
(* process of the supervisor it shares with `cfy app dev`.                 *)
(***************************************************************************)
EXTENDS Naturals

CONSTANTS
  Processes,      \* the processes of the supervisor; "tunnel" is the provider
  MaxReconnects   \* TunnelConfig::max_reconnects

ASSUME TunnelAssumption == "tunnel" \in Processes /\ MaxReconnects \in Nat

VARIABLES
  tunnel,     \* the state last emitted
  attempt,    \* start's local `attempt`
  child,      \* per process: none yet, running, or left
  asked       \* the processes that were asked to stop

tunnelVars == <<tunnel, attempt, child, asked>>

TunnelTypeOK ==
  /\ tunnel \in {"new", "starting", "reading", "leaving", "ready", "failed", "stopped"}
  /\ attempt \in 0..MaxReconnects
  /\ child \in [Processes -> {"none", "running", "left"}]
  /\ asked \in SUBSET Processes

TunnelInit ==
  /\ tunnel = "new"
  /\ attempt = 0
  /\ child = [c \in Processes |-> "none"]
  /\ asked = {}

Active == {c \in Processes : child[c] = "running"}

Spawn(c) == child' = [child EXCEPT ![c] = "running"] /\ asked' = asked \ {c}

(* Supervisor::shutdown up to where it waits.                              *)
AskAll == asked' = asked \union Active

(* A process leaves, asked or not.                                         *)
Exit(c) ==
  /\ c \in Active
  /\ child' = [child EXCEPT ![c] = "left"]
  /\ UNCHANGED <<tunnel, attempt, asked>>

-----------------------------------------------------------------------------
(* TunnelSession::start.                                                   *)

StartTunnel ==
  /\ tunnel = "new"
  /\ tunnel' = "starting"
  /\ UNCHANGED <<attempt, child, asked>>

SpawnProvider ==
  /\ tunnel = "starting"
  /\ Spawn("tunnel")
  /\ tunnel' = "reading"
  /\ UNCHANGED attempt

SpawnProviderFails ==
  /\ tunnel = "starting"
  /\ tunnel' = "failed"
  /\ UNCHANGED <<attempt, child, asked>>

UrlRead ==
  /\ tunnel = "reading"
  /\ tunnel' = "ready"
  /\ UNCHANGED <<attempt, child, asked>>

(* The provider has closed its output, or the time to read it is up.       *)
NotReady ==
  /\ tunnel = "reading"
  /\ tunnel' = "leaving"
  /\ asked' = asked \union {"tunnel"}
  /\ UNCHANGED <<attempt, child>>

(* process.wait has returned: again, or no more.                           *)
Reconnect ==
  /\ tunnel = "leaving"
  /\ child["tunnel"] = "left"
  /\ IF attempt < MaxReconnects
     THEN tunnel' = "starting" /\ attempt' = attempt + 1
     ELSE tunnel' = "failed" /\ UNCHANGED attempt
  /\ UNCHANGED <<child, asked>>

Starting ==
  StartTunnel \/ SpawnProvider \/ SpawnProviderFails \/ UrlRead \/ NotReady \/ Reconnect

(* TunnelSession::stop: the whole supervisor is shut down.                 *)
StopTunnel ==
  /\ tunnel = "ready"
  /\ tunnel' = "stopped"
  /\ AskAll
  /\ UNCHANGED <<attempt, child>>
=============================================================================
