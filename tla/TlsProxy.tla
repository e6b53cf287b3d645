------------------------------ MODULE TlsProxy ------------------------------
(***************************************************************************)
(* TlsProxy of crates/cfy-dev: one task accepts connections on localhost   *)
(* and owns the tasks that forward them.                                   *)
(***************************************************************************)
CONSTANT Clients   \* the browsers that connect, once each

VARIABLES
  proxy,         \* the accepting task
  connections    \* the connections it forwards

proxyVars == <<proxy, connections>>

ProxyTypeOK ==
  /\ proxy \in {"none", "running", "stopping", "stopped", "failed"}
  /\ connections \in SUBSET Clients

ProxyInit == proxy = "none" /\ connections = {}

StartProxy ==
  /\ proxy = "none"
  /\ proxy' = "running"
  /\ UNCHANGED connections

Accept(c) ==
  /\ proxy = "running"
  /\ c \notin connections
  /\ connections' = connections \union {c}
  /\ UNCHANGED proxy

(* Either side closes; join_next takes the task from the set.              *)
Close(c) ==
  /\ c \in connections
  /\ connections' = connections \ {c}
  /\ UNCHANGED proxy

(* accept fails: the set of tasks is dropped with the function.            *)
AcceptFails ==
  /\ proxy = "running"
  /\ proxy' = "failed"
  /\ connections' = {}

(* TlsProxy::stop, up to where it waits for the task.                      *)
StopProxy == proxy' = (IF proxy = "running" THEN "stopping" ELSE proxy) /\ UNCHANGED connections

ProxyStops ==
  /\ proxy = "stopping"
  /\ proxy' = "stopped"
  /\ connections' = {}

(* Drop: the task is aborted, and its set of tasks goes with it.           *)
DropProxy ==
  /\ proxy' = IF proxy = "running" THEN "stopped" ELSE proxy
  /\ connections' = {}

Serving == (\E c \in Clients : Accept(c) \/ Close(c)) \/ AcceptFails
=============================================================================
