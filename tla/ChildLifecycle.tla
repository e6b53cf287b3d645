--------------------------- MODULE ChildLifecycle ---------------------------
(***************************************************************************)
(* What crates/cfy-process promises of its children, without tasks, locks  *)
(* or channels: a child is started, may be asked to stop, and leaves with  *)
(* one outcome; a shutdown succeeds at a moment at which no child is       *)
(* active.  ProcessSupervisor implements it.                               *)
(***************************************************************************)
CONSTANTS
  Procs,     \* the children
  Shutters   \* the callers of shutdown

VARIABLES
  life,      \* per child: "none", "active" or "gone"
  asked,     \* the children that were asked to stop
  outcome,   \* per child: how it left
  stopped    \* the shutdowns that have succeeded

lifeVars == <<life, asked, outcome, stopped>>

Init ==
  /\ life = [p \in Procs |-> "none"]
  /\ asked = {}
  /\ outcome = [p \in Procs |-> "none"]
  /\ stopped = {}

Start(p) ==
  /\ life[p] = "none"
  /\ life' = [life EXCEPT ![p] = "active"]
  /\ UNCHANGED <<asked, outcome, stopped>>

Ask(p) ==
  /\ life[p] = "active"
  /\ asked' = asked \union {p}
  /\ UNCHANGED <<life, outcome, stopped>>

(* Only a child that was asked to stop can be reported as cancelled.       *)
Leave(p) ==
  /\ life[p] = "active"
  /\ life' = [life EXCEPT ![p] = "gone"]
  /\ \E o \in {"exited", "cancelled", "error"} :
        /\ o = "cancelled" => p \in asked
        /\ outcome' = [outcome EXCEPT ![p] = o]
  /\ UNCHANGED <<asked, stopped>>

(* A shutdown succeeds: nothing is active now.                             *)
Succeed(s) ==
  /\ s \notin stopped
  /\ \A p \in Procs : life[p] # "active"
  /\ stopped' = stopped \union {s}
  /\ UNCHANGED <<life, asked, outcome>>

Next ==
  \/ \E p \in Procs : Start(p) \/ Ask(p) \/ Leave(p)
  \/ \E s \in Shutters : Succeed(s)

Spec == Init /\ [][Next]_lifeVars
=============================================================================
