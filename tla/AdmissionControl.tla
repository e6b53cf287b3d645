-------------------------- MODULE AdmissionControl --------------------------
(***************************************************************************)
(* What build_all of crates/cfy-extension-adapter promises: a batch without *)
(* slots or memory, or with a job that can never be admitted, is refused   *)
(* before anything runs; a job is admitted, in one step, when there is a   *)
(* slot and enough memory for it; an error is reported only after every    *)
(* job has ended.                                                          *)
(***************************************************************************)
EXTENDS FiniteSets, Naturals

CONSTANTS Jobs, MaxJobs, MaxMemory

VARIABLES
  need,    \* the memory estimate of each job
  phase,   \* of each job: "pending", "running", "ok" or "failed"
  outcome  \* of the batch: "none", "refused", "ok" or "error"

vars == <<need, phase, outcome>>

Running == {j \in Jobs : phase[j] = "running"}

(* The permits of the memory semaphore that the jobs of S hold, numbered   *)
(* for each job from 1 to its estimate.                                    *)
PermitsOf(S) == {m \in S \X (1..MaxMemory) : m[2] <= need[m[1]]}
MemoryOf(S) == Cardinality(PermitsOf(S))

Init ==
  /\ need \in [Jobs -> Nat]
  /\ phase = [j \in Jobs |-> "pending"]
  /\ outcome = "none"

Refuse ==
  /\ outcome = "none"
  /\ \A j \in Jobs : phase[j] = "pending"
  /\ MaxJobs = 0 \/ MaxMemory = 0 \/ \E j \in Jobs : need[j] = 0 \/ need[j] > MaxMemory
  /\ outcome' = "refused"
  /\ UNCHANGED <<need, phase>>

Admit(j) ==
  /\ outcome = "none"
  /\ phase[j] = "pending"
  /\ \A k \in Jobs : need[k] \in 1..MaxMemory
  /\ Cardinality(Running) < MaxJobs
  /\ MemoryOf(Running \union {j}) <= MaxMemory
  /\ phase' = [phase EXCEPT ![j] = "running"]
  /\ UNCHANGED <<need, outcome>>

Complete(j) ==
  /\ phase[j] = "running"
  /\ phase' \in {[phase EXCEPT ![j] = p] : p \in {"ok", "failed"}}
  /\ UNCHANGED <<need, outcome>>

Report ==
  /\ outcome = "none"
  /\ \A j \in Jobs : phase[j] \in {"ok", "failed"}
  /\ outcome' = IF \A j \in Jobs : phase[j] = "ok" THEN "ok" ELSE "error"
  /\ UNCHANGED <<need, phase>>

Next == Refuse \/ Report \/ \E j \in Jobs : Admit(j) \/ Complete(j)

Spec == Init /\ [][Next]_vars
=============================================================================
