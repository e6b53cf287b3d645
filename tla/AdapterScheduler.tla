-------------------------- MODULE AdapterScheduler --------------------------
(***************************************************************************)
(* build_all of crates/cfy-extension-adapter: the jobs of a build run as   *)
(* tasks that take a job slot and then their estimated memory from two     *)
(* semaphores, run the adapter as a supervised child, and release both.    *)
(*                                                                         *)
(* The semaphores are tokio's: a task that waits keeps its place, and what *)
(* is released goes to the first in line.  A forwarded Ctrl-C is one of the *)
(* ways in which a running adapter fails.                                  *)
(***************************************************************************)
EXTENDS FiniteSets, Naturals, Sequences

CONSTANTS
  JobCount,   \* jobs in the batch
  MaxJobs,    \* Parallelism::max_jobs
  MaxMemory,  \* Parallelism::max_memory_mb
  Estimates,  \* the memory_mb a job may have
  NoJob

ASSUME SchedulerAssumption ==
  /\ JobCount \in Nat /\ MaxJobs \in Nat /\ MaxMemory \in Nat
  /\ Estimates \subseteq Nat
  /\ NoJob \notin Nat

Jobs == 1..JobCount

VARIABLES
  need,        \* memory_mb of each job
  at,          \* where each task is
  slots,       \* permits left in job_slots
  memory,      \* permits left in memory
  queue,       \* the tasks in line for memory
  responses,   \* the response of each job, by its place in the batch
  error,       \* the job whose error was kept, or NoJob
  call         \* what build_all does, or returned

vars == <<need, at, slots, memory, queue, responses, error, call>>

Ended == {"ok", "failed", "joined"}

TypeOK ==
  /\ need \in [Jobs -> Estimates]
  /\ at \in [Jobs -> {"slot", "memory", "running"} \union Ended]
  /\ slots \in 0..MaxJobs
  /\ memory \in 0..MaxMemory
  /\ queue \in Seq(Jobs)
  /\ responses \in [Jobs -> Jobs \union {NoJob}]
  /\ error \in Jobs \union {NoJob}
  /\ call \in {"called", "joining", "refused", "ok", "error"}

Init ==
  /\ need \in [Jobs -> Estimates]
  /\ at = [j \in Jobs |-> "slot"]
  /\ slots = MaxJobs
  /\ memory = MaxMemory
  /\ queue = <<>>
  /\ responses = [j \in Jobs |-> NoJob]
  /\ error = NoJob
  /\ call = "called"

(* Parallelism::validate and the check of every estimate.                  *)
Admissible == MaxJobs > 0 /\ MaxMemory > 0 /\ \A j \in Jobs : need[j] \in 1..MaxMemory

Validate ==
  /\ call = "called"
  /\ call' = IF Admissible THEN "joining" ELSE "refused"
  /\ UNCHANGED <<need, at, slots, memory, queue, responses, error>>

(* The task has its slot and gets in line for memory.                      *)
TakeSlot(j) ==
  /\ call = "joining"
  /\ at[j] = "slot"
  /\ slots > 0
  /\ slots' = slots - 1
  /\ queue' = Append(queue, j)
  /\ at' = [at EXCEPT ![j] = "memory"]
  /\ UNCHANGED <<need, memory, responses, error, call>>

(* Mutant: the adapter starts with the slot alone.                         *)
StartUnbudgeted(j) ==
  /\ queue # <<>> /\ Head(queue) = j
  /\ queue' = Tail(queue)
  /\ at' = [at EXCEPT ![j] = "running"]
  /\ UNCHANGED <<need, slots, memory, responses, error, call>>

(* The first in line has its memory and starts the adapter.                *)
Start(j) ==
  /\ queue # <<>> /\ Head(queue) = j
  /\ need[j] <= memory
  /\ memory' = memory - need[j]
  /\ queue' = Tail(queue)
  /\ at' = [at EXCEPT ![j] = "running"]
  /\ UNCHANGED <<need, slots, responses, error, call>>

(* Mutant: a build that fails takes its permits with it.                   *)
EndKeepingPermits(j, how) ==
  /\ at[j] = "running"
  /\ at' = [at EXCEPT ![j] = how]
  /\ slots' = IF how = "ok" THEN slots + 1 ELSE slots
  /\ memory' = IF how = "ok" THEN memory + need[j] ELSE memory
  /\ UNCHANGED <<need, queue, responses, error, call>>

(* The build succeeds or fails (an unsupported type, a child that cannot   *)
(* start, an exit status or an interrupt, a bad response), and the task    *)
(* drops its permits.                                                      *)
End(j, how) ==
  /\ at[j] = "running"
  /\ at' = [at EXCEPT ![j] = how]
  /\ slots' = slots + 1
  /\ memory' = memory + need[j]
  /\ UNCHANGED <<need, queue, responses, error, call>>

(* Mutant: responses are kept in the order in which the jobs end.          *)
JoinInOrderOfArrival(j) ==
  /\ call = "joining"
  /\ at[j] \in {"ok", "failed"}
  /\ at' = [at EXCEPT ![j] = "joined"]
  /\ IF at[j] = "ok"
     THEN /\ responses' = [responses EXCEPT ![Cardinality({k \in Jobs : responses[k] # NoJob}) + 1] = j]
          /\ UNCHANGED error
     ELSE error' = (IF error = NoJob THEN j ELSE error) /\ UNCHANGED responses
  /\ UNCHANGED <<need, slots, memory, queue, call>>

(* join_next: a response goes to its job's place, the first error is kept. *)
JoinNext(j) ==
  /\ call = "joining"
  /\ at[j] \in {"ok", "failed"}
  /\ at' = [at EXCEPT ![j] = "joined"]
  /\ IF at[j] = "ok"
     THEN responses' = [responses EXCEPT ![j] = j] /\ UNCHANGED error
     ELSE error' = (IF error = NoJob THEN j ELSE error) /\ UNCHANGED responses
  /\ UNCHANGED <<need, slots, memory, queue, call>>

(* Mutant: the first error is returned at once.                            *)
ReturnOnError ==
  /\ call = "joining"
  /\ error # NoJob \/ \A j \in Jobs : at[j] = "joined"
  /\ call' = IF error = NoJob THEN "ok" ELSE "error"
  /\ UNCHANGED <<need, at, slots, memory, queue, responses, error>>

Return ==
  /\ call = "joining"
  /\ \A j \in Jobs : at[j] = "joined"
  /\ call' = IF error = NoJob THEN "ok" ELSE "error"
  /\ UNCHANGED <<need, at, slots, memory, queue, responses, error>>

Task(j) == TakeSlot(j) \/ Start(j) \/ End(j, "ok") \/ End(j, "failed")

Next ==
  \/ Validate
  \/ \E j \in Jobs : Task(j)
  \/ \E j \in Jobs : JoinNext(j)
  \/ Return

Spec == Init /\ [][Next]_vars

(* Tasks are scheduled, adapters end, and the caller polls.                *)
FairSpec ==
  /\ Spec
  /\ WF_vars(Validate) /\ WF_vars(Return)
  /\ \A j \in Jobs : WF_vars(Task(j)) /\ WF_vars(JoinNext(j))

-----------------------------------------------------------------------------
(* Properties.                                                             *)

(* The two acquisitions, the line for memory and the joins amount to       *)
(* atomic admission: no more adapters or memory at work than allowed,      *)
(* nothing before the whole batch has been validated, and no result while  *)
(* an adapter still runs.                                                  *)
Admission == INSTANCE AdmissionControl WITH
  phase <- [j \in Jobs |->
    CASE at[j] \in {"slot", "memory"} -> "pending"
      [] at[j] = "joined" -> IF responses[j] # NoJob THEN "ok" ELSE "failed"
      [] OTHER -> at[j]],
  outcome <- IF call \in {"called", "joining"} THEN "none" ELSE call

ImplementsAdmission == Admission!Spec

(* No permit is lost or made up, whatever path a task takes.               *)
PermitsAddUp ==
  /\ slots + Cardinality({j \in Jobs : at[j] \in {"memory", "running"}}) = MaxJobs
  /\ memory + Admission!MemoryOf({j \in Jobs : at[j] = "running"}) = MaxMemory

(* A batch without an error returns each job's response in the job's own   *)
(* place, however the jobs overtook each other ("Responses retain input    *)
(* order", docs/extension-build-adapters.md).                              *)
ResponsesInInputOrder == call = "ok" => \A j \in Jobs : responses[j] = j

(* The line for memory holds the tasks that wait for it, each once.        *)
LineForMemory ==
  /\ \A i \in 1..Len(queue) : at[queue[i]] = "memory"
  /\ \A i, k \in 1..Len(queue) : queue[i] = queue[k] => i = k

(* No task runs before the batch is admitted or after it has returned.     *)
Stages ==
  /\ call \in {"called", "refused"} => \A j \in Jobs : at[j] = "slot"
  /\ call = "refused" <=> call # "called" /\ ~Admissible
  /\ call \in {"ok", "error"} => \A j \in Jobs : at[j] = "joined"
  /\ call = "ok" => error = NoJob
  /\ call = "error" => error # NoJob

(* A joined task has left its own response or an error, never both.        *)
Joined ==
  /\ \A j \in Jobs : responses[j] # NoJob => responses[j] = j /\ at[j] = "joined"
  /\ \A j \in Jobs : at[j] = "joined" /\ responses[j] = NoJob => error # NoJob
  /\ error # NoJob => at[error] = "joined" /\ responses[error] = NoJob

(* The invariant of the scheduler's state.                                 *)
AInv ==
  TypeOK /\ PermitsAddUp /\ LineForMemory /\ Stages /\ Joined /\ ResponsesInInputOrder

(* Every batch returns: tasks that hold a slot while they are in line for  *)
(* memory do not block each other for good.                                *)
EveryBatchReturns == <>(call \in {"refused", "ok", "error"})
=============================================================================
