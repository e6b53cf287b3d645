---------------------- MODULE AdapterScheduler_proofs ----------------------
(***************************************************************************)
(* Theorems about AdapterScheduler, for any number of jobs, any estimates  *)
(* and any limits: the invariant of the scheduler, and that it implements  *)
(* the atomic admission of AdmissionControl.                               *)
(***************************************************************************)
EXTENDS AdapterScheduler, FiniteSetTheorems, TLAPS

USE SchedulerAssumption

InLine == {j \in Jobs : at[j] \in {"memory", "running"}}
Running == {j \in Jobs : at[j] = "running"}

(* The abstract specification counts as this module does.                  *)
LEMMA SameCount ==
  ASSUME NEW S
  PROVE  Admission!Cardinality(S) = Cardinality(S)
BY Zenon DEF Admission!Cardinality, Cardinality

(* There are finitely many jobs, and what they hold can be counted.        *)
LEMMA JobsAreFinite ==
  /\ IsFiniteSet(Jobs)
  /\ \A S \in SUBSET Jobs : IsFiniteSet(S) /\ Cardinality(S) \in Nat
<1>1. IsFiniteSet(Jobs)
  BY FS_Interval DEF Jobs
<1>2. QED
  BY <1>1, FS_Subset, FS_CardinalityType

(* No job is the null job.                                                 *)
LEMMA JobsAreJobs == \A j \in Jobs : j # NoJob
BY DEF Jobs

(* A job more in a set of jobs, or one job less.                           *)
LEMMA CountOneMore ==
  ASSUME NEW S \in SUBSET Jobs, NEW j \in Jobs, j \notin S
  PROVE  Cardinality(S \union {j}) = Cardinality(S) + 1
BY JobsAreFinite, FS_AddElement

(* The permits of one job, counted.                                        *)
LEMMA IntervalCount ==
  ASSUME NEW n \in Nat
  PROVE  IsFiniteSet(1..n) /\ Cardinality(1..n) = n
BY FS_Interval

(* The permits that the jobs of a set hold are finitely many.              *)
LEMMA MemoryType ==
  ASSUME TypeOK, NEW S \in SUBSET Jobs
  PROVE  IsFiniteSet(Admission!PermitsOf(S)) /\ Admission!MemoryOf(S) \in Nat
<1>1. IsFiniteSet(S) /\ IsFiniteSet(1..MaxMemory)
  BY JobsAreFinite, FS_Interval
<1>2. IsFiniteSet(S \X (1..MaxMemory))
  BY <1>1, FS_Product
<1>3. Admission!PermitsOf(S) \in SUBSET (S \X (1..MaxMemory))
  BY DEF Admission!PermitsOf
<1>4. IsFiniteSet(Admission!PermitsOf(S))
  BY <1>2, <1>3, FS_Subset
<1>5. QED
  BY <1>4, FS_CardinalityType, SameCount DEF Admission!MemoryOf

(* An admissible job adds its estimate to the memory of a set of jobs.     *)
LEMMA MemoryOneMore ==
  ASSUME TypeOK, NEW S \in SUBSET Jobs, NEW j \in Jobs, j \notin S, need[j] \in 1..MaxMemory
  PROVE  Admission!MemoryOf(S \union {j}) = Admission!MemoryOf(S) + need[j]
<1> DEFINE P == Admission!PermitsOf(S)
           Q == {j} \X (1..need[j])
<1>1. Admission!PermitsOf(S \union {j}) = P \union Q
  BY DEF Admission!PermitsOf, TypeOK
<1>2. P \intersect Q = {}
  BY DEF Admission!PermitsOf
<1>3. IsFiniteSet(P) /\ Cardinality(P) \in Nat
  BY MemoryType, SameCount DEF Admission!MemoryOf
<1>4. IsFiniteSet(Q) /\ Cardinality(Q) = need[j]
  <2>1. IsFiniteSet({j}) /\ Cardinality({j}) = 1
    BY FS_Singleton
  <2>2. IsFiniteSet(1..need[j]) /\ Cardinality(1..need[j]) = need[j]
    BY IntervalCount
  <2>3. IsFiniteSet(Q) /\ Cardinality(Q) = Cardinality({j}) * Cardinality(1..need[j])
    BY <2>1, <2>2, FS_Product
  <2>4. QED
    BY <2>1, <2>2, <2>3
<1>5. Cardinality(P \union Q) = Cardinality(P) + Cardinality(Q) - Cardinality(P \intersect Q)
  BY <1>3, <1>4, FS_Union
<1>6. Cardinality(P \union Q) = Cardinality(P) + need[j]
  <2>1. Cardinality(P \intersect Q) = 0
    BY <1>2, FS_EmptySet
  <2> HIDE DEF P, Q
  <2>2. QED
    BY <1>3, <1>4, <1>5, <2>1
<1>7. QED
  BY <1>1, <1>6, SameCount DEF Admission!MemoryOf

-----------------------------------------------------------------------------
(* The invariant.                                                          *)

(* Every step keeps the types.                                             *)
LEMMA TypeStep ==
  ASSUME TypeOK, PermitsAddUp, Stages, LineForMemory, [Next]_vars
  PROVE  TypeOK'
<1> USE DEF TypeOK, Ended
<1>1. ASSUME Validate PROVE TypeOK'
  BY <1>1 DEF Validate
<1>2. ASSUME NEW j \in Jobs, TakeSlot(j) PROVE TypeOK'
  BY <1>2 DEF TakeSlot
<1>3. ASSUME NEW j \in Jobs, Start(j) PROVE TypeOK'
  <2>1. need[j] \in Nat
    OBVIOUS
  <2>2. memory - need[j] \in 0..MaxMemory
    BY <1>3, <2>1 DEF Start
  <2>3. Tail(queue) \in Seq(Jobs)
    BY <1>3 DEF Start
  <2>4. QED
    BY <1>3, <2>2, <2>3 DEF Start
<1>4. ASSUME NEW j \in Jobs, NEW how \in {"ok", "failed"}, End(j, how) PROVE TypeOK'
  <2>1. slots + 1 \in 0..MaxJobs
    <3>1. j \in InLine /\ InLine \in SUBSET Jobs
      BY <1>4 DEF End, InLine
    <3>2. Cardinality(InLine) \in Nat /\ Cardinality(InLine) > 0
      BY <3>1, JobsAreFinite, FS_EmptySet
    <3>3. slots + Cardinality(InLine) = MaxJobs
      BY DEF PermitsAddUp, InLine
    <3>4. QED
      BY <3>2, <3>3
  <2>2. memory + need[j] \in 0..MaxMemory
    <3>1. j \in Running /\ Running \ {j} \in SUBSET Jobs /\ (Running \ {j}) \union {j} = Running
      BY <1>4 DEF End, Running
    <3>2. need[j] \in 1..MaxMemory
      BY <1>4 DEF End, Stages, Admissible
    <3>3. Admission!MemoryOf(Running) = Admission!MemoryOf(Running \ {j}) + need[j]
      BY <3>1, <3>2, MemoryOneMore
    <3>4. Admission!MemoryOf(Running \ {j}) \in Nat
      BY <3>1, MemoryType
    <3>5. memory + Admission!MemoryOf(Running) = MaxMemory
      BY DEF PermitsAddUp, Running
    <3>6. QED
      BY <3>2, <3>3, <3>4, <3>5
  <2>3. QED
    BY <1>4, <2>1, <2>2 DEF End
<1>5. ASSUME NEW j \in Jobs, JoinNext(j) PROVE TypeOK'
  BY <1>5 DEF JoinNext
<1>6. ASSUME Return PROVE TypeOK'
  BY <1>6 DEF Return
<1>7. ASSUME UNCHANGED vars PROVE TypeOK'
  BY <1>7 DEF vars
<1>8. QED
  BY <1>1, <1>2, <1>3, <1>4, <1>5, <1>6, <1>7 DEF Next, Task

(* The task that starts was waiting for memory.                            *)
LEMMA HeadWaits ==
  ASSUME TypeOK, LineForMemory, NEW j \in Jobs, Start(j)
  PROVE  at[j] = "memory"
<1>1. Len(queue) \in Nat /\ Len(queue) > 0 /\ queue[1] = j
  BY DEF TypeOK, Start
<1>2. QED
  BY <1>1 DEF LineForMemory

(* Every step keeps the line for memory.                                   *)
LEMMA LineStep ==
  ASSUME TypeOK, LineForMemory, [Next]_vars
  PROVE  LineForMemory'
<1> USE DEF TypeOK, LineForMemory
<1>1. ASSUME NEW j \in Jobs, TakeSlot(j) PROVE LineForMemory'
  BY <1>1 DEF TakeSlot
<1>2. ASSUME NEW j \in Jobs, Start(j) PROVE LineForMemory'
  BY <1>2 DEF Start
<1>3. ASSUME NEW j \in Jobs, NEW how \in {"ok", "failed"}, End(j, how) PROVE LineForMemory'
  BY <1>3 DEF End
<1>4. ASSUME NEW j \in Jobs, JoinNext(j) PROVE LineForMemory'
  BY <1>4 DEF JoinNext
<1>5. ASSUME UNCHANGED <<queue, at>> PROVE LineForMemory'
  BY <1>5
<1>6. QED
  BY <1>1, <1>2, <1>3, <1>4, <1>5 DEF Next, Task, Validate, Return, vars

(* Every step keeps the slots and the memory accounted for.                *)
LEMMA PermitsStep ==
  ASSUME TypeOK, PermitsAddUp, LineForMemory, Stages, [Next]_vars
  PROVE  PermitsAddUp'
<1> USE DEF TypeOK
<1>a. PermitsAddUp <=> /\ slots + Cardinality(InLine) = MaxJobs
                       /\ memory + Admission!MemoryOf(Running) = MaxMemory
  BY DEF PermitsAddUp, InLine, Running
<1>b. PermitsAddUp' <=> /\ slots' + Cardinality(InLine') = MaxJobs
                        /\ memory' + Admission!MemoryOf(Running)' = MaxMemory
  BY DEF PermitsAddUp, InLine, Running
<1>c. /\ InLine \in SUBSET Jobs /\ Cardinality(InLine) \in Nat
      /\ Running \in SUBSET Jobs /\ Admission!MemoryOf(Running) \in Nat
  BY JobsAreFinite, MemoryType DEF InLine, Running
<1>d. ASSUME UNCHANGED <<slots, memory, need>>, InLine' = InLine, Running' = Running
      PROVE  PermitsAddUp'
  BY <1>a, <1>b, <1>d DEF Admission!MemoryOf, Admission!PermitsOf
<1>1. ASSUME NEW j \in Jobs, TakeSlot(j) PROVE PermitsAddUp'
  <2>1. j \notin InLine /\ InLine' = InLine \union {j} /\ Running' = Running
    BY <1>1 DEF TakeSlot, InLine, Running
  <2>2. Cardinality(InLine') = Cardinality(InLine) + 1
    BY <1>c, <2>1, CountOneMore
  <2>3. Admission!MemoryOf(Running)' = Admission!MemoryOf(Running)
    BY <1>1, <2>1 DEF TakeSlot, Admission!MemoryOf, Admission!PermitsOf
  <2>4. slots' = slots - 1 /\ memory' = memory
    BY <1>1 DEF TakeSlot
  <2>5. QED
    BY <1>a, <1>b, <1>c, <2>2, <2>3, <2>4
<1>2. ASSUME NEW j \in Jobs, Start(j) PROVE PermitsAddUp'
  <2>1. at[j] = "memory" /\ need[j] \in 1..MaxMemory
    BY <1>2 DEF Start, LineForMemory, Stages, Admissible
  <2>2. InLine' = InLine /\ j \notin Running /\ Running' = Running \union {j}
    BY <1>2, <2>1 DEF Start, InLine, Running
  <2>3. Admission!MemoryOf(Running)' = Admission!MemoryOf(Running \union {j})
    BY <1>2, <2>2 DEF Start, Admission!MemoryOf, Admission!PermitsOf
  <2>4. Admission!MemoryOf(Running \union {j}) = Admission!MemoryOf(Running) + need[j]
    BY <1>c, <2>1, <2>2, MemoryOneMore
  <2>5. slots' = slots /\ memory' = memory - need[j]
    BY <1>2 DEF Start
  <2>6. QED
    BY <1>a, <1>b, <1>c, <2>1, <2>2, <2>3, <2>4, <2>5
<1>3. ASSUME NEW j \in Jobs, NEW how \in {"ok", "failed"}, End(j, how) PROVE PermitsAddUp'
  <2>1. need[j] \in 1..MaxMemory
    BY <1>3 DEF End, Stages, Admissible
  <2>2. /\ j \notin InLine' /\ InLine = InLine' \union {j}
        /\ j \notin Running' /\ Running = Running' \union {j}
    BY <1>3 DEF End, InLine, Running
  <2>3. InLine' \in SUBSET Jobs /\ Running' \in SUBSET Jobs
    BY DEF InLine, Running
  <2>4. Cardinality(InLine) = Cardinality(InLine') + 1 /\ Cardinality(InLine') \in Nat
    BY <2>2, <2>3, CountOneMore, JobsAreFinite
  <2>5. /\ Admission!MemoryOf(Running) = Admission!MemoryOf(Running') + need[j]
        /\ Admission!MemoryOf(Running') \in Nat
    BY <2>1, <2>2, <2>3, MemoryOneMore, MemoryType
  <2>6. Admission!MemoryOf(Running)' = Admission!MemoryOf(Running')
    BY <1>3 DEF End, Admission!MemoryOf, Admission!PermitsOf
  <2>7. slots' = slots + 1 /\ memory' = memory + need[j]
    BY <1>3 DEF End
  <2>8. QED
    BY <1>a, <1>b, <2>1, <2>4, <2>5, <2>6, <2>7
<1>4. ASSUME NEW j \in Jobs, JoinNext(j) PROVE PermitsAddUp'
  <2>1. InLine' = InLine /\ Running' = Running
    BY <1>4 DEF JoinNext, InLine, Running
  <2>2. QED
    BY <1>4, <1>d, <2>1 DEF JoinNext
<1>5. ASSUME UNCHANGED <<slots, memory, need, at>> PROVE PermitsAddUp'
  BY <1>5, <1>d DEF InLine, Running
<1>6. QED
  BY <1>1, <1>2, <1>3, <1>4, <1>5 DEF Next, Task, Validate, Return, vars

(* Every step keeps the batch's stages and what the joins have gathered.   *)
LEMMA StagesStep ==
  ASSUME TypeOK, LineForMemory, Stages, Joined, [Next]_vars
  PROVE  Stages' /\ Joined'
<1> USE DEF TypeOK, Stages, Joined, Admissible, Ended
<1>1. ASSUME Validate PROVE Stages' /\ Joined'
  BY <1>1 DEF Validate
<1>2. ASSUME NEW j \in Jobs, TakeSlot(j) PROVE Stages' /\ Joined'
  BY <1>2 DEF TakeSlot
<1>3. ASSUME NEW j \in Jobs, Start(j) PROVE Stages' /\ Joined'
  <2>1. at[j] = "memory"
    BY <1>3, HeadWaits
  <2>2. QED
    BY <1>3, <2>1 DEF Start
<1>4. ASSUME NEW j \in Jobs, NEW how \in {"ok", "failed"}, End(j, how) PROVE Stages' /\ Joined'
  BY <1>4 DEF End
<1>5. ASSUME NEW j \in Jobs, JoinNext(j) PROVE Stages' /\ Joined'
  BY <1>5, JobsAreJobs DEF JoinNext
<1>6. ASSUME Return PROVE Stages' /\ Joined'
  BY <1>6 DEF Return
<1>7. ASSUME UNCHANGED vars PROVE Stages' /\ Joined'
  BY <1>7 DEF vars
<1>8. QED
  BY <1>1, <1>2, <1>3, <1>4, <1>5, <1>6, <1>7 DEF Next, Task

(* A batch that ends without an error has every job's own response.        *)
LEMMA InOrder ==
  ASSUME Stages, Joined
  PROVE  ResponsesInInputOrder
BY DEF Stages, Joined, ResponsesInInputOrder

(* The initial state, and every step, keep the invariant.                  *)
LEMMA AInvInit == Init => AInv
<1> SUFFICES ASSUME Init PROVE AInv
  OBVIOUS
<1>1. TypeOK /\ LineForMemory /\ Stages /\ Joined
  BY DEF Init, TypeOK, LineForMemory, Stages, Joined, Admissible
<1>2. InLine = {} /\ Running = {}
  BY DEF Init, InLine, Running
<1>3. Admission!PermitsOf({}) = {}
  BY DEF Admission!PermitsOf
<1>4. Cardinality(InLine) = 0 /\ Admission!MemoryOf(Running) = 0
  BY <1>2, <1>3, SameCount, FS_EmptySet DEF Admission!MemoryOf
<1>5. PermitsAddUp
  BY <1>4 DEF Init, PermitsAddUp, InLine, Running
<1>6. QED
  BY <1>1, <1>5, InOrder DEF AInv

LEMMA AInvStep == AInv /\ [Next]_vars => AInv'
<1> SUFFICES ASSUME AInv, [Next]_vars PROVE AInv'
  OBVIOUS
<1>1. TypeOK /\ PermitsAddUp /\ LineForMemory /\ Stages /\ Joined
  BY DEF AInv
<1>2. TypeOK' /\ PermitsAddUp' /\ LineForMemory'
  BY <1>1, TypeStep, PermitsStep, LineStep
<1>3. Stages' /\ Joined'
  BY <1>1, StagesStep
<1>4. ResponsesInInputOrder'
  BY <1>3 DEF Stages, Joined, ResponsesInInputOrder
<1>5. QED
  BY <1>2, <1>3, <1>4 DEF AInv

(* The scheduler's invariant: no permit of either semaphore is lost or     *)
(* made up on any path a task takes, the line for memory is in order, and  *)
(* a batch without an error has each response in its own job's place.      *)
THEOREM SchedulerInvariant == Spec => []AInv
<1>1. QED
  BY AInvInit, AInvStep, PTL DEF Spec

-----------------------------------------------------------------------------
(* The refinement.                                                         *)

(* The state of the scheduler as the abstract specification sees it.       *)
Phase ==
  [j \in Jobs |->
    CASE at[j] \in {"slot", "memory"} -> "pending"
      [] at[j] = "joined" -> IF responses[j] # NoJob THEN "ok" ELSE "failed"
      [] OTHER -> at[j]]
Outcome == IF call \in {"called", "joining"} THEN "none" ELSE call

(* What the phase of each job is, case by case.                            *)
LEMMA PhaseOf ==
  ASSUME TypeOK, NEW j \in Jobs
  PROVE  /\ Phase[j] = "pending" <=> at[j] \in {"slot", "memory"}
         /\ Phase[j] = "running" <=> at[j] = "running"
         /\ Phase[j] = "ok" <=> at[j] = "ok" \/ (at[j] = "joined" /\ responses[j] # NoJob)
         /\ Phase[j] = "failed" <=> at[j] = "failed" \/ (at[j] = "joined" /\ responses[j] = NoJob)
BY DEF TypeOK, Phase, Ended

(* A change of one job's phase, or of none.                                *)
LEMMA PhaseChange ==
  ASSUME TypeOK, TypeOK', NEW j \in Jobs,
         \A k \in Jobs \ {j} : at'[k] = at[k] /\ responses'[k] = responses[k]
  PROVE  Phase' = [Phase EXCEPT ![j] = Phase'[j]]
BY DEF TypeOK, Phase

(* An admission is one step of the abstract specification.                 *)
LEMMA StartAdmits ==
  ASSUME AInv, AInv', NEW j \in Jobs, Start(j)
  PROVE  Admission!Admit(j)
<1> USE DEF AInv, TypeOK
<1>1. at[j] = "memory" /\ at' = [at EXCEPT ![j] = "running"] /\ UNCHANGED <<need, responses, call>>
  BY DEF Start, LineForMemory
<1>2. call = "joining" /\ Admissible
  BY <1>1 DEF Stages
<1>3. Phase[j] = "pending" /\ Phase'[j] = "running"
  BY <1>1, PhaseOf DEF Phase
<1>4. Phase' = [Phase EXCEPT ![j] = "running"]
  BY <1>1, <1>3, PhaseChange
<1>5. Admission!Running = Running
  BY PhaseOf DEF Admission!Running, Running, Phase
<1>6. Cardinality(Running) < MaxJobs
  <2>1. Running \in SUBSET Jobs /\ InLine \in SUBSET Jobs /\ j \notin Running
    BY <1>1 DEF Running, InLine
  <2>2. Running \union {j} \in SUBSET InLine
    BY <1>1 DEF Running, InLine
  <2>3. Cardinality(Running) + 1 <= Cardinality(InLine)
    BY <2>1, <2>2, CountOneMore, JobsAreFinite, FS_Subset
  <2>4. slots + Cardinality(InLine) = MaxJobs
    BY DEF PermitsAddUp, InLine
  <2>5. Cardinality(Running) \in Nat /\ Cardinality(InLine) \in Nat
    BY <2>1, JobsAreFinite
  <2>6. QED
    BY <2>3, <2>4, <2>5
<1>7. Admission!MemoryOf(Running \union {j}) <= MaxMemory
  <2>1. Running \in SUBSET Jobs /\ j \notin Running /\ need[j] \in 1..MaxMemory
    BY <1>1, <1>2 DEF Running, Admissible
  <2>2. Admission!MemoryOf(Running \union {j}) = Admission!MemoryOf(Running) + need[j]
    BY <2>1, MemoryOneMore
  <2>3. memory + Admission!MemoryOf(Running) = MaxMemory /\ Admission!MemoryOf(Running) \in Nat
    BY <2>1, MemoryType DEF PermitsAddUp, Running
  <2>4. need[j] <= memory
    BY DEF Start
  <2>5. QED
    BY <2>1, <2>2, <2>3, <2>4
<1>8. QED
  BY <1>1, <1>2, <1>3, <1>4, <1>5, <1>6, <1>7, SameCount DEF Admission!Admit, Admissible, Phase

(* Every step is a step of the abstract specification, or none.            *)
LEMMA AdmissionStep ==
  ASSUME AInv, AInv', [Next]_vars
  PROVE  [Admission!Next]_(Admission!vars)
<1>0. TypeOK /\ TypeOK'
  BY DEF AInv
<1> DEFINE Same == UNCHANGED <<need, Phase, Outcome>>
<1>s. ASSUME Same PROVE [Admission!Next]_(Admission!vars)
  BY <1>s DEF Admission!vars, Phase, Outcome
<1>1. ASSUME Validate PROVE [Admission!Next]_(Admission!vars)
  <2>1. CASE Admissible
    BY <1>1, <2>1, <1>s DEF Validate, Phase, Outcome
  <2>2. CASE ~Admissible
    <3>1. \A j \in Jobs : Phase[j] = "pending"
      BY <1>0, <1>1, PhaseOf DEF Validate, AInv, Stages
    <3>2. MaxJobs = 0 \/ MaxMemory = 0 \/ \E j \in Jobs : need[j] = 0 \/ need[j] > MaxMemory
      <4>1. \A j \in Jobs : need[j] \in Nat
        BY <1>0 DEF TypeOK
      <4>2. QED
        BY <2>2, <4>1 DEF Admissible
    <3>3. Admission!Refuse
      BY <1>1, <2>2, <3>1, <3>2 DEF Admission!Refuse, Validate, Phase
    <3>4. QED
      BY <3>3 DEF Admission!Next
  <2>3. QED
    BY <2>1, <2>2
<1>2. ASSUME NEW j \in Jobs, TakeSlot(j) PROVE [Admission!Next]_(Admission!vars)
  <2>1. Phase'[j] = Phase[j]
    BY <1>0, <1>2 DEF TakeSlot, Phase, TypeOK
  <2>2. Phase' = Phase
    BY <1>0, <1>2, <2>1, PhaseChange DEF TakeSlot, TypeOK, Phase
  <2>3. QED
    BY <1>2, <1>s, <2>2 DEF TakeSlot, Outcome
<1>3. ASSUME NEW j \in Jobs, Start(j) PROVE [Admission!Next]_(Admission!vars)
  BY <1>3, StartAdmits DEF Admission!Next
<1>4. ASSUME NEW j \in Jobs, NEW how \in {"ok", "failed"}, End(j, how)
      PROVE  [Admission!Next]_(Admission!vars)
  <2>1. Phase[j] = "running" /\ Phase'[j] = how
    BY <1>0, <1>4 DEF End, Phase, TypeOK
  <2>2. Phase' = [Phase EXCEPT ![j] = how]
    BY <1>0, <1>4, <2>1, PhaseChange DEF End, TypeOK
  <2>3. Admission!Complete(j)
    BY <1>4, <2>1, <2>2 DEF Admission!Complete, End, Phase
  <2>4. QED
    BY <2>3 DEF Admission!Next
<1>5. ASSUME NEW j \in Jobs, JoinNext(j) PROVE [Admission!Next]_(Admission!vars)
  <2>1. Phase'[j] = Phase[j]
    <3>1. at'[j] = "joined" /\ responses[j] = NoJob
      BY <1>0, <1>5 DEF JoinNext, TypeOK, AInv, Joined
    <3>2. responses'[j] = IF at[j] = "ok" THEN j ELSE NoJob
      BY <1>0, <1>5, <3>1 DEF JoinNext, TypeOK
    <3>3. at[j] \in {"ok", "failed"}
      BY <1>5 DEF JoinNext
    <3>4. QED
      BY <3>1, <3>2, <3>3, JobsAreJobs DEF Phase
  <2>2. Phase' = Phase
    BY <1>0, <1>5, <2>1, PhaseChange DEF JoinNext, TypeOK, Phase
  <2>3. QED
    BY <1>5, <1>s, <2>2 DEF JoinNext, Outcome
<1>6. ASSUME Return PROVE [Admission!Next]_(Admission!vars)
  <2>1. \A j \in Jobs : Phase[j] \in {"ok", "failed"}
    BY <1>0, <1>6, PhaseOf DEF Return
  <2>2. error = NoJob <=> \A j \in Jobs : Phase[j] = "ok"
    BY <1>0, <1>6, PhaseOf DEF Return, AInv, Joined, TypeOK
  <2>3. Admission!Report
    BY <1>6, <2>1, <2>2 DEF Admission!Report, Return, Phase
  <2>4. QED
    BY <2>3 DEF Admission!Next
<1>7. ASSUME UNCHANGED vars PROVE [Admission!Next]_(Admission!vars)
  BY <1>7, <1>s DEF vars, Phase, Outcome
<1>8. QED
  BY <1>1, <1>2, <1>3, <1>4, <1>5, <1>6, <1>7 DEF Next, Task

(* The scheduler implements the abstract specification: no more adapters   *)
(* and no more memory at work than the limits allow, nothing before the    *)
(* whole batch has been validated, an error only when every job has ended. *)
THEOREM SchedulerImplementsAdmission == Spec => ImplementsAdmission
<1>1. Init => Admission!Init
  BY DEF Init, Admission!Init
<1>2. AInv /\ AInv' /\ [Next]_vars => [Admission!Next]_(Admission!vars)
  BY AdmissionStep
<1>3. QED
  BY <1>1, <1>2, SchedulerInvariant, PTL DEF Spec, ImplementsAdmission, Admission!Spec

=============================================================================
