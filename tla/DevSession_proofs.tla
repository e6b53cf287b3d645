------------------------- MODULE DevSession_proofs -------------------------
(***************************************************************************)
(* Theorems about DevSession, for any set of components and any restart    *)
(* budgets.                                                                *)
(***************************************************************************)
EXTENDS DevSession, TLAPS

USE DevAssumption DEF Left, childVars

(* Every step keeps the types, and every restart is within the budget.     *)
LEMMA TypeStep ==
  ASSUME TypeOK, [Next]_vars
  PROVE  TypeOK'
<1> USE DEF TypeOK, Running
<1>1. ASSUME NEW c \in Components, Start(c) PROVE TypeOK'
  BY <1>1 DEF Start, Run
<1>2. ASSUME NEW c \in Components, StartFails(c) PROVE TypeOK'
  BY <1>2 DEF StartFails, Abort
<1>3. ASSUME StartCancelled PROVE TypeOK'
  BY <1>3 DEF StartCancelled, BeginShutdown
<1>4. ASSUME Started PROVE TypeOK'
  BY <1>4 DEF Started
<1>5. ASSUME WaitCancelled PROVE TypeOK'
  BY <1>5 DEF WaitCancelled, BeginShutdown
<1>6. ASSUME AllExited PROVE TypeOK'
  BY <1>6 DEF AllExited
<1>7. ASSUME NEW c \in Components, Take(c) PROVE TypeOK'
  BY <1>7 DEF Take
<1>8. ASSUME WaitFails PROVE TypeOK'
  BY <1>8 DEF WaitFails, Abort
<1>9. ASSUME StoppedByCancel PROVE TypeOK'
  BY <1>9 DEF StoppedByCancel, BeginShutdown
<1>10. ASSUME Finished PROVE TypeOK'
  BY <1>10 DEF Finished, LeftByItself
<1>11. ASSUME Restart PROVE TypeOK'
  BY <1>11 DEF Restart, LeftByItself, Spent
<1>12. ASSUME Respawn PROVE TypeOK'
  BY <1>12 DEF Respawn, Run
<1>13. ASSUME RespawnFails PROVE TypeOK'
  BY <1>13 DEF RespawnFails, Abort
<1>14. ASSUME GiveUp PROVE TypeOK'
  BY <1>14 DEF GiveUp, LeftByItself
<1>15. ASSUME StopSiblings PROVE TypeOK'
  BY <1>15 DEF StopSiblings, BeginShutdown
<1>16. ASSUME ShutdownDone PROVE TypeOK'
  BY <1>16 DEF ShutdownDone
<1>17. ASSUME ShutdownTimesOut PROVE TypeOK'
  BY <1>17 DEF ShutdownTimesOut
<1>18. ASSUME Cancel PROVE TypeOK'
  BY <1>18 DEF Cancel
<1>19. ASSUME SignalShutdown PROVE TypeOK'
  BY <1>19 DEF SignalShutdown
<1>20. ASSUME NEW c \in Components, Leave(c) PROVE TypeOK'
  BY <1>20 DEF Leave
<1>21. ASSUME UNCHANGED vars PROVE TypeOK'
  BY <1>21 DEF vars
<1>22. QED
  BY <1>1, <1>2, <1>3, <1>4, <1>5, <1>6, <1>7, <1>8, <1>9, <1>10, <1>11, <1>12, <1>13, <1>14, <1>15, <1>16, <1>17, <1>18, <1>19, <1>20, <1>21 DEF Next, Session, Failing

(* What runs is held, awaited or asked to stop; the flag comes first.      *)
LEMMA HeldStep ==
  ASSUME TypeOK, HeldOrAsked, CancelSeen, Progress, [Next]_vars
  PROVE  HeldOrAsked' /\ CancelSeen'
<1> USE DEF TypeOK, Running, HeldOrAsked, CancelSeen, Progress
<1>1. ASSUME NEW c \in Components, Start(c) PROVE HeldOrAsked' /\ CancelSeen'
  BY <1>1 DEF Start, Run
<1>2. ASSUME NEW c \in Components, StartFails(c) PROVE HeldOrAsked' /\ CancelSeen'
  BY <1>2 DEF StartFails, Abort
<1>3. ASSUME StartCancelled PROVE HeldOrAsked' /\ CancelSeen'
  BY <1>3 DEF StartCancelled, BeginShutdown
<1>4. ASSUME Started PROVE HeldOrAsked' /\ CancelSeen'
  BY <1>4 DEF Started
<1>5. ASSUME WaitCancelled PROVE HeldOrAsked' /\ CancelSeen'
  BY <1>5 DEF WaitCancelled, BeginShutdown
<1>6. ASSUME AllExited PROVE HeldOrAsked' /\ CancelSeen'
  BY <1>6 DEF AllExited
<1>7. ASSUME NEW c \in Components, Take(c) PROVE HeldOrAsked' /\ CancelSeen'
  BY <1>7 DEF Take
<1>8. ASSUME WaitFails PROVE HeldOrAsked' /\ CancelSeen'
  BY <1>8 DEF WaitFails, Abort
<1>9. ASSUME StoppedByCancel PROVE HeldOrAsked' /\ CancelSeen'
  BY <1>9 DEF StoppedByCancel, BeginShutdown
<1>10. ASSUME Finished PROVE HeldOrAsked' /\ CancelSeen'
  BY <1>10 DEF Finished, LeftByItself
<1>11. ASSUME Restart PROVE HeldOrAsked' /\ CancelSeen'
  BY <1>11 DEF Restart, LeftByItself, Spent
<1>12. ASSUME Respawn PROVE HeldOrAsked' /\ CancelSeen'
  BY <1>12 DEF Respawn, Run
<1>13. ASSUME RespawnFails PROVE HeldOrAsked' /\ CancelSeen'
  BY <1>13 DEF RespawnFails, Abort
<1>14. ASSUME GiveUp PROVE HeldOrAsked' /\ CancelSeen'
  BY <1>14 DEF GiveUp, LeftByItself
<1>15. ASSUME StopSiblings PROVE HeldOrAsked' /\ CancelSeen'
  BY <1>15 DEF StopSiblings, BeginShutdown
<1>16. ASSUME ShutdownDone PROVE HeldOrAsked' /\ CancelSeen'
  BY <1>16 DEF ShutdownDone
<1>17. ASSUME ShutdownTimesOut PROVE HeldOrAsked' /\ CancelSeen'
  BY <1>17 DEF ShutdownTimesOut
<1>18. ASSUME Cancel PROVE HeldOrAsked' /\ CancelSeen'
  BY <1>18 DEF Cancel
<1>19. ASSUME SignalShutdown PROVE HeldOrAsked' /\ CancelSeen'
  BY <1>19 DEF SignalShutdown
<1>20. ASSUME NEW c \in Components, Leave(c) PROVE HeldOrAsked' /\ CancelSeen'
  BY <1>20 DEF Leave
<1>21. ASSUME UNCHANGED vars PROVE HeldOrAsked' /\ CancelSeen'
  BY <1>21 DEF vars
<1>22. QED
  BY <1>1, <1>2, <1>3, <1>4, <1>5, <1>6, <1>7, <1>8, <1>9, <1>10, <1>11, <1>12, <1>13, <1>14, <1>15, <1>16, <1>17, <1>18, <1>19, <1>20, <1>21 DEF Next, Session, Failing

(* Where the session's task is says what the components have done.         *)
LEMMA ProgressStep ==
  ASSUME TypeOK, HeldOrAsked, CancelSeen, Progress, [Next]_vars
  PROVE  Progress'
<1> USE DEF TypeOK, Running, Unstarted, Spent, HeldOrAsked, CancelSeen, Progress
<1>1. ASSUME NEW c \in Components, Start(c) PROVE Progress'
  BY <1>1 DEF Start, Run
<1>2. ASSUME NEW c \in Components, StartFails(c) PROVE Progress'
  BY <1>2 DEF StartFails, Abort
<1>3. ASSUME StartCancelled PROVE Progress'
  BY <1>3 DEF StartCancelled, BeginShutdown
<1>4. ASSUME Started PROVE Progress'
  BY <1>4 DEF Started
<1>5. ASSUME WaitCancelled PROVE Progress'
  BY <1>5 DEF WaitCancelled, BeginShutdown
<1>6. ASSUME AllExited PROVE Progress'
  BY <1>6 DEF AllExited
<1>7. ASSUME NEW c \in Components, Take(c) PROVE Progress'
  BY <1>7 DEF Take
<1>8. ASSUME WaitFails PROVE Progress'
  BY <1>8 DEF WaitFails, Abort
<1>9. ASSUME StoppedByCancel PROVE Progress'
  BY <1>9 DEF StoppedByCancel, BeginShutdown
<1>10. ASSUME Finished PROVE Progress'
  BY <1>10 DEF Finished, LeftByItself
<1>11. ASSUME Restart PROVE Progress'
  BY <1>11 DEF Restart, LeftByItself, Spent
<1>12. ASSUME Respawn PROVE Progress'
  BY <1>12 DEF Respawn, Run
<1>13. ASSUME RespawnFails PROVE Progress'
  BY <1>13 DEF RespawnFails, Abort
<1>14. ASSUME GiveUp PROVE Progress'
  BY <1>14 DEF GiveUp, LeftByItself
<1>15. ASSUME StopSiblings PROVE Progress'
  BY <1>15 DEF StopSiblings, BeginShutdown
<1>16. ASSUME ShutdownDone PROVE Progress'
  BY <1>16 DEF ShutdownDone
<1>17. ASSUME ShutdownTimesOut PROVE Progress'
  BY <1>17 DEF ShutdownTimesOut
<1>18. ASSUME Cancel PROVE Progress'
  BY <1>18 DEF Cancel
<1>19. ASSUME SignalShutdown PROVE Progress'
  BY <1>19 DEF SignalShutdown
<1>20. ASSUME NEW c \in Components, Leave(c) PROVE Progress'
  BY <1>20 DEF Leave
<1>21. ASSUME UNCHANGED vars PROVE Progress'
  BY <1>21 DEF vars
<1>22. QED
  BY <1>1, <1>2, <1>3, <1>4, <1>5, <1>6, <1>7, <1>8, <1>9, <1>10, <1>11, <1>12, <1>13, <1>14, <1>15, <1>16, <1>17, <1>18, <1>19, <1>20, <1>21 DEF Next, Session, Failing

(* An ended session leaves nothing behind, and its result is earned.       *)
LEMMA OutcomeStep ==
  ASSUME TypeOK, HeldOrAsked, Progress, NothingLeftBehind, OutcomeIsEarned, [Next]_vars
  PROVE  NothingLeftBehind' /\ OutcomeIsEarned'
<1> USE DEF TypeOK, Running, Unstarted, Spent, HeldOrAsked, Progress, NothingLeftBehind, OutcomeIsEarned
<1>1. ASSUME NEW c \in Components, Start(c) PROVE NothingLeftBehind' /\ OutcomeIsEarned'
  BY <1>1 DEF Start, Run
<1>2. ASSUME NEW c \in Components, StartFails(c) PROVE NothingLeftBehind' /\ OutcomeIsEarned'
  BY <1>2 DEF StartFails, Abort
<1>3. ASSUME StartCancelled PROVE NothingLeftBehind' /\ OutcomeIsEarned'
  BY <1>3 DEF StartCancelled, BeginShutdown
<1>4. ASSUME Started PROVE NothingLeftBehind' /\ OutcomeIsEarned'
  BY <1>4 DEF Started
<1>5. ASSUME WaitCancelled PROVE NothingLeftBehind' /\ OutcomeIsEarned'
  BY <1>5 DEF WaitCancelled, BeginShutdown
<1>6. ASSUME AllExited PROVE NothingLeftBehind' /\ OutcomeIsEarned'
  BY <1>6 DEF AllExited
<1>7. ASSUME NEW c \in Components, Take(c) PROVE NothingLeftBehind' /\ OutcomeIsEarned'
  BY <1>7 DEF Take
<1>8. ASSUME WaitFails PROVE NothingLeftBehind' /\ OutcomeIsEarned'
  BY <1>8 DEF WaitFails, Abort
<1>9. ASSUME StoppedByCancel PROVE NothingLeftBehind' /\ OutcomeIsEarned'
  BY <1>9 DEF StoppedByCancel, BeginShutdown
<1>10. ASSUME Finished PROVE NothingLeftBehind' /\ OutcomeIsEarned'
  BY <1>10 DEF Finished, LeftByItself
<1>11. ASSUME Restart PROVE NothingLeftBehind' /\ OutcomeIsEarned'
  BY <1>11 DEF Restart, LeftByItself, Spent
<1>12. ASSUME Respawn PROVE NothingLeftBehind' /\ OutcomeIsEarned'
  BY <1>12 DEF Respawn, Run
<1>13. ASSUME RespawnFails PROVE NothingLeftBehind' /\ OutcomeIsEarned'
  BY <1>13 DEF RespawnFails, Abort
<1>14. ASSUME GiveUp PROVE NothingLeftBehind' /\ OutcomeIsEarned'
  BY <1>14 DEF GiveUp, LeftByItself
<1>15. ASSUME StopSiblings PROVE NothingLeftBehind' /\ OutcomeIsEarned'
  BY <1>15 DEF StopSiblings, BeginShutdown
<1>16. ASSUME ShutdownDone PROVE NothingLeftBehind' /\ OutcomeIsEarned'
  BY <1>16 DEF ShutdownDone
<1>17. ASSUME ShutdownTimesOut PROVE NothingLeftBehind' /\ OutcomeIsEarned'
  BY <1>17 DEF ShutdownTimesOut
<1>18. ASSUME Cancel PROVE NothingLeftBehind' /\ OutcomeIsEarned'
  BY <1>18 DEF Cancel
<1>19. ASSUME SignalShutdown PROVE NothingLeftBehind' /\ OutcomeIsEarned'
  BY <1>19 DEF SignalShutdown
<1>20. ASSUME NEW c \in Components, Leave(c) PROVE NothingLeftBehind' /\ OutcomeIsEarned'
  BY <1>20 DEF Leave
<1>21. ASSUME UNCHANGED vars PROVE NothingLeftBehind' /\ OutcomeIsEarned'
  BY <1>21 DEF vars
<1>22. QED
  BY <1>1, <1>2, <1>3, <1>4, <1>5, <1>6, <1>7, <1>8, <1>9, <1>10, <1>11, <1>12, <1>13, <1>14, <1>15, <1>16, <1>17, <1>18, <1>19, <1>20, <1>21 DEF Next, Session, Failing

(* The inductive invariant holds in every reachable state.                 *)
THEOREM DevInvariance == Spec => []DInv
<1>1. ASSUME Init PROVE DInv
  <2> USE <1>1 DEF Init
  <2>1. TypeOK
    <3>1. restarts \in [Components -> Nat] /\ \A c \in Components : restarts[c] <= MaxRestarts[c]
      OBVIOUS
    <3>2. QED
      BY <3>1 DEF TypeOK
  <2>2. HeldOrAsked /\ CancelSeen
    BY DEF HeldOrAsked, CancelSeen, Running
  <2>3. Progress
    BY DEF Progress
  <2>4. QED
    BY <2>1, <2>2, <2>3 DEF DInv, NothingLeftBehind, OutcomeIsEarned
<1>2. DInv /\ [Next]_vars => DInv'
  BY TypeStep, HeldStep, ProgressStep, OutcomeStep DEF DInv
<1>3. QED
  BY <1>1, <1>2, PTL DEF Spec

(* When the session has ended no process of it runs, or, after an error of *)
(* the supervisor, every one that runs has been asked to stop.             *)
THEOREM NoProcessIsLeftBehind == Spec => []NothingLeftBehind
<1>1. DInv => NothingLeftBehind
  BY DEF DInv
<1>2. QED
  BY <1>1, DevInvariance, PTL

(* The session fails only over a component that has used all its restarts, *)
(* and ends well only when every process has exited with success.          *)
THEOREM EveryOutcomeIsEarned == Spec => []OutcomeIsEarned
<1>1. DInv => OutcomeIsEarned
  BY DEF DInv
<1>2. QED
  BY <1>1, DevInvariance, PTL

(* A process that left after the cancellation is never restarted and never *)
(* counted as failed: the task that sees it has seen the flag.             *)
THEOREM CancelledIsNotFailed == Spec => NoVerdictOnCancelled
<1> DEFINE A == \A c \in late :
                   /\ restarts'[c] = restarts[c]
                   /\ state'[c] = "Failed" => state[c] = "Failed"
<1>1. ASSUME DInv, [Next]_vars PROVE A
  <2> USE <1>1
  <2> SUFFICES ASSUME NEW c \in late
               PROVE  restarts'[c] = restarts[c] /\ (state'[c] = "Failed" => state[c] = "Failed")
    OBVIOUS
  <2>1. cancelled /\ c \in Components /\ TypeOK
    BY DEF DInv, CancelSeen, TypeOK
  <2>2. CASE UNCHANGED <<restarts, state>>
    BY <2>2
  <2>3. CASE restarts' = restarts /\ \E d \in Components, s \in {"Starting", "Running"} : state' = [state EXCEPT ![d] = s]
    BY <2>1, <2>3 DEF TypeOK
  <2>4. CASE restarts' = restarts /\ state' = [d \in Components |-> "Stopped"]
    BY <2>1, <2>4
  <2>5. QED
    <3> USE <2>1 DEF TypeOK
    <3>1. ASSUME NEW d \in Components, Start(d) \/ StartFails(d) \/ Take(d) \/ Leave(d) PROVE A
      BY <3>1, <2>1, <2>2, <2>3 DEF Start, StartFails, Run, Take, Leave
    <3>2. ASSUME StartCancelled \/ WaitCancelled \/ StoppedByCancel \/ StopSiblings PROVE A
      BY <3>2, <2>4 DEF StartCancelled, WaitCancelled, StoppedByCancel, StopSiblings, BeginShutdown
    <3>3. ASSUME Started \/ AllExited \/ ShutdownDone \/ ShutdownTimesOut \/ Cancel \/ SignalShutdown \/ WaitFails \/ RespawnFails \/ UNCHANGED vars PROVE A
      BY <3>3 DEF Started, AllExited, ShutdownDone, ShutdownTimesOut, Cancel, SignalShutdown, WaitFails, RespawnFails, vars
    <3>4. ASSUME Finished \/ Restart \/ GiveUp PROVE A
      BY <3>4, <2>1 DEF Finished, Restart, GiveUp, LeftByItself
    <3>5. ASSUME Respawn PROVE A
      BY <3>5, <2>1, <2>3 DEF Respawn, Run
    <3>6. QED
      BY <3>1, <3>2, <3>3, <3>4, <3>5 DEF Next, Session, Failing
<1>2. QED
  BY <1>1, DevInvariance, PTL DEF Spec, NoVerdictOnCancelled
=============================================================================
