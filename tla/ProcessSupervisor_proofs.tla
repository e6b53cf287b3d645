---------------------- MODULE ProcessSupervisor_proofs ----------------------
(***************************************************************************)
(* Theorems about ProcessSupervisor, for any sets of children and of       *)
(* shutdown callers.  IInv is inductive; each of its four parts is shown   *)
(* to be preserved by one lemma with a step per action, and the safety     *)
(* properties follow from it.                                              *)
(***************************************************************************)
EXTENDS ProcessSupervisor, TLAPS

(* Abbreviations the prover expands everywhere: sets of strings and tuples *)
(* of variables.                                                           *)
USE DEF Watching, Supervised, Departed, Stopped, Armed,
        childVars, treeVars, shutVars

LEMMA InitIInv == Init => IInv
BY DEF Init, IInv, TypeOK, RegistryExact, ChildShape, ShutShape,
       Phase, Outcome, Request, Signal, Handle

(* Every step keeps the types.                                             *)
LEMMA TypeStep ==
  ASSUME TypeOK, [Next]_vars
  PROVE  TypeOK'
<1> USE DEF TypeOK, Phase, Outcome, Request, Signal, Handle
<1>1. ASSUME NEW p \in Procs, SpawnProcess(p) PROVE TypeOK'
  BY <1>1 DEF SpawnProcess
<1>2. ASSUME NEW p \in Procs, SpawnFails(p) PROVE TypeOK'
  BY <1>2 DEF SpawnFails
<1>3. ASSUME NEW p \in Procs, AttachFails(p) PROVE TypeOK'
  BY <1>3 DEF AttachFails
<1>4. ASSUME NEW p \in Procs, Register(p) PROVE TypeOK'
  BY <1>4 DEF Register
<1>5. ASSUME NEW p \in Procs, Cancel(p) PROVE TypeOK'
  BY <1>5 DEF Cancel, Send, Listening
<1>6. ASSUME NEW p \in Procs, Wait(p) PROVE TypeOK'
  BY <1>6 DEF Wait
<1>7. ASSUME NEW p \in Procs, WaitForwarding(p) PROVE TypeOK'
  BY <1>7 DEF WaitForwarding
<1>8. ASSUME NEW p \in Procs, ForwardInterrupt(p) PROVE TypeOK'
  BY <1>8 DEF ForwardInterrupt, Send, Listening
<1>9. ASSUME NEW p \in Procs, Receive(p) PROVE TypeOK'
  BY <1>9 DEF Receive
<1>10. ASSUME NEW p \in Procs, DropHandle(p) PROVE TypeOK'
  BY <1>10 DEF DropHandle, Send, Listening
<1>11. ASSUME NEW p \in Procs, AbandonWait(p) PROVE TypeOK'
  BY <1>11 DEF AbandonWait
<1>12. ASSUME NEW p \in Procs, TakeRequest(p) PROVE TypeOK'
  BY <1>12 DEF TakeRequest, Advance
<1>13. ASSUME NEW p \in Procs, ChannelClosed(p) PROVE TypeOK'
  BY <1>13 DEF ChannelClosed, Advance
<1>14. ASSUME NEW p \in Procs, GraceExpires(p) PROVE TypeOK'
  BY <1>14 DEF GraceExpires, Advance
<1>15. ASSUME NEW p \in Procs, Reap(p) PROVE TypeOK'
  BY <1>15 DEF Reap
<1>16. ASSUME NEW p \in Procs, DropTree(p) PROVE TypeOK'
  BY <1>16 DEF DropTree, Advance
<1>17. ASSUME NEW p \in Procs, JoinOutput(p) PROVE TypeOK'
  BY <1>17 DEF JoinOutput, Advance
<1>18. ASSUME NEW p \in Procs, RemoveChild(p) PROVE TypeOK'
  BY <1>18 DEF RemoveChild, Advance
<1>19. ASSUME NEW p \in Procs, Complete(p) PROVE TypeOK'
  BY <1>19 DEF Complete, Advance
<1>20. ASSUME NEW p \in Procs, TaskFails(p) PROVE TypeOK'
  BY <1>20 DEF TaskFails
<1>21. ASSUME NEW p \in Procs, Exit(p) PROVE TypeOK'
  BY <1>21 DEF Exit
<1>22. ASSUME NEW p \in Procs, Fork(p) PROVE TypeOK'
  BY <1>22 DEF Fork
<1>23. ASSUME NEW p \in Procs, Escape(p) PROVE TypeOK'
  BY <1>23 DEF Escape
<1>24. ASSUME NEW p \in Procs, DescendantExits(p) PROVE TypeOK'
  BY <1>24 DEF DescendantExits
<1>25. ASSUME NEW s \in Shutters, NEW p \in Procs, SendTerminate(s, p) PROVE TypeOK'
  BY <1>25 DEF SendTerminate, Send, Listening
<1>26. ASSUME NEW s \in Shutters, Snapshot(s) PROVE TypeOK'
  BY <1>26 DEF Snapshot
<1>27. ASSUME NEW s \in Shutters, SentAll(s) PROVE TypeOK'
  BY <1>27 DEF SentAll
<1>28. ASSUME NEW s \in Shutters, Arm(s) PROVE TypeOK'
  BY <1>28 DEF Arm
<1>29. ASSUME NEW s \in Shutters, CheckRegistry(s) PROVE TypeOK'
  BY <1>29 DEF CheckRegistry
<1>30. ASSUME NEW s \in Shutters, Sleep(s) PROVE TypeOK'
  BY <1>30 DEF Sleep
<1>31. ASSUME NEW s \in Shutters, Wake(s) PROVE TypeOK'
  BY <1>31 DEF Wake
<1>32. ASSUME NEW s \in Shutters, ShutdownTimeout(s) PROVE TypeOK'
  BY <1>32 DEF ShutdownTimeout
<1>33. CASE DropSupervisor
  BY <1>33 DEF DropSupervisor
<1>34. CASE UNCHANGED vars
  BY <1>34 DEF vars
<1>35. QED
  BY <1>1, <1>2, <1>3, <1>4, <1>5, <1>6, <1>7, <1>8, <1>9, <1>10, <1>11, <1>12, <1>13, <1>14, <1>15, <1>16, <1>17, <1>18, <1>19, <1>20, <1>21, <1>22, <1>23, <1>24, <1>25, <1>26, <1>27, <1>28, <1>29, <1>30, <1>31, <1>32, <1>33, <1>34
  DEF Next, SpawnCall, HandleCall, Task, System, ShutdownCall

(* A child enters the registry as it becomes supervised and leaves it as   *)
(* it stops being so, in the same step.                                    *)
LEMMA RegistryStep ==
  ASSUME TypeOK, RegistryExact, [Next]_vars
  PROVE  RegistryExact'
<1> USE DEF TypeOK, RegistryExact
<1>1. ASSUME NEW p \in Procs, SpawnProcess(p) PROVE RegistryExact'
  BY <1>1 DEF SpawnProcess
<1>2. ASSUME NEW p \in Procs, SpawnFails(p) PROVE RegistryExact'
  BY <1>2 DEF SpawnFails
<1>3. ASSUME NEW p \in Procs, AttachFails(p) PROVE RegistryExact'
  BY <1>3 DEF AttachFails
<1>4. ASSUME NEW p \in Procs, Register(p) PROVE RegistryExact'
  BY <1>4 DEF Register
<1>5. ASSUME NEW p \in Procs, Cancel(p) PROVE RegistryExact'
  BY <1>5 DEF Cancel, Send, Listening
<1>6. ASSUME NEW p \in Procs, Wait(p) PROVE RegistryExact'
  BY <1>6 DEF Wait
<1>7. ASSUME NEW p \in Procs, WaitForwarding(p) PROVE RegistryExact'
  BY <1>7 DEF WaitForwarding
<1>8. ASSUME NEW p \in Procs, ForwardInterrupt(p) PROVE RegistryExact'
  BY <1>8 DEF ForwardInterrupt, Send, Listening
<1>9. ASSUME NEW p \in Procs, Receive(p) PROVE RegistryExact'
  BY <1>9 DEF Receive
<1>10. ASSUME NEW p \in Procs, DropHandle(p) PROVE RegistryExact'
  BY <1>10 DEF DropHandle, Send, Listening
<1>11. ASSUME NEW p \in Procs, AbandonWait(p) PROVE RegistryExact'
  BY <1>11 DEF AbandonWait
<1>12. ASSUME NEW p \in Procs, TakeRequest(p) PROVE RegistryExact'
  BY <1>12 DEF TakeRequest, Advance
<1>13. ASSUME NEW p \in Procs, ChannelClosed(p) PROVE RegistryExact'
  BY <1>13 DEF ChannelClosed, Advance
<1>14. ASSUME NEW p \in Procs, GraceExpires(p) PROVE RegistryExact'
  BY <1>14 DEF GraceExpires, Advance
<1>15. ASSUME NEW p \in Procs, Reap(p) PROVE RegistryExact'
  BY <1>15 DEF Reap
<1>16. ASSUME NEW p \in Procs, DropTree(p) PROVE RegistryExact'
  BY <1>16 DEF DropTree, Advance
<1>17. ASSUME NEW p \in Procs, JoinOutput(p) PROVE RegistryExact'
  BY <1>17 DEF JoinOutput, Advance
<1>18. ASSUME NEW p \in Procs, RemoveChild(p) PROVE RegistryExact'
  BY <1>18 DEF RemoveChild, Advance
<1>19. ASSUME NEW p \in Procs, Complete(p) PROVE RegistryExact'
  BY <1>19 DEF Complete, Advance
<1>20. ASSUME NEW p \in Procs, TaskFails(p) PROVE RegistryExact'
  BY <1>20 DEF TaskFails
<1>21. ASSUME NEW p \in Procs, Exit(p) PROVE RegistryExact'
  BY <1>21 DEF Exit
<1>22. ASSUME NEW p \in Procs, Fork(p) PROVE RegistryExact'
  BY <1>22 DEF Fork
<1>23. ASSUME NEW p \in Procs, Escape(p) PROVE RegistryExact'
  BY <1>23 DEF Escape
<1>24. ASSUME NEW p \in Procs, DescendantExits(p) PROVE RegistryExact'
  BY <1>24 DEF DescendantExits
<1>25. ASSUME NEW s \in Shutters, NEW p \in Procs, SendTerminate(s, p) PROVE RegistryExact'
  BY <1>25 DEF SendTerminate, Send, Listening
<1>26. ASSUME NEW s \in Shutters, Snapshot(s) PROVE RegistryExact'
  BY <1>26 DEF Snapshot
<1>27. ASSUME NEW s \in Shutters, SentAll(s) PROVE RegistryExact'
  BY <1>27 DEF SentAll
<1>28. ASSUME NEW s \in Shutters, Arm(s) PROVE RegistryExact'
  BY <1>28 DEF Arm
<1>29. ASSUME NEW s \in Shutters, CheckRegistry(s) PROVE RegistryExact'
  BY <1>29 DEF CheckRegistry
<1>30. ASSUME NEW s \in Shutters, Sleep(s) PROVE RegistryExact'
  BY <1>30 DEF Sleep
<1>31. ASSUME NEW s \in Shutters, Wake(s) PROVE RegistryExact'
  BY <1>31 DEF Wake
<1>32. ASSUME NEW s \in Shutters, ShutdownTimeout(s) PROVE RegistryExact'
  BY <1>32 DEF ShutdownTimeout
<1>33. CASE DropSupervisor
  BY <1>33 DEF DropSupervisor
<1>34. CASE UNCHANGED vars
  BY <1>34 DEF vars
<1>35. QED
  BY <1>1, <1>2, <1>3, <1>4, <1>5, <1>6, <1>7, <1>8, <1>9, <1>10, <1>11, <1>12, <1>13, <1>14, <1>15, <1>16, <1>17, <1>18, <1>19, <1>20, <1>21, <1>22, <1>23, <1>24, <1>25, <1>26, <1>27, <1>28, <1>29, <1>30, <1>31, <1>32, <1>33, <1>34
  DEF Next, SpawnCall, HandleCall, Task, System, ShutdownCall

(* The task of one child keeps its shape whatever the others do.           *)
LEMMA ChildStep ==
  ASSUME TypeOK, NEW q \in Procs, ChildShape(q), [Next]_vars
  PROVE  ChildShape(q)'
<1> USE DEF TypeOK, ChildShape, Phase, Outcome, Request, Signal, Handle
<1>1. ASSUME NEW p \in Procs, SpawnProcess(p) PROVE ChildShape(q)'
  BY <1>1 DEF SpawnProcess
<1>2. ASSUME NEW p \in Procs, SpawnFails(p) PROVE ChildShape(q)'
  BY <1>2 DEF SpawnFails
<1>3. ASSUME NEW p \in Procs, AttachFails(p) PROVE ChildShape(q)'
  BY <1>3 DEF AttachFails
<1>4. ASSUME NEW p \in Procs, Register(p) PROVE ChildShape(q)'
  BY <1>4 DEF Register
<1>5. ASSUME NEW p \in Procs, Cancel(p) PROVE ChildShape(q)'
  BY <1>5 DEF Cancel, Send, Listening
<1>6. ASSUME NEW p \in Procs, Wait(p) PROVE ChildShape(q)'
  BY <1>6 DEF Wait
<1>7. ASSUME NEW p \in Procs, WaitForwarding(p) PROVE ChildShape(q)'
  BY <1>7 DEF WaitForwarding
<1>8. ASSUME NEW p \in Procs, ForwardInterrupt(p) PROVE ChildShape(q)'
  BY <1>8 DEF ForwardInterrupt, Send, Listening
<1>9. ASSUME NEW p \in Procs, Receive(p) PROVE ChildShape(q)'
  BY <1>9 DEF Receive
<1>10. ASSUME NEW p \in Procs, DropHandle(p) PROVE ChildShape(q)'
  BY <1>10 DEF DropHandle, Send, Listening
<1>11. ASSUME NEW p \in Procs, AbandonWait(p) PROVE ChildShape(q)'
  BY <1>11 DEF AbandonWait
<1>12. ASSUME NEW p \in Procs, TakeRequest(p) PROVE ChildShape(q)'
  BY <1>12 DEF TakeRequest, Advance
<1>13. ASSUME NEW p \in Procs, ChannelClosed(p) PROVE ChildShape(q)'
  BY <1>13 DEF ChannelClosed, Advance
<1>14. ASSUME NEW p \in Procs, GraceExpires(p) PROVE ChildShape(q)'
  BY <1>14 DEF GraceExpires, Advance
<1>15. ASSUME NEW p \in Procs, Reap(p) PROVE ChildShape(q)'
  BY <1>15 DEF Reap
<1>16. ASSUME NEW p \in Procs, DropTree(p) PROVE ChildShape(q)'
  BY <1>16 DEF DropTree, Advance
<1>17. ASSUME NEW p \in Procs, JoinOutput(p) PROVE ChildShape(q)'
  BY <1>17 DEF JoinOutput, Advance
<1>18. ASSUME NEW p \in Procs, RemoveChild(p) PROVE ChildShape(q)'
  BY <1>18 DEF RemoveChild, Advance
<1>19. ASSUME NEW p \in Procs, Complete(p) PROVE ChildShape(q)'
  BY <1>19 DEF Complete, Advance
<1>20. ASSUME NEW p \in Procs, TaskFails(p) PROVE ChildShape(q)'
  BY <1>20 DEF TaskFails
<1>21. ASSUME NEW p \in Procs, Exit(p) PROVE ChildShape(q)'
  BY <1>21 DEF Exit
<1>22. ASSUME NEW p \in Procs, Fork(p) PROVE ChildShape(q)'
  BY <1>22 DEF Fork
<1>23. ASSUME NEW p \in Procs, Escape(p) PROVE ChildShape(q)'
  BY <1>23 DEF Escape
<1>24. ASSUME NEW p \in Procs, DescendantExits(p) PROVE ChildShape(q)'
  BY <1>24 DEF DescendantExits
<1>25. ASSUME NEW s \in Shutters, NEW p \in Procs, SendTerminate(s, p) PROVE ChildShape(q)'
  BY <1>25 DEF SendTerminate, Send, Listening
<1>26. ASSUME NEW s \in Shutters, Snapshot(s) PROVE ChildShape(q)'
  BY <1>26 DEF Snapshot
<1>27. ASSUME NEW s \in Shutters, SentAll(s) PROVE ChildShape(q)'
  BY <1>27 DEF SentAll
<1>28. ASSUME NEW s \in Shutters, Arm(s) PROVE ChildShape(q)'
  BY <1>28 DEF Arm
<1>29. ASSUME NEW s \in Shutters, CheckRegistry(s) PROVE ChildShape(q)'
  BY <1>29 DEF CheckRegistry
<1>30. ASSUME NEW s \in Shutters, Sleep(s) PROVE ChildShape(q)'
  BY <1>30 DEF Sleep
<1>31. ASSUME NEW s \in Shutters, Wake(s) PROVE ChildShape(q)'
  BY <1>31 DEF Wake
<1>32. ASSUME NEW s \in Shutters, ShutdownTimeout(s) PROVE ChildShape(q)'
  BY <1>32 DEF ShutdownTimeout
<1>33. CASE DropSupervisor
  BY <1>33 DEF DropSupervisor
<1>34. CASE UNCHANGED vars
  BY <1>34 DEF vars
<1>35. QED
  BY <1>1, <1>2, <1>3, <1>4, <1>5, <1>6, <1>7, <1>8, <1>9, <1>10, <1>11, <1>12, <1>13, <1>14, <1>15, <1>16, <1>17, <1>18, <1>19, <1>20, <1>21, <1>22, <1>23, <1>24, <1>25, <1>26, <1>27, <1>28, <1>29, <1>30, <1>31, <1>32, <1>33, <1>34
  DEF Next, SpawnCall, HandleCall, Task, System, ShutdownCall

(* A shutdown keeps its shape: this is where a lost wakeup would show.     *)
LEMMA ShutStep ==
  ASSUME TypeOK, RegistryExact, NEW t \in Shutters, ShutShape(t), [Next]_vars
  PROVE  ShutShape(t)'
<1> USE DEF TypeOK, RegistryExact, ShutShape
<1>1. ASSUME NEW p \in Procs, SpawnProcess(p) PROVE ShutShape(t)'
  BY <1>1 DEF SpawnProcess
<1>2. ASSUME NEW p \in Procs, SpawnFails(p) PROVE ShutShape(t)'
  BY <1>2 DEF SpawnFails
<1>3. ASSUME NEW p \in Procs, AttachFails(p) PROVE ShutShape(t)'
  BY <1>3 DEF AttachFails
<1>4. ASSUME NEW p \in Procs, Register(p) PROVE ShutShape(t)'
  BY <1>4 DEF Register
<1>5. ASSUME NEW p \in Procs, Cancel(p) PROVE ShutShape(t)'
  BY <1>5 DEF Cancel, Send, Listening
<1>6. ASSUME NEW p \in Procs, Wait(p) PROVE ShutShape(t)'
  BY <1>6 DEF Wait
<1>7. ASSUME NEW p \in Procs, WaitForwarding(p) PROVE ShutShape(t)'
  BY <1>7 DEF WaitForwarding
<1>8. ASSUME NEW p \in Procs, ForwardInterrupt(p) PROVE ShutShape(t)'
  BY <1>8 DEF ForwardInterrupt, Send, Listening
<1>9. ASSUME NEW p \in Procs, Receive(p) PROVE ShutShape(t)'
  BY <1>9 DEF Receive
<1>10. ASSUME NEW p \in Procs, DropHandle(p) PROVE ShutShape(t)'
  BY <1>10 DEF DropHandle, Send, Listening
<1>11. ASSUME NEW p \in Procs, AbandonWait(p) PROVE ShutShape(t)'
  BY <1>11 DEF AbandonWait
<1>12. ASSUME NEW p \in Procs, TakeRequest(p) PROVE ShutShape(t)'
  BY <1>12 DEF TakeRequest, Advance
<1>13. ASSUME NEW p \in Procs, ChannelClosed(p) PROVE ShutShape(t)'
  BY <1>13 DEF ChannelClosed, Advance
<1>14. ASSUME NEW p \in Procs, GraceExpires(p) PROVE ShutShape(t)'
  BY <1>14 DEF GraceExpires, Advance
<1>15. ASSUME NEW p \in Procs, Reap(p) PROVE ShutShape(t)'
  BY <1>15 DEF Reap
<1>16. ASSUME NEW p \in Procs, DropTree(p) PROVE ShutShape(t)'
  BY <1>16 DEF DropTree, Advance
<1>17. ASSUME NEW p \in Procs, JoinOutput(p) PROVE ShutShape(t)'
  BY <1>17 DEF JoinOutput, Advance
<1>18. ASSUME NEW p \in Procs, RemoveChild(p) PROVE ShutShape(t)'
  BY <1>18 DEF RemoveChild, Advance
<1>19. ASSUME NEW p \in Procs, Complete(p) PROVE ShutShape(t)'
  BY <1>19 DEF Complete, Advance
<1>20. ASSUME NEW p \in Procs, TaskFails(p) PROVE ShutShape(t)'
  BY <1>20 DEF TaskFails
<1>21. ASSUME NEW p \in Procs, Exit(p) PROVE ShutShape(t)'
  BY <1>21 DEF Exit
<1>22. ASSUME NEW p \in Procs, Fork(p) PROVE ShutShape(t)'
  BY <1>22 DEF Fork
<1>23. ASSUME NEW p \in Procs, Escape(p) PROVE ShutShape(t)'
  BY <1>23 DEF Escape
<1>24. ASSUME NEW p \in Procs, DescendantExits(p) PROVE ShutShape(t)'
  BY <1>24 DEF DescendantExits
<1>25. ASSUME NEW s \in Shutters, NEW p \in Procs, SendTerminate(s, p) PROVE ShutShape(t)'
  BY <1>25 DEF SendTerminate, Send, Listening
<1>26. ASSUME NEW s \in Shutters, Snapshot(s) PROVE ShutShape(t)'
  BY <1>26 DEF Snapshot
<1>27. ASSUME NEW s \in Shutters, SentAll(s) PROVE ShutShape(t)'
  BY <1>27 DEF SentAll
<1>28. ASSUME NEW s \in Shutters, Arm(s) PROVE ShutShape(t)'
  BY <1>28 DEF Arm
<1>29. ASSUME NEW s \in Shutters, CheckRegistry(s) PROVE ShutShape(t)'
  BY <1>29 DEF CheckRegistry
<1>30. ASSUME NEW s \in Shutters, Sleep(s) PROVE ShutShape(t)'
  BY <1>30 DEF Sleep
<1>31. ASSUME NEW s \in Shutters, Wake(s) PROVE ShutShape(t)'
  BY <1>31 DEF Wake
<1>32. ASSUME NEW s \in Shutters, ShutdownTimeout(s) PROVE ShutShape(t)'
  BY <1>32 DEF ShutdownTimeout
<1>33. CASE DropSupervisor
  BY <1>33 DEF DropSupervisor
<1>34. CASE UNCHANGED vars
  BY <1>34 DEF vars
<1>35. QED
  BY <1>1, <1>2, <1>3, <1>4, <1>5, <1>6, <1>7, <1>8, <1>9, <1>10, <1>11, <1>12, <1>13, <1>14, <1>15, <1>16, <1>17, <1>18, <1>19, <1>20, <1>21, <1>22, <1>23, <1>24, <1>25, <1>26, <1>27, <1>28, <1>29, <1>30, <1>31, <1>32, <1>33, <1>34
  DEF Next, SpawnCall, HandleCall, Task, System, ShutdownCall

(* IInv holds in every reachable state.                                    *)
THEOREM Invariance == Spec => []IInv
<1>1. IInv /\ [Next]_vars => IInv'
  <2> SUFFICES ASSUME IInv, [Next]_vars PROVE IInv'
    OBVIOUS
  <2>1. TypeOK'
    BY TypeStep DEF IInv
  <2>2. RegistryExact'
    BY RegistryStep DEF IInv
  <2>3. \A p \in Procs : ChildShape(p)'
    BY ChildStep DEF IInv
  <2>4. \A s \in Shutters : ShutShape(s)'
    BY ShutStep DEF IInv
  <2>5. QED
    BY <2>1, <2>2, <2>3, <2>4 DEF IInv
<1>2. QED
  BY InitIInv, <1>1, PTL DEF Spec

(* Every reachable state is well typed.                                    *)
THEOREM TypeCorrect == Spec => []TypeOK
<1>1. IInv => TypeOK
  BY DEF IInv
<1>2. QED
  BY Invariance, <1>1, PTL

(* No wakeup of a shutdown is lost.                                        *)
THEOREM NoWakeupIsLost == Spec => []NoLostWakeup
<1>1. IInv => NoLostWakeup
  BY DEF IInv, ShutShape, NoLostWakeup
<1>2. QED
  BY Invariance, <1>1, PTL

(* A caller that has its result owns no live process tree.                 *)
THEOREM TreeGoneAtResult == Spec => []ResultMeansTreeGone
<1>1. IInv => ResultMeansTreeGone
  BY DEF IInv, TypeOK, RegistryExact, ChildShape, ResultMeansTreeGone, Outcome
<1>2. QED
  BY Invariance, <1>1, PTL

(* The cancelled flag tells the truth.                                     *)
THEOREM CancelledFlagIsTrue == Spec => []CancelledMeansSignalled
<1>1. IInv => CancelledMeansSignalled
  BY DEF IInv, ChildShape, CancelledMeansSignalled
<1>2. QED
  BY Invariance, <1>1, PTL

(* Dropping a handle requests cleanup.                                     *)
THEOREM DropCleansUp == Spec => []DropRequestsCleanup
<1>1. IInv => DropRequestsCleanup
  BY DEF IInv, ChildShape, DropRequestsCleanup
<1>2. QED
  BY Invariance, <1>1, PTL

(* Shutdown returns Ok only when everything it asked to stop has left.     *)
THEOREM OkStopsTargets == Spec => []ShutdownStopsItsTargets
<1>1. IInv => ShutdownStopsItsTargets
  BY DEF IInv, ShutShape, ShutdownStopsItsTargets
<1>2. QED
  BY Invariance, <1>1, PTL
(* Shutdown turns to Ok only in a state in which no child is supervised.   *)
THEOREM OkMeansDrained == Spec => OkOnlyWhenDrained
<1> DEFINE Drained == \A s \in Shutters : shut'[s] = "ok" /\ shut[s] # "ok" =>
                         \A p \in Procs : phase[p] \notin Supervised
<1>1. ASSUME IInv, [Next]_vars PROVE Drained
  <2> USE <1>1 DEF IInv, TypeOK, RegistryExact, ShutShape
  <2>1. ASSUME NEW p \in Procs, SpawnCall(p) \/ HandleCall(p) \/ Task(p) \/ TaskFails(p)
                                 \/ System(p)
        PROVE  shut' = shut
    BY <2>1 DEF SpawnCall, SpawnProcess, SpawnFails, AttachFails, Register,
       HandleCall, Cancel, Wait, WaitForwarding, ForwardInterrupt, Receive,
       DropHandle, AbandonWait, Task, TakeRequest, ChannelClosed, GraceExpires,
       Reap, DropTree, JoinOutput, RemoveChild, Complete, TaskFails,
       System, Exit, Fork, Escape, DescendantExits
  <2>2. ASSUME NEW s \in Shutters, CheckRegistry(s) PROVE Drained
    <3>1. live
      BY <2>2 DEF CheckRegistry
    <3>2. QED
      BY <2>2, <3>1 DEF CheckRegistry
  <2>3. ASSUME NEW s \in Shutters, Snapshot(s) \/ (\E p \in Procs : SendTerminate(s, p))
                 \/ SentAll(s) \/ Arm(s) \/ Sleep(s) \/ Wake(s) \/ ShutdownTimeout(s)
        PROVE  Drained
    BY <2>3 DEF Snapshot, SendTerminate, SentAll, Arm, Sleep, Wake, ShutdownTimeout
  <2>4. CASE DropSupervisor \/ UNCHANGED vars
    BY <2>4 DEF DropSupervisor, vars
  <2>5. QED
    BY <2>1, <2>2, <2>3, <2>4 DEF Next, ShutdownCall
<1>2. QED
  BY Invariance, <1>1, PTL DEF Spec, OkOnlyWhenDrained

(* No running child is force-killed before it was sent a signal.           *)
THEOREM SignalBeforeKill == Spec => KillOnlyAfterSignal
<1> DEFINE Asked == \A p \in Procs : direct[p] = "running" /\ killed'[p] /\ ~ killed[p] =>
                       signalled[p] # "none" \/ result'[p] = "error"
<1>1. ASSUME IInv, [Next]_vars PROVE Asked
  <2> USE <1>1 DEF IInv, TypeOK, ChildShape
  <2>1. ASSUME NEW p \in Procs, SpawnCall(p) \/ HandleCall(p) \/ System(p)
        PROVE  killed' = killed
    BY <2>1 DEF SpawnCall, SpawnProcess, SpawnFails, AttachFails, Register,
       HandleCall, Cancel, Wait, WaitForwarding, ForwardInterrupt, Receive,
       DropHandle, AbandonWait, System, Exit, Fork, Escape, DescendantExits
  <2>2. ASSUME NEW p \in Procs, GraceExpires(p) \/ DropTree(p) \/ TaskFails(p)
        PROVE  Asked
    BY <2>2 DEF GraceExpires, DropTree, TaskFails, Advance
  <2>3. ASSUME NEW p \in Procs, Task(p), ~ GraceExpires(p), ~ DropTree(p)
        PROVE  killed' = killed
    BY <2>3 DEF Task, TakeRequest, ChannelClosed, Reap, JoinOutput, RemoveChild, Complete
  <2>4. ASSUME NEW s \in Shutters, Snapshot(s) \/ ShutdownCall(s)
        PROVE  killed' = killed
    BY <2>4 DEF Snapshot, ShutdownCall, SendTerminate, SentAll, Arm, CheckRegistry,
       Sleep, Wake, ShutdownTimeout
  <2>5. CASE DropSupervisor \/ UNCHANGED vars
    BY <2>5 DEF DropSupervisor, vars
  <2>6. QED
    BY <2>1, <2>2, <2>3, <2>4, <2>5 DEF Next
<1>2. QED
  BY Invariance, <1>1, PTL DEF Spec, KillOnlyAfterSignal
(* The supervisor implements ChildLifecycle: registration starts a child,  *)
(* a send that is heard asks it, leaving the registry is its end, a look   *)
(* at the empty registry is a success; every other step stutters.          *)
THEOREM Refinement == Spec => ImplementsLifecycle
<1> DEFINE life    == [p \in Procs |-> Life(p)]
           asked   == {p \in Procs : request[p] # "none"}
           outcome == [p \in Procs |-> IF phase[p] \in Departed THEN result[p] ELSE "none"]
           stopped == {s \in Shutters : shut[s] = "ok"}
<1>1. Init => Lifecycle!Init
  BY DEF Init, Lifecycle!Init, Life
<1>2. ASSUME IInv, [Next]_vars PROVE [Lifecycle!Next]_(Lifecycle!lifeVars)
  <2> USE <1>2 DEF IInv, TypeOK
  <2>1. ASSUME NEW p \in Procs, Register(p) PROVE Lifecycle!Start(p)
    BY <2>1 DEF Register, Lifecycle!Start, Life
  <2>2. ASSUME NEW p \in Procs, NEW signal \in Signal, Send(p, signal),
               UNCHANGED <<phase, result>>, stopped' = stopped
        PROVE  Lifecycle!Ask(p) \/ UNCHANGED Lifecycle!lifeVars
    <3>1. life' = life /\ outcome' = outcome
      BY <2>2 DEF Life
    <3>2. CASE Listening(p)
      <4>1. asked' = asked \union {p}
        BY <2>2, <3>2 DEF Send, Listening, Signal, Request
      <4>2. life[p] = "active"
        BY <3>2 DEF Listening, Life
      <4>3. QED
        BY <2>2, <3>1, <4>1, <4>2 DEF Lifecycle!Ask
    <3>3. CASE ~ Listening(p)
      BY <2>2, <3>1, <3>3 DEF Send, Lifecycle!lifeVars
    <3>4. QED
      BY <3>2, <3>3
  <2>3. ASSUME NEW p \in Procs, Cancel(p) \/ ForwardInterrupt(p) \/ DropHandle(p)
        PROVE  Lifecycle!Ask(p) \/ UNCHANGED Lifecycle!lifeVars
    BY <2>2, <2>3 DEF Cancel, ForwardInterrupt, DropHandle, Signal
  <2>4. ASSUME NEW s \in Shutters, NEW p \in Procs, SendTerminate(s, p)
        PROVE  Lifecycle!Ask(p) \/ UNCHANGED Lifecycle!lifeVars
    BY <2>2, <2>4 DEF SendTerminate, Signal
  <2>5. ASSUME NEW p \in Procs, RemoveChild(p) PROVE Lifecycle!Leave(p)
    <3>1. life[p] = "active" /\ life' = [life EXCEPT ![p] = "gone"]
      BY <2>5 DEF RemoveChild, Advance, Life
    <3>2. /\ result[p] \in {"exited", "cancelled", "error"}
          /\ result[p] = "cancelled" => p \in asked
      BY <2>5 DEF RemoveChild, Advance, ChildShape, Outcome
    <3>3. outcome' = [outcome EXCEPT ![p] = result[p]]
      BY <2>5 DEF RemoveChild, Advance
    <3>4. asked' = asked /\ stopped' = stopped
      BY <2>5 DEF RemoveChild
    <3>5. QED
      BY <3>1, <3>2, <3>3, <3>4 DEF Lifecycle!Leave
  <2>6. ASSUME NEW s \in Shutters, CheckRegistry(s)
        PROVE  Lifecycle!Succeed(s) \/ UNCHANGED Lifecycle!lifeVars
    <3>1. life' = life /\ asked' = asked /\ outcome' = outcome
      BY <2>6 DEF CheckRegistry, Life
    <3>2. CASE registry = {}
      <4>1. \A p \in Procs : life[p] # "active"
        <5>1. live
          BY <2>6 DEF CheckRegistry, ShutShape
        <5>2. QED
          BY <3>2, <5>1 DEF RegistryExact, Life
      <4>2. s \notin stopped /\ stopped' = stopped \union {s}
        BY <2>6, <3>2 DEF CheckRegistry
      <4>3. QED
        BY <3>1, <4>1, <4>2 DEF Lifecycle!Succeed
    <3>3. CASE registry # {}
      <4>1. stopped' = stopped
        BY <2>6, <3>3 DEF CheckRegistry
      <4>2. QED
        BY <3>1, <4>1 DEF Lifecycle!lifeVars
    <3>4. QED
      BY <3>2, <3>3
  <2>7. ASSUME NEW p \in Procs,
               \/ SpawnProcess(p) \/ SpawnFails(p) \/ AttachFails(p)
               \/ Wait(p) \/ WaitForwarding(p) \/ Receive(p) \/ AbandonWait(p)
               \/ System(p)
        PROVE  UNCHANGED Lifecycle!lifeVars
    BY <2>7 DEF SpawnProcess, SpawnFails, AttachFails, Wait, WaitForwarding,
       Receive, AbandonWait, System, Exit, Fork, Escape, DescendantExits,
       Lifecycle!lifeVars, Life
  <2>8. ASSUME NEW p \in Procs,
               \/ TakeRequest(p) \/ ChannelClosed(p) \/ GraceExpires(p) \/ Reap(p)
               \/ DropTree(p) \/ JoinOutput(p) \/ Complete(p) \/ TaskFails(p)
        PROVE  UNCHANGED Lifecycle!lifeVars
    <3>1. stopped' = stopped /\ asked' = asked
      BY <2>8 DEF TakeRequest, ChannelClosed, GraceExpires, Reap, DropTree,
         JoinOutput, Complete, TaskFails, Advance
    <3>2. life' = life
      BY <2>8 DEF TakeRequest, ChannelClosed, GraceExpires, Reap, DropTree,
         JoinOutput, Complete, TaskFails, Advance, Life
    <3>3. outcome' = outcome
      BY <2>8 DEF TakeRequest, ChannelClosed, GraceExpires, Reap, DropTree,
         JoinOutput, Complete, TaskFails, Advance
    <3>4. QED
      BY <3>1, <3>2, <3>3 DEF Lifecycle!lifeVars
  <2>9. ASSUME NEW s \in Shutters,
               \/ Snapshot(s) \/ SentAll(s) \/ Arm(s) \/ Sleep(s) \/ Wake(s)
               \/ ShutdownTimeout(s)
        PROVE  UNCHANGED Lifecycle!lifeVars
    BY <2>9 DEF Snapshot, SentAll, Arm, Sleep, Wake, ShutdownTimeout,
       Lifecycle!lifeVars, Life
  <2>10. CASE DropSupervisor \/ UNCHANGED vars
    BY <2>10 DEF DropSupervisor, vars, Lifecycle!lifeVars, Life
  <2>11. QED
    BY <2>1, <2>3, <2>4, <2>5, <2>6, <2>7, <2>8, <2>9, <2>10
    DEF Next, SpawnCall, HandleCall, Task, ShutdownCall, Lifecycle!Next
<1>3. QED
  BY <1>1, <1>2, Invariance, PTL DEF Spec, ImplementsLifecycle, Lifecycle!Spec

=============================================================================
