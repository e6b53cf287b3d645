---------------------------- MODULE AppDev_proofs ----------------------------
(***************************************************************************)
(* Theorems about AppDev, for any processes, options and number of edits:  *)
(* what is previewed agrees everywhere while the loop is idle, and nothing *)
(* that app dev started is left when it has returned.                      *)
(***************************************************************************)
EXTENDS AppDev, TLAPS

USE AppDevAssumption, TunnelAssumption DEF Versions, Remote, Preparing, Looping, Leaving

(* Every step keeps the types.                                             *)
LEMMA TypeStep ==
  ASSUME AppDevTypeOK, [Next]_vars
  PROVE  AppDevTypeOK'
<1> USE DEF graphiqlVars, AppDevTypeOK, TunnelTypeOK, ProxyTypeOK
<1>1. ASSUME Prepare PROVE AppDevTypeOK'
  BY <1>1 DEF Prepare, Goto, project, servers, tunnelVars, proxyVars
<1>2. ASSUME PrepareFails PROVE AppDevTypeOK'
  BY <1>2 DEF PrepareFails, Return, AskAll, Active, DropProxy, project, hand
<1>3. ASSUME RunMkcert PROVE AppDevTypeOK'
  BY <1>3 DEF RunMkcert, Spawn, tasks, project, hand, proxyVars
<1>4. ASSUME MkcertDone PROVE AppDevTypeOK'
  BY <1>4 DEF MkcertDone, Goto, tasks, project, hand, proxyVars
<1>5. ASSUME MkcertFails PROVE AppDevTypeOK'
  BY <1>5 DEF MkcertFails, Return, AskAll, Active, DropProxy, project, hand
<1>6. ASSUME StartTls PROVE AppDevTypeOK'
  BY <1>6 DEF StartTls, StartProxy, Goto, tasks, project, hand, tunnelVars
<1>7. ASSUME TlsFails PROVE AppDevTypeOK'
  BY <1>7 DEF TlsFails, Return, AskAll, Active, DropProxy, project, hand
<1>8. ASSUME StartPreview PROVE AppDevTypeOK'
  BY <1>8 DEF StartPreview, Spawn, Goto, tasks, project, hand, proxyVars
<1>9. ASSUME Tunnelling PROVE AppDevTypeOK'
  BY <1>9 DEF Tunnelling, Starting, StartTunnel, SpawnProvider, Spawn, SpawnProviderFails, UrlRead, NotReady, Reconnect, tasks, project, hand, proxyVars
<1>10. ASSUME TunnelStarted PROVE AppDevTypeOK'
  BY <1>10 DEF TunnelStarted, Goto, Calm, tasks, project, hand, servers, tunnelVars, proxyVars
<1>11. ASSUME TunnelFails PROVE AppDevTypeOK'
  BY <1>11 DEF TunnelFails, Return, AskAll, Active, DropProxy, project, hand
<1>12. ASSUME MakeManifest PROVE AppDevTypeOK'
  BY <1>12 DEF MakeManifest, Goto, Calm, tasks, project, hand, servers, tunnelVars, proxyVars
<1>13. ASSUME StopFailed PROVE AppDevTypeOK'
  BY <1>13 DEF StopFailed, Calm, tasks, project, hand, servers, tunnelVars, proxyVars
<1>14. ASSUME Upload PROVE AppDevTypeOK'
  BY <1>14 DEF Upload, Goto, tasks, project, servers, tunnelVars, proxyVars
<1>15. ASSUME CreateSession PROVE AppDevTypeOK'
<2>1. remote.manifest \in Versions /\ remote.source \in Versions /\ manifest \in Versions /\ bundle \in Versions
  BY <1>15 DEF CreateSession
<2>2. remote' \in Remote
  BY <1>15 DEF CreateSession
<2>. QED
  BY <1>15, <2>1, <2>2 DEF CreateSession, Goto, tasks, project, hand, servers, tunnelVars, proxyVars
<1>16. ASSUME CreateFails PROVE AppDevTypeOK'
<2>1. remote.manifest \in Versions /\ remote.source \in Versions /\ manifest \in Versions /\ bundle \in Versions
  BY <1>16 DEF CreateFails
<2>2. remote' \in Remote
  BY <1>16 DEF CreateFails
<2>. QED
  BY <1>16, <2>1, <2>2 DEF CreateFails, Abort, tasks, project, hand, servers, tunnelVars, proxyVars
<1>17. ASSUME Initialize PROVE AppDevTypeOK'
  BY <1>17 DEF Initialize, Goto, tasks, project, hand, servers, tunnelVars, proxyVars
<1>18. ASSUME InitializeFails PROVE AppDevTypeOK'
  BY <1>18 DEF InitializeFails, Abort, tasks, project, hand, servers, tunnelVars, proxyVars
<1>19. ASSUME RecordState PROVE AppDevTypeOK'
  BY <1>19 DEF RecordState, Goto, tasks, project, hand, servers, tunnelVars, proxyVars
<1>20. ASSUME RecordManifest PROVE AppDevTypeOK'
  BY <1>20 DEF RecordManifest, Goto, project, hand, servers, tunnelVars, proxyVars
<1>21. ASSUME AbortPersist PROVE AppDevTypeOK'
  BY <1>21 DEF AbortPersist, Abort, Calm, tasks, project, hand, servers, tunnelVars, proxyVars
<1>22. ASSUME StartLocal PROVE AppDevTypeOK'
  BY <1>22 DEF StartLocal, Spawn, Goto, project, hand, proxyVars
<1>23. ASSUME Announce PROVE AppDevTypeOK'
  BY <1>23 DEF Announce, Goto, Calm, tasks, project, hand, servers, tunnelVars, proxyVars
<1>24. ASSUME AnnounceFails PROVE AppDevTypeOK'
  BY <1>24 DEF AnnounceFails, Return, AskAll, Active, DropProxy, project, hand
<1>25. ASSUME Watch PROVE AppDevTypeOK'
  BY <1>25 DEF Watch, Goto, project, hand, servers, tunnelVars, proxyVars
<1>26. ASSUME WatchFails PROVE AppDevTypeOK'
  BY <1>26 DEF WatchFails, Quit, Shut, AskAll, Active, tasks, project, hand, proxyVars
<1>27. ASSUME DashboardClosed PROVE AppDevTypeOK'
  BY <1>27 DEF DashboardClosed, Quit, Shut, AskAll, Active, tasks, project, hand, proxyVars
<1>28. ASSUME DashboardFailed PROVE AppDevTypeOK'
  BY <1>28 DEF DashboardFailed, Quit, Shut, AskAll, Active, tasks, project, hand, proxyVars
<1>29. ASSUME LocalArm PROVE AppDevTypeOK'
  BY <1>29 DEF LocalArm, Quit, Shut, AskAll, Active, tasks, project, hand, proxyVars
<1>30. ASSUME GraphiqlArm PROVE AppDevTypeOK'
  BY <1>30 DEF GraphiqlArm, Quit, Shut, AskAll, Active, tasks, project, hand, proxyVars
<1>31. ASSUME ThemeArm PROVE AppDevTypeOK'
  BY <1>31 DEF ThemeArm, Quit, Shut, AskAll, Active, tasks, project, hand, proxyVars
<1>32. ASSUME ChangeArm PROVE AppDevTypeOK'
<2>1. event' \in BOOLEAN
  BY <1>32 DEF ChangeArm
<2>. QED
  BY <1>32, <2>1 DEF ChangeArm, Goto, tasks, hand, servers, tunnelVars, proxyVars
<1>33. ASSUME Reload PROVE AppDevTypeOK'
  BY <1>33 DEF Reload, Goto, tasks, project, servers, tunnelVars, proxyVars
<1>34. ASSUME UpdateSession PROVE AppDevTypeOK'
<2>1. remote.manifest \in Versions /\ remote.source \in Versions /\ manifest \in Versions /\ bundle \in Versions
  BY <1>34 DEF UpdateSession
<2>2. remote' \in Remote
  BY <1>34 DEF UpdateSession
<2>. QED
  BY <1>34, <2>1, <2>2 DEF UpdateSession, Goto, tasks, project, hand, servers, tunnelVars, proxyVars
<1>35. ASSUME UpdateFails PROVE AppDevTypeOK'
<2>1. remote.manifest \in Versions /\ remote.source \in Versions /\ manifest \in Versions /\ bundle \in Versions
  BY <1>35 DEF UpdateFails
<2>2. remote' \in Remote
  BY <1>35 DEF UpdateFails
<2>. QED
  BY <1>35, <2>1, <2>2 DEF UpdateFails, Shut, AskAll, Active, tasks, project, hand, proxyVars
<1>36. ASSUME Notify PROVE AppDevTypeOK'
  BY <1>36 DEF Notify, Goto, tasks, hand, servers, tunnelVars, proxyVars
<1>37. ASSUME ChangeFails PROVE AppDevTypeOK'
  BY <1>37 DEF ChangeFails, Quit, Shut, AskAll, Active, tasks, project, hand, proxyVars
<1>38. ASSUME Quitted PROVE AppDevTypeOK'
  BY <1>38 DEF Quitted, Goto, Calm, tasks, project, hand, servers, tunnelVars, proxyVars
<1>39. ASSUME CloseServers PROVE AppDevTypeOK'
  BY <1>39 DEF CloseServers, StopProxy, Goto, tasks, project, hand, tunnelVars
<1>40. ASSUME ServersClosed PROVE AppDevTypeOK'
  BY <1>40 DEF ServersClosed, Goto, Calm, tasks, project, hand, servers, tunnelVars, proxyVars
<1>41. ASSUME DeleteSession PROVE AppDevTypeOK'
  BY <1>41 DEF DeleteSession, tasks, project, hand, servers, tunnelVars, proxyVars
<1>42. ASSUME StopLast PROVE AppDevTypeOK'
  BY <1>42 DEF StopLast, StopTunnel, AskAll, Active, tasks, project, hand, proxyVars
<1>43. ASSUME End PROVE AppDevTypeOK'
  BY <1>43 DEF End, Return, AskAll, Active, DropProxy, project, hand
<1>44. ASSUME SignalShutdown PROVE AppDevTypeOK'
  BY <1>44 DEF SignalShutdown, AskAll, Active, project, hand, proxyVars
<1>45. ASSUME LocalShutsDown PROVE AppDevTypeOK'
  BY <1>45 DEF LocalShutsDown, AskAll, Active, project, hand, proxyVars
<1>46. ASSUME LocalStopped PROVE AppDevTypeOK'
  BY <1>46 DEF LocalStopped, project, hand, servers, tunnelVars, proxyVars
<1>47. ASSUME NEW how \in {"cancelled", "error"}, GraphiqlStops(how) PROVE AppDevTypeOK'
  BY <1>47 DEF GraphiqlStops, project, hand, servers, tunnelVars, proxyVars
<1>48. ASSUME DashboardEnds PROVE AppDevTypeOK'
  BY <1>48 DEF DashboardEnds, project, hand, servers, tunnelVars, proxyVars
<1>49. ASSUME ProxyTask PROVE AppDevTypeOK'
  BY <1>49 DEF ProxyTask, ProxyStops, tasks, project, hand, tunnelVars
<1>50. ASSUME CtrlC PROVE AppDevTypeOK'
  BY <1>50 DEF CtrlC, project, hand, servers, tunnelVars, proxyVars
<1>51. ASSUME KilledByCtrlC PROVE AppDevTypeOK'
  BY <1>51 DEF KilledByCtrlC, Goto, Calm, tasks, project, hand, servers, tunnelVars, proxyVars
<1>52. ASSUME DashboardQuit PROVE AppDevTypeOK'
  BY <1>52 DEF DashboardQuit, tasks, project, hand, servers, tunnelVars, proxyVars
<1>53. ASSUME LocalExits PROVE AppDevTypeOK'
  BY <1>53 DEF LocalExits, project, hand, servers, tunnelVars, proxyVars
<1>54. ASSUME Browse PROVE AppDevTypeOK'
  BY <1>54 DEF Browse, Serving, Accept, Close, AcceptFails, tasks, project, hand, tunnelVars
<1>55. ASSUME Edit PROVE AppDevTypeOK'
<2>1. files' \in Versions
  BY <1>55 DEF Edit
<2>2. noticed' \in Versions
  BY <1>55 DEF Edit
<2>3. event' \in BOOLEAN
  BY <1>55 DEF Edit
<2>. QED
  BY <1>55, <2>1, <2>2, <2>3 DEF Edit, tasks, hand, servers, tunnelVars, proxyVars
<1>56. ASSUME NEW c \in Processes, ProcessExits(c) PROVE AppDevTypeOK'
  BY <1>56 DEF ProcessExits, Exit, Active, tasks, project, hand, proxyVars
<1>57. ASSUME UNCHANGED vars PROVE AppDevTypeOK'
  BY <1>57 DEF vars, tasks, project, hand, servers, tunnelVars, proxyVars
<1>58. ASSUME NEW c \in Clients, GraphiqlAccepts(c) PROVE AppDevTypeOK'
  BY <1>58 DEF GraphiqlAccepts, project, hand, servers, tunnelVars, proxyVars
<1>59. ASSUME NEW c \in Clients, GraphiqlAnswers(c) PROVE AppDevTypeOK'
  BY <1>59 DEF GraphiqlAnswers, project, hand, servers, tunnelVars, proxyVars
<1>60. ASSUME RequestHangs PROVE AppDevTypeOK'
  BY <1>60 DEF RequestHangs, Goto, Calm, tasks, project, hand, servers, tunnelVars, proxyVars
<1>61. QED
    BY <1>1, <1>2, <1>3, <1>4, <1>5, <1>6, <1>7, <1>8, <1>9, <1>10, <1>11, <1>12, <1>13,
     <1>14, <1>15, <1>16, <1>17, <1>18, <1>19, <1>20, <1>21, <1>22, <1>23, <1>24, <1>25,
     <1>26, <1>27, <1>28, <1>29, <1>30, <1>31, <1>32, <1>33, <1>34, <1>35, <1>36, <1>37,
     <1>38, <1>39, <1>40, <1>41, <1>42, <1>43, <1>44, <1>45, <1>46, <1>47, <1>48, <1>49,
     <1>50, <1>51, <1>52, <1>53, <1>54, <1>55, <1>56, <1>57, <1>58, <1>59, <1>60 DEF Next, Starts, Selects, Ends,
     Tasks, Environment

(* Every step brings the store, the files and the archive nearer to        *)
(* agreement, or takes the task out of the loop.                           *)
LEMMA ProgressStep ==
  ASSUME AppDevTypeOK, InStep, Progress, [Next]_vars
  PROVE  InStep' /\ Progress'
<1> USE DEF graphiqlVars, AppDevTypeOK, TunnelTypeOK, ProxyTypeOK, InStep, Progress
<1>1. ASSUME Prepare PROVE InStep' /\ Progress'
  BY <1>1 DEF Prepare, Goto, project, servers, tunnelVars, proxyVars
<1>2. ASSUME PrepareFails PROVE InStep' /\ Progress'
  BY <1>2 DEF PrepareFails, Return, AskAll, Active, DropProxy, project, hand
<1>3. ASSUME RunMkcert PROVE InStep' /\ Progress'
  BY <1>3 DEF RunMkcert, Spawn, tasks, project, hand, proxyVars
<1>4. ASSUME MkcertDone PROVE InStep' /\ Progress'
  BY <1>4 DEF MkcertDone, Goto, tasks, project, hand, proxyVars
<1>5. ASSUME MkcertFails PROVE InStep' /\ Progress'
  BY <1>5 DEF MkcertFails, Return, AskAll, Active, DropProxy, project, hand
<1>6. ASSUME StartTls PROVE InStep' /\ Progress'
  BY <1>6 DEF StartTls, StartProxy, Goto, tasks, project, hand, tunnelVars
<1>7. ASSUME TlsFails PROVE InStep' /\ Progress'
  BY <1>7 DEF TlsFails, Return, AskAll, Active, DropProxy, project, hand
<1>8. ASSUME StartPreview PROVE InStep' /\ Progress'
  BY <1>8 DEF StartPreview, Spawn, Goto, tasks, project, hand, proxyVars
<1>9. ASSUME Tunnelling PROVE InStep' /\ Progress'
  BY <1>9 DEF Tunnelling, Starting, StartTunnel, SpawnProvider, Spawn, SpawnProviderFails, UrlRead, NotReady, Reconnect, tasks, project, hand, proxyVars
<1>10. ASSUME TunnelStarted PROVE InStep' /\ Progress'
  BY <1>10 DEF TunnelStarted, Goto, Calm, tasks, project, hand, servers, tunnelVars, proxyVars
<1>11. ASSUME TunnelFails PROVE InStep' /\ Progress'
  BY <1>11 DEF TunnelFails, Return, AskAll, Active, DropProxy, project, hand
<1>12. ASSUME MakeManifest PROVE InStep' /\ Progress'
  BY <1>12 DEF MakeManifest, Goto, Calm, tasks, project, hand, servers, tunnelVars, proxyVars
<1>13. ASSUME StopFailed PROVE InStep' /\ Progress'
  BY <1>13 DEF StopFailed, Calm, tasks, project, hand, servers, tunnelVars, proxyVars
<1>14. ASSUME Upload PROVE InStep' /\ Progress'
  BY <1>14 DEF Upload, Goto, tasks, project, servers, tunnelVars, proxyVars
<1>15. ASSUME CreateSession PROVE InStep' /\ Progress'
  BY <1>15 DEF CreateSession, Goto, tasks, project, hand, servers, tunnelVars, proxyVars
<1>16. ASSUME CreateFails PROVE InStep' /\ Progress'
  BY <1>16 DEF CreateFails, Abort, tasks, project, hand, servers, tunnelVars, proxyVars
<1>17. ASSUME Initialize PROVE InStep' /\ Progress'
  BY <1>17 DEF Initialize, Goto, tasks, project, hand, servers, tunnelVars, proxyVars
<1>18. ASSUME InitializeFails PROVE InStep' /\ Progress'
  BY <1>18 DEF InitializeFails, Abort, tasks, project, hand, servers, tunnelVars, proxyVars
<1>19. ASSUME RecordState PROVE InStep' /\ Progress'
  BY <1>19 DEF RecordState, Goto, tasks, project, hand, servers, tunnelVars, proxyVars
<1>20. ASSUME RecordManifest PROVE InStep' /\ Progress'
  BY <1>20 DEF RecordManifest, Goto, project, hand, servers, tunnelVars, proxyVars
<1>21. ASSUME AbortPersist PROVE InStep' /\ Progress'
  BY <1>21 DEF AbortPersist, Abort, Calm, tasks, project, hand, servers, tunnelVars, proxyVars
<1>22. ASSUME StartLocal PROVE InStep' /\ Progress'
  BY <1>22 DEF StartLocal, Spawn, Goto, project, hand, proxyVars
<1>23. ASSUME Announce PROVE InStep' /\ Progress'
  BY <1>23 DEF Announce, Goto, Calm, tasks, project, hand, servers, tunnelVars, proxyVars
<1>24. ASSUME AnnounceFails PROVE InStep' /\ Progress'
  BY <1>24 DEF AnnounceFails, Return, AskAll, Active, DropProxy, project, hand
<1>25. ASSUME Watch PROVE InStep' /\ Progress'
  BY <1>25 DEF Watch, Goto, project, hand, servers, tunnelVars, proxyVars
<1>26. ASSUME WatchFails PROVE InStep' /\ Progress'
  BY <1>26 DEF WatchFails, Quit, Shut, AskAll, Active, tasks, project, hand, proxyVars
<1>27. ASSUME DashboardClosed PROVE InStep' /\ Progress'
  BY <1>27 DEF DashboardClosed, Quit, Shut, AskAll, Active, tasks, project, hand, proxyVars
<1>28. ASSUME DashboardFailed PROVE InStep' /\ Progress'
  BY <1>28 DEF DashboardFailed, Quit, Shut, AskAll, Active, tasks, project, hand, proxyVars
<1>29. ASSUME LocalArm PROVE InStep' /\ Progress'
  BY <1>29 DEF LocalArm, Quit, Shut, AskAll, Active, tasks, project, hand, proxyVars
<1>30. ASSUME GraphiqlArm PROVE InStep' /\ Progress'
  BY <1>30 DEF GraphiqlArm, Quit, Shut, AskAll, Active, tasks, project, hand, proxyVars
<1>31. ASSUME ThemeArm PROVE InStep' /\ Progress'
  BY <1>31 DEF ThemeArm, Quit, Shut, AskAll, Active, tasks, project, hand, proxyVars
<1>32. ASSUME ChangeArm PROVE InStep' /\ Progress'
  BY <1>32 DEF ChangeArm, Goto, tasks, hand, servers, tunnelVars, proxyVars
<1>33. ASSUME Reload PROVE InStep' /\ Progress'
  BY <1>33 DEF Reload, Goto, tasks, project, servers, tunnelVars, proxyVars
<1>34. ASSUME UpdateSession PROVE InStep' /\ Progress'
  BY <1>34 DEF UpdateSession, Goto, tasks, project, hand, servers, tunnelVars, proxyVars
<1>35. ASSUME UpdateFails PROVE InStep' /\ Progress'
  BY <1>35 DEF UpdateFails, Shut, AskAll, Active, tasks, project, hand, proxyVars
<1>36. ASSUME Notify PROVE InStep' /\ Progress'
  BY <1>36 DEF Notify, Goto, tasks, hand, servers, tunnelVars, proxyVars
<1>37. ASSUME ChangeFails PROVE InStep' /\ Progress'
  BY <1>37 DEF ChangeFails, Quit, Shut, AskAll, Active, tasks, project, hand, proxyVars
<1>38. ASSUME Quitted PROVE InStep' /\ Progress'
  BY <1>38 DEF Quitted, Goto, Calm, tasks, project, hand, servers, tunnelVars, proxyVars
<1>39. ASSUME CloseServers PROVE InStep' /\ Progress'
  BY <1>39 DEF CloseServers, StopProxy, Goto, tasks, project, hand, tunnelVars
<1>40. ASSUME ServersClosed PROVE InStep' /\ Progress'
  BY <1>40 DEF ServersClosed, Goto, Calm, tasks, project, hand, servers, tunnelVars, proxyVars
<1>41. ASSUME DeleteSession PROVE InStep' /\ Progress'
  BY <1>41 DEF DeleteSession, tasks, project, hand, servers, tunnelVars, proxyVars
<1>42. ASSUME StopLast PROVE InStep' /\ Progress'
  BY <1>42 DEF StopLast, StopTunnel, AskAll, Active, tasks, project, hand, proxyVars
<1>43. ASSUME End PROVE InStep' /\ Progress'
  BY <1>43 DEF End, Return, AskAll, Active, DropProxy, project, hand
<1>44. ASSUME SignalShutdown PROVE InStep' /\ Progress'
  BY <1>44 DEF SignalShutdown, AskAll, Active, project, hand, proxyVars
<1>45. ASSUME LocalShutsDown PROVE InStep' /\ Progress'
  BY <1>45 DEF LocalShutsDown, AskAll, Active, project, hand, proxyVars
<1>46. ASSUME LocalStopped PROVE InStep' /\ Progress'
  BY <1>46 DEF LocalStopped, project, hand, servers, tunnelVars, proxyVars
<1>47. ASSUME NEW how \in {"cancelled", "error"}, GraphiqlStops(how) PROVE InStep' /\ Progress'
  BY <1>47 DEF GraphiqlStops, project, hand, servers, tunnelVars, proxyVars
<1>48. ASSUME DashboardEnds PROVE InStep' /\ Progress'
  BY <1>48 DEF DashboardEnds, project, hand, servers, tunnelVars, proxyVars
<1>49. ASSUME ProxyTask PROVE InStep' /\ Progress'
  BY <1>49 DEF ProxyTask, ProxyStops, tasks, project, hand, tunnelVars
<1>50. ASSUME CtrlC PROVE InStep' /\ Progress'
  BY <1>50 DEF CtrlC, project, hand, servers, tunnelVars, proxyVars
<1>51. ASSUME KilledByCtrlC PROVE InStep' /\ Progress'
  BY <1>51 DEF KilledByCtrlC, Goto, Calm, tasks, project, hand, servers, tunnelVars, proxyVars
<1>52. ASSUME DashboardQuit PROVE InStep' /\ Progress'
  BY <1>52 DEF DashboardQuit, tasks, project, hand, servers, tunnelVars, proxyVars
<1>53. ASSUME LocalExits PROVE InStep' /\ Progress'
  BY <1>53 DEF LocalExits, project, hand, servers, tunnelVars, proxyVars
<1>54. ASSUME Browse PROVE InStep' /\ Progress'
  BY <1>54 DEF Browse, Serving, Accept, Close, AcceptFails, tasks, project, hand, tunnelVars
<1>55. ASSUME Edit PROVE InStep' /\ Progress'
  BY <1>55 DEF Edit, tasks, hand, servers, tunnelVars, proxyVars
<1>56. ASSUME NEW c \in Processes, ProcessExits(c) PROVE InStep' /\ Progress'
  BY <1>56 DEF ProcessExits, Exit, Active, tasks, project, hand, proxyVars
<1>57. ASSUME UNCHANGED vars PROVE InStep' /\ Progress'
  BY <1>57 DEF vars, tasks, project, hand, servers, tunnelVars, proxyVars
<1>58. ASSUME NEW c \in Clients, GraphiqlAccepts(c) PROVE InStep' /\ Progress'
  BY <1>58 DEF GraphiqlAccepts, project, hand, servers, tunnelVars, proxyVars
<1>59. ASSUME NEW c \in Clients, GraphiqlAnswers(c) PROVE InStep' /\ Progress'
  BY <1>59 DEF GraphiqlAnswers, project, hand, servers, tunnelVars, proxyVars
<1>60. ASSUME RequestHangs PROVE InStep' /\ Progress'
  BY <1>60 DEF RequestHangs, Goto, Calm, tasks, project, hand, servers, tunnelVars, proxyVars
<1>61. QED
    BY <1>1, <1>2, <1>3, <1>4, <1>5, <1>6, <1>7, <1>8, <1>9, <1>10, <1>11, <1>12, <1>13,
     <1>14, <1>15, <1>16, <1>17, <1>18, <1>19, <1>20, <1>21, <1>22, <1>23, <1>24, <1>25,
     <1>26, <1>27, <1>28, <1>29, <1>30, <1>31, <1>32, <1>33, <1>34, <1>35, <1>36, <1>37,
     <1>38, <1>39, <1>40, <1>41, <1>42, <1>43, <1>44, <1>45, <1>46, <1>47, <1>48, <1>49,
     <1>50, <1>51, <1>52, <1>53, <1>54, <1>55, <1>56, <1>57, <1>58, <1>59, <1>60 DEF Next, Starts, Selects, Ends,
     Tasks, Environment

(* Every step keeps what is open to where it may be.                       *)
LEMMA OpenStep ==
  ASSUME AppDevTypeOK, Open, [Next]_vars
  PROVE  Open'
<1> USE DEF graphiqlVars, AppDevTypeOK, ProxyTypeOK, Open
<1>1. ASSUME Prepare PROVE Open'
  BY <1>1 DEF Prepare, Goto, project, servers, tunnelVars, proxyVars
<1>2. ASSUME PrepareFails PROVE Open'
  BY <1>2 DEF PrepareFails, Return, AskAll, Active, DropProxy, project, hand
<1>3. ASSUME RunMkcert PROVE Open'
  BY <1>3 DEF RunMkcert, Spawn, tasks, project, hand, proxyVars
<1>4. ASSUME MkcertDone PROVE Open'
  BY <1>4 DEF MkcertDone, Goto, tasks, project, hand, proxyVars
<1>5. ASSUME MkcertFails PROVE Open'
  BY <1>5 DEF MkcertFails, Return, AskAll, Active, DropProxy, project, hand
<1>6. ASSUME StartTls PROVE Open'
  BY <1>6 DEF StartTls, StartProxy, Goto, tasks, project, hand, tunnelVars
<1>7. ASSUME TlsFails PROVE Open'
  BY <1>7 DEF TlsFails, Return, AskAll, Active, DropProxy, project, hand
<1>8. ASSUME StartPreview PROVE Open'
  BY <1>8 DEF StartPreview, Spawn, Goto, tasks, project, hand, proxyVars
<1>9. ASSUME Tunnelling PROVE Open'
  BY <1>9 DEF Tunnelling, Starting, StartTunnel, SpawnProvider, Spawn, SpawnProviderFails, UrlRead, NotReady, Reconnect, tasks, project, hand, proxyVars
<1>10. ASSUME TunnelStarted PROVE Open'
  BY <1>10 DEF TunnelStarted, Goto, Calm, tasks, project, hand, servers, tunnelVars, proxyVars
<1>11. ASSUME TunnelFails PROVE Open'
  BY <1>11 DEF TunnelFails, Return, AskAll, Active, DropProxy, project, hand
<1>12. ASSUME MakeManifest PROVE Open'
  BY <1>12 DEF MakeManifest, Goto, Calm, tasks, project, hand, servers, tunnelVars, proxyVars
<1>13. ASSUME StopFailed PROVE Open'
  BY <1>13 DEF StopFailed, Calm, tasks, project, hand, servers, tunnelVars, proxyVars
<1>14. ASSUME Upload PROVE Open'
  BY <1>14 DEF Upload, Goto, tasks, project, servers, tunnelVars, proxyVars
<1>15. ASSUME CreateSession PROVE Open'
  BY <1>15 DEF CreateSession, Goto, tasks, project, hand, servers, tunnelVars, proxyVars
<1>16. ASSUME CreateFails PROVE Open'
  BY <1>16 DEF CreateFails, Abort, tasks, project, hand, servers, tunnelVars, proxyVars
<1>17. ASSUME Initialize PROVE Open'
  BY <1>17 DEF Initialize, Goto, tasks, project, hand, servers, tunnelVars, proxyVars
<1>18. ASSUME InitializeFails PROVE Open'
  BY <1>18 DEF InitializeFails, Abort, tasks, project, hand, servers, tunnelVars, proxyVars
<1>19. ASSUME RecordState PROVE Open'
  BY <1>19 DEF RecordState, Goto, tasks, project, hand, servers, tunnelVars, proxyVars
<1>20. ASSUME RecordManifest PROVE Open'
  BY <1>20 DEF RecordManifest, Goto, project, hand, servers, tunnelVars, proxyVars
<1>21. ASSUME AbortPersist PROVE Open'
  BY <1>21 DEF AbortPersist, Abort, Calm, tasks, project, hand, servers, tunnelVars, proxyVars
<1>22. ASSUME StartLocal PROVE Open'
  BY <1>22 DEF StartLocal, Spawn, Goto, project, hand, proxyVars
<1>23. ASSUME Announce PROVE Open'
  BY <1>23 DEF Announce, Goto, Calm, tasks, project, hand, servers, tunnelVars, proxyVars
<1>24. ASSUME AnnounceFails PROVE Open'
  BY <1>24 DEF AnnounceFails, Return, AskAll, Active, DropProxy, project, hand
<1>25. ASSUME Watch PROVE Open'
  BY <1>25 DEF Watch, Goto, project, hand, servers, tunnelVars, proxyVars
<1>26. ASSUME WatchFails PROVE Open'
  BY <1>26 DEF WatchFails, Quit, Shut, AskAll, Active, tasks, project, hand, proxyVars
<1>27. ASSUME DashboardClosed PROVE Open'
  BY <1>27 DEF DashboardClosed, Quit, Shut, AskAll, Active, tasks, project, hand, proxyVars
<1>28. ASSUME DashboardFailed PROVE Open'
  BY <1>28 DEF DashboardFailed, Quit, Shut, AskAll, Active, tasks, project, hand, proxyVars
<1>29. ASSUME LocalArm PROVE Open'
  BY <1>29 DEF LocalArm, Quit, Shut, AskAll, Active, tasks, project, hand, proxyVars
<1>30. ASSUME GraphiqlArm PROVE Open'
  BY <1>30 DEF GraphiqlArm, Quit, Shut, AskAll, Active, tasks, project, hand, proxyVars
<1>31. ASSUME ThemeArm PROVE Open'
  BY <1>31 DEF ThemeArm, Quit, Shut, AskAll, Active, tasks, project, hand, proxyVars
<1>32. ASSUME ChangeArm PROVE Open'
  BY <1>32 DEF ChangeArm, Goto, tasks, hand, servers, tunnelVars, proxyVars
<1>33. ASSUME Reload PROVE Open'
  BY <1>33 DEF Reload, Goto, tasks, project, servers, tunnelVars, proxyVars
<1>34. ASSUME UpdateSession PROVE Open'
  BY <1>34 DEF UpdateSession, Goto, tasks, project, hand, servers, tunnelVars, proxyVars
<1>35. ASSUME UpdateFails PROVE Open'
  BY <1>35 DEF UpdateFails, Shut, AskAll, Active, tasks, project, hand, proxyVars
<1>36. ASSUME Notify PROVE Open'
  BY <1>36 DEF Notify, Goto, tasks, hand, servers, tunnelVars, proxyVars
<1>37. ASSUME ChangeFails PROVE Open'
  BY <1>37 DEF ChangeFails, Quit, Shut, AskAll, Active, tasks, project, hand, proxyVars
<1>38. ASSUME Quitted PROVE Open'
  BY <1>38 DEF Quitted, Goto, Calm, tasks, project, hand, servers, tunnelVars, proxyVars
<1>39. ASSUME CloseServers PROVE Open'
  BY <1>39 DEF CloseServers, StopProxy, Goto, tasks, project, hand, tunnelVars
<1>40. ASSUME ServersClosed PROVE Open'
  BY <1>40 DEF ServersClosed, Goto, Calm, tasks, project, hand, servers, tunnelVars, proxyVars
<1>41. ASSUME DeleteSession PROVE Open'
  BY <1>41 DEF DeleteSession, tasks, project, hand, servers, tunnelVars, proxyVars
<1>42. ASSUME StopLast PROVE Open'
  BY <1>42 DEF StopLast, StopTunnel, AskAll, Active, tasks, project, hand, proxyVars
<1>43. ASSUME End PROVE Open'
  BY <1>43 DEF End, Return, AskAll, Active, DropProxy, project, hand
<1>44. ASSUME SignalShutdown PROVE Open'
  BY <1>44 DEF SignalShutdown, AskAll, Active, project, hand, proxyVars
<1>45. ASSUME LocalShutsDown PROVE Open'
  BY <1>45 DEF LocalShutsDown, AskAll, Active, project, hand, proxyVars
<1>46. ASSUME LocalStopped PROVE Open'
  BY <1>46 DEF LocalStopped, project, hand, servers, tunnelVars, proxyVars
<1>47. ASSUME NEW how \in {"cancelled", "error"}, GraphiqlStops(how) PROVE Open'
  BY <1>47 DEF GraphiqlStops, project, hand, servers, tunnelVars, proxyVars
<1>48. ASSUME DashboardEnds PROVE Open'
  BY <1>48 DEF DashboardEnds, project, hand, servers, tunnelVars, proxyVars
<1>49. ASSUME ProxyTask PROVE Open'
  BY <1>49 DEF ProxyTask, ProxyStops, tasks, project, hand, tunnelVars
<1>50. ASSUME CtrlC PROVE Open'
  BY <1>50 DEF CtrlC, project, hand, servers, tunnelVars, proxyVars
<1>51. ASSUME KilledByCtrlC PROVE Open'
  BY <1>51 DEF KilledByCtrlC, Goto, Calm, tasks, project, hand, servers, tunnelVars, proxyVars
<1>52. ASSUME DashboardQuit PROVE Open'
  BY <1>52 DEF DashboardQuit, tasks, project, hand, servers, tunnelVars, proxyVars
<1>53. ASSUME LocalExits PROVE Open'
  BY <1>53 DEF LocalExits, project, hand, servers, tunnelVars, proxyVars
<1>54. ASSUME Browse PROVE Open'
  BY <1>54 DEF Browse, Serving, Accept, Close, AcceptFails, tasks, project, hand, tunnelVars
<1>55. ASSUME Edit PROVE Open'
  BY <1>55 DEF Edit, tasks, hand, servers, tunnelVars, proxyVars
<1>56. ASSUME NEW c \in Processes, ProcessExits(c) PROVE Open'
  BY <1>56 DEF ProcessExits, Exit, Active, tasks, project, hand, proxyVars
<1>57. ASSUME UNCHANGED vars PROVE Open'
  BY <1>57 DEF vars, tasks, project, hand, servers, tunnelVars, proxyVars
<1>58. ASSUME NEW c \in Clients, GraphiqlAccepts(c) PROVE Open'
  BY <1>58 DEF GraphiqlAccepts, project, hand, servers, tunnelVars, proxyVars
<1>59. ASSUME NEW c \in Clients, GraphiqlAnswers(c) PROVE Open'
  BY <1>59 DEF GraphiqlAnswers, project, hand, servers, tunnelVars, proxyVars
<1>60. ASSUME RequestHangs PROVE Open'
  BY <1>60 DEF RequestHangs, Goto, Calm, tasks, project, hand, servers, tunnelVars, proxyVars
<1>61. QED
    BY <1>1, <1>2, <1>3, <1>4, <1>5, <1>6, <1>7, <1>8, <1>9, <1>10, <1>11, <1>12, <1>13,
     <1>14, <1>15, <1>16, <1>17, <1>18, <1>19, <1>20, <1>21, <1>22, <1>23, <1>24, <1>25,
     <1>26, <1>27, <1>28, <1>29, <1>30, <1>31, <1>32, <1>33, <1>34, <1>35, <1>36, <1>37,
     <1>38, <1>39, <1>40, <1>41, <1>42, <1>43, <1>44, <1>45, <1>46, <1>47, <1>48, <1>49,
     <1>50, <1>51, <1>52, <1>53, <1>54, <1>55, <1>56, <1>57, <1>58, <1>59, <1>60 DEF Next, Starts, Selects, Ends,
     Tasks, Environment

(* Once app dev has returned nothing is started, and it returns only when  *)
(* all is asked and closed.                                                *)
LEMMA EndStep ==
  ASSUME AppDevTypeOK, Open, CleanEnd, [Next]_vars
  PROVE  CleanEnd'
<1> USE DEF graphiqlVars, AppDevTypeOK, TunnelTypeOK, ProxyTypeOK, Open, CleanEnd, Active
<1>1. ASSUME Prepare PROVE CleanEnd'
  BY <1>1 DEF Prepare, Goto, project, servers, tunnelVars, proxyVars
<1>2. ASSUME PrepareFails PROVE CleanEnd'
  BY <1>2 DEF PrepareFails, Return, AskAll, DropProxy, project, hand
<1>3. ASSUME RunMkcert PROVE CleanEnd'
  BY <1>3 DEF RunMkcert, Spawn, tasks, project, hand, proxyVars
<1>4. ASSUME MkcertDone PROVE CleanEnd'
  BY <1>4 DEF MkcertDone, Goto, tasks, project, hand, proxyVars
<1>5. ASSUME MkcertFails PROVE CleanEnd'
  BY <1>5 DEF MkcertFails, Return, AskAll, DropProxy, project, hand
<1>6. ASSUME StartTls PROVE CleanEnd'
  BY <1>6 DEF StartTls, StartProxy, Goto, tasks, project, hand, tunnelVars
<1>7. ASSUME TlsFails PROVE CleanEnd'
  BY <1>7 DEF TlsFails, Return, AskAll, DropProxy, project, hand
<1>8. ASSUME StartPreview PROVE CleanEnd'
  BY <1>8 DEF StartPreview, Spawn, Goto, tasks, project, hand, proxyVars
<1>9. ASSUME Tunnelling PROVE CleanEnd'
  BY <1>9 DEF Tunnelling, Starting, StartTunnel, SpawnProvider, Spawn, SpawnProviderFails, UrlRead, NotReady, Reconnect, tasks, project, hand, proxyVars
<1>10. ASSUME TunnelStarted PROVE CleanEnd'
  BY <1>10 DEF TunnelStarted, Goto, Calm, tasks, project, hand, servers, tunnelVars, proxyVars
<1>11. ASSUME TunnelFails PROVE CleanEnd'
  BY <1>11 DEF TunnelFails, Return, AskAll, DropProxy, project, hand
<1>12. ASSUME MakeManifest PROVE CleanEnd'
  BY <1>12 DEF MakeManifest, Goto, Calm, tasks, project, hand, servers, tunnelVars, proxyVars
<1>13. ASSUME StopFailed PROVE CleanEnd'
  BY <1>13 DEF StopFailed, Calm, tasks, project, hand, servers, tunnelVars, proxyVars
<1>14. ASSUME Upload PROVE CleanEnd'
  BY <1>14 DEF Upload, Goto, tasks, project, servers, tunnelVars, proxyVars
<1>15. ASSUME CreateSession PROVE CleanEnd'
  BY <1>15 DEF CreateSession, Goto, tasks, project, hand, servers, tunnelVars, proxyVars
<1>16. ASSUME CreateFails PROVE CleanEnd'
  BY <1>16 DEF CreateFails, Abort, tasks, project, hand, servers, tunnelVars, proxyVars
<1>17. ASSUME Initialize PROVE CleanEnd'
  BY <1>17 DEF Initialize, Goto, tasks, project, hand, servers, tunnelVars, proxyVars
<1>18. ASSUME InitializeFails PROVE CleanEnd'
  BY <1>18 DEF InitializeFails, Abort, tasks, project, hand, servers, tunnelVars, proxyVars
<1>19. ASSUME RecordState PROVE CleanEnd'
  BY <1>19 DEF RecordState, Goto, tasks, project, hand, servers, tunnelVars, proxyVars
<1>20. ASSUME RecordManifest PROVE CleanEnd'
  BY <1>20 DEF RecordManifest, Goto, project, hand, servers, tunnelVars, proxyVars
<1>21. ASSUME AbortPersist PROVE CleanEnd'
  BY <1>21 DEF AbortPersist, Abort, Calm, tasks, project, hand, servers, tunnelVars, proxyVars
<1>22. ASSUME StartLocal PROVE CleanEnd'
  BY <1>22 DEF StartLocal, Spawn, Goto, project, hand, proxyVars
<1>23. ASSUME Announce PROVE CleanEnd'
  BY <1>23 DEF Announce, Goto, Calm, tasks, project, hand, servers, tunnelVars, proxyVars
<1>24. ASSUME AnnounceFails PROVE CleanEnd'
  BY <1>24 DEF AnnounceFails, Return, AskAll, DropProxy, project, hand
<1>25. ASSUME Watch PROVE CleanEnd'
  BY <1>25 DEF Watch, Goto, project, hand, servers, tunnelVars, proxyVars
<1>26. ASSUME WatchFails PROVE CleanEnd'
  BY <1>26 DEF WatchFails, Quit, Shut, AskAll, tasks, project, hand, proxyVars
<1>27. ASSUME DashboardClosed PROVE CleanEnd'
  BY <1>27 DEF DashboardClosed, Quit, Shut, AskAll, tasks, project, hand, proxyVars
<1>28. ASSUME DashboardFailed PROVE CleanEnd'
  BY <1>28 DEF DashboardFailed, Quit, Shut, AskAll, tasks, project, hand, proxyVars
<1>29. ASSUME LocalArm PROVE CleanEnd'
  BY <1>29 DEF LocalArm, Quit, Shut, AskAll, tasks, project, hand, proxyVars
<1>30. ASSUME GraphiqlArm PROVE CleanEnd'
  BY <1>30 DEF GraphiqlArm, Quit, Shut, AskAll, tasks, project, hand, proxyVars
<1>31. ASSUME ThemeArm PROVE CleanEnd'
  BY <1>31 DEF ThemeArm, Quit, Shut, AskAll, tasks, project, hand, proxyVars
<1>32. ASSUME ChangeArm PROVE CleanEnd'
  BY <1>32 DEF ChangeArm, Goto, tasks, hand, servers, tunnelVars, proxyVars
<1>33. ASSUME Reload PROVE CleanEnd'
  BY <1>33 DEF Reload, Goto, tasks, project, servers, tunnelVars, proxyVars
<1>34. ASSUME UpdateSession PROVE CleanEnd'
  BY <1>34 DEF UpdateSession, Goto, tasks, project, hand, servers, tunnelVars, proxyVars
<1>35. ASSUME UpdateFails PROVE CleanEnd'
  BY <1>35 DEF UpdateFails, Shut, AskAll, tasks, project, hand, proxyVars
<1>36. ASSUME Notify PROVE CleanEnd'
  BY <1>36 DEF Notify, Goto, tasks, hand, servers, tunnelVars, proxyVars
<1>37. ASSUME ChangeFails PROVE CleanEnd'
  BY <1>37 DEF ChangeFails, Quit, Shut, AskAll, tasks, project, hand, proxyVars
<1>38. ASSUME Quitted PROVE CleanEnd'
  BY <1>38 DEF Quitted, Goto, Calm, tasks, project, hand, servers, tunnelVars, proxyVars
<1>39. ASSUME CloseServers PROVE CleanEnd'
  BY <1>39 DEF CloseServers, StopProxy, Goto, tasks, project, hand, tunnelVars
<1>40. ASSUME ServersClosed PROVE CleanEnd'
  BY <1>40 DEF ServersClosed, Goto, Calm, tasks, project, hand, servers, tunnelVars, proxyVars
<1>41. ASSUME DeleteSession PROVE CleanEnd'
  BY <1>41 DEF DeleteSession, tasks, project, hand, servers, tunnelVars, proxyVars
<1>42. ASSUME StopLast PROVE CleanEnd'
  BY <1>42 DEF StopLast, StopTunnel, AskAll, tasks, project, hand, proxyVars
<1>43. ASSUME End PROVE CleanEnd'
  BY <1>43 DEF End, Return, AskAll, DropProxy, project, hand
<1>44. ASSUME SignalShutdown PROVE CleanEnd'
  BY <1>44 DEF SignalShutdown, AskAll, project, hand, proxyVars
<1>45. ASSUME LocalShutsDown PROVE CleanEnd'
  BY <1>45 DEF LocalShutsDown, AskAll, project, hand, proxyVars
<1>46. ASSUME LocalStopped PROVE CleanEnd'
  BY <1>46 DEF LocalStopped, project, hand, servers, tunnelVars, proxyVars
<1>47. ASSUME NEW how \in {"cancelled", "error"}, GraphiqlStops(how) PROVE CleanEnd'
  BY <1>47 DEF GraphiqlStops, project, hand, servers, tunnelVars, proxyVars
<1>48. ASSUME DashboardEnds PROVE CleanEnd'
  BY <1>48 DEF DashboardEnds, project, hand, servers, tunnelVars, proxyVars
<1>49. ASSUME ProxyTask PROVE CleanEnd'
  BY <1>49 DEF ProxyTask, ProxyStops, tasks, project, hand, tunnelVars
<1>50. ASSUME CtrlC PROVE CleanEnd'
  BY <1>50 DEF CtrlC, project, hand, servers, tunnelVars, proxyVars
<1>51. ASSUME KilledByCtrlC PROVE CleanEnd'
  BY <1>51 DEF KilledByCtrlC, Goto, Calm, tasks, project, hand, servers, tunnelVars, proxyVars
<1>52. ASSUME DashboardQuit PROVE CleanEnd'
  BY <1>52 DEF DashboardQuit, tasks, project, hand, servers, tunnelVars, proxyVars
<1>53. ASSUME LocalExits PROVE CleanEnd'
  BY <1>53 DEF LocalExits, project, hand, servers, tunnelVars, proxyVars
<1>54. ASSUME Browse PROVE CleanEnd'
  BY <1>54 DEF Browse, Serving, Accept, Close, AcceptFails, tasks, project, hand, tunnelVars
<1>55. ASSUME Edit PROVE CleanEnd'
  BY <1>55 DEF Edit, tasks, hand, servers, tunnelVars, proxyVars
<1>56. ASSUME NEW c \in Processes, ProcessExits(c) PROVE CleanEnd'
  BY <1>56 DEF ProcessExits, Exit, tasks, project, hand, proxyVars
<1>57. ASSUME UNCHANGED vars PROVE CleanEnd'
  BY <1>57 DEF vars, tasks, project, hand, servers, tunnelVars, proxyVars
<1>58. ASSUME NEW c \in Clients, GraphiqlAccepts(c) PROVE CleanEnd'
  BY <1>58 DEF GraphiqlAccepts, project, hand, servers, tunnelVars, proxyVars
<1>59. ASSUME NEW c \in Clients, GraphiqlAnswers(c) PROVE CleanEnd'
  BY <1>59 DEF GraphiqlAnswers, project, hand, servers, tunnelVars, proxyVars
<1>60. ASSUME RequestHangs PROVE CleanEnd'
  BY <1>60 DEF RequestHangs, Goto, Calm, tasks, project, hand, servers, tunnelVars, proxyVars
<1>61. QED
    BY <1>1, <1>2, <1>3, <1>4, <1>5, <1>6, <1>7, <1>8, <1>9, <1>10, <1>11, <1>12, <1>13,
     <1>14, <1>15, <1>16, <1>17, <1>18, <1>19, <1>20, <1>21, <1>22, <1>23, <1>24, <1>25,
     <1>26, <1>27, <1>28, <1>29, <1>30, <1>31, <1>32, <1>33, <1>34, <1>35, <1>36, <1>37,
     <1>38, <1>39, <1>40, <1>41, <1>42, <1>43, <1>44, <1>45, <1>46, <1>47, <1>48, <1>49,
     <1>50, <1>51, <1>52, <1>53, <1>54, <1>55, <1>56, <1>57, <1>58, <1>59, <1>60 DEF Next, Starts, Selects, Ends,
     Tasks, Environment

(* What holds when `app dev` is called.                                    *)
LEMMA AppDevInit == Init => AppDevInv /\ CleanEnd
<1> SUFFICES ASSUME Init PROVE AppDevInv /\ CleanEnd
  OBVIOUS
<1> USE DEF Init, TunnelInit, ProxyInit
<1>1. remote \in Remote
  <2>1. PICK s \in {"none", "other"} : remote = [session |-> s, manifest |-> 0, source |-> 0]
    OBVIOUS
  <2>2. 0 \in Versions /\ s \in {"none", "other", "ours"}
    OBVIOUS
  <2>3. QED
    BY <2>1, <2>2
<1>2. AppDevTypeOK
  <2>1. TunnelTypeOK /\ ProxyTypeOK
    BY DEF TunnelTypeOK, ProxyTypeOK
  <2>2. 0 \in Versions
    OBVIOUS
  <2>3. disk \in [manifest : Versions, source : Versions]
    BY <2>2
  <2>4. cancelled \in BOOLEAN
    OBVIOUS
  <2>5. event \in BOOLEAN
    OBVIOUS
  <2>6. QED
    BY <1>1, <2>1, <2>3, <2>4, <2>5 DEF AppDevTypeOK
<1>3. InStep /\ Progress
  BY DEF InStep, Progress
<1>4. Open /\ CleanEnd
  BY DEF Open, CleanEnd
<1>5. QED
  BY <1>2, <1>3, <1>4 DEF AppDevInv

(* The steps of the four lemmas together.                                  *)
LEMMA AppDevStep == AppDevInv /\ [Next]_vars => AppDevInv'
<1> SUFFICES ASSUME AppDevTypeOK, InStep, Progress, Open, [Next]_vars PROVE AppDevInv'
  BY DEF AppDevInv
<1>1. AppDevTypeOK'
  BY TypeStep
<1>2. InStep' /\ Progress'
  BY ProgressStep
<1>3. Open'
  BY OpenStep
<1>4. QED
  BY <1>1, <1>2, <1>3 DEF AppDevInv

(* AppDevInv holds for any processes, any options and any number of edits: *)
(* whenever the loop is idle, the session in the store, session.json,      *)
(* manifest.json and the archive name the same edit, after any number of   *)
(* changes, failures and cancellations.                                    *)
THEOREM PreviewIsInStep == Spec => []AppDevInv
<1>1. Init => AppDevInv
  BY AppDevInit
<1>2. AppDevInv /\ [Next]_vars => AppDevInv'
  BY AppDevStep
<1>3. QED
  BY <1>1, <1>2, PTL DEF Spec

(* CleanEnd holds as well: on every path out of app_dev the processes have *)
(* been asked to stop, the TLS proxy is closed with its connections and    *)
(* GraphiQL takes none any more, and success means that the development    *)
(* session is gone, unless the answer to its deletion said nothing of it.  *)
THEOREM NothingIsLeft == Spec => []CleanEnd
<1>1. Init => AppDevInv /\ CleanEnd
  BY AppDevInit
<1>2. AppDevInv /\ CleanEnd /\ [Next]_vars => AppDevInv' /\ CleanEnd'
  <2>1. AppDevInv /\ [Next]_vars => AppDevInv'
    BY AppDevStep
  <2>2. AppDevInv /\ CleanEnd /\ [Next]_vars => CleanEnd'
    BY EndStep DEF AppDevInv
  <2>3. QED
    BY <2>1, <2>2
<1>3. QED
  BY <1>1, <1>2, PTL DEF Spec

=============================================================================
