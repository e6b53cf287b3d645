--------------------------- MODULE Commands_proofs ---------------------------
(***************************************************************************)
(* Proofs about the commands, for any sets of modules, options, files and  *)
(* services: what app deploy releases, the cache that app build keeps,     *)
(* what the commands with a plan ask for, show and replace, the            *)
(* configuration they choose, and what they say when they end.             *)
(*                                                                         *)
(* Commands runs one command, which is app deploy, app build, or one that  *)
(* follows a plan.  What is proved of the first two needs of the others    *)
(* only that they leave their variables alone (OnlyPlanned, NoPlanFor).    *)
(***************************************************************************)
EXTENDS Commands, FiniteSetTheorems, FunctionTheorems, SequenceTheorems, TLAPS

(* Nothing changes the command, its options, or what it has found; what    *)
(* ends it leaves no step to do.                                           *)
Same == UNCHANGED <<command, given, found>>
EndsLast == result' = result \/ todo' = <<>>

(* Whatever a command that follows a plan does, and whatever else may      *)
(* happen to what it deals with, there is a step to take.                  *)
LEMMA OnlyPlanned ==
  Steps \/ World \/ StepFails(Handled) \/ Killed(Listening) => Planned /\ Same /\ EndsLast
<1> USE DEF Same, EndsLast, commandVars
<1>1. AdminSteps => Planned /\ Same /\ EndsLast
  BY DEF AdminSteps, ReadDocument, ReadVariables, AppSecret, ExchangeCredentials,
       ResolveVersion, CheckPlan, CheckKind, StageUpload, UploadVariables, RunOperation,
       Poll, Download, ReportOperation, ReadStatus, CancelOperation, ExecuteDocument,
       ReportResult, CheckTerminal, Bind, GraphiqlServes, CheckSources, CheckStores,
       Subscribe, PollLogs, Resubscribe, StopLogs, ChooseApiVersion, ChooseTopic,
       ResolveDelivery, Trigger, DeliverLocally, ReadRequest, TakeClient, MakeClient,
       CheckPolicy, ServeDocument, StopServing, Serving, Streaming, Diagnoses, Chooses,
       Generating, RegistryInUse, At, Step, Replace, Mutation, Pass, Stay, Return, Then,
       Whole, For
<1>2. ConfigurationSteps => Planned /\ Same /\ EndsLast
  BY DEF ConfigurationSteps, ReadEnvironment, ReadSession, ManagementToken, ReadApp,
       ParseApp, DiscoverExtensions, DiscoverWebs, FindDuplicates, ReportValidity,
       LoadConfigs, LoadState, ClearState, SaveState, ChooseNamed, AskForConfig,
       ChooseValidated, ChoosePulled, Delegate, ListOrganizations, ChooseOrganization,
       CreateApp, ChooseApp, MapLocal, WriteConfig, MergeEnv, ListVersions, Serving,
       Streaming, Diagnoses, Chooses, Generating, RegistryInUse, At, Step, Replace,
       Mutation, Pass, Stay, Return, Then, Whole, For
<1>3. ScaffoldSteps => Planned /\ Same /\ EndsLast
  BY DEF ScaffoldSteps, ChooseTemplate, CheckInputs, BusinessToken, FindApp,
       PickOrganization, PickApp, ValidateApp, CloneApp, MakeDirectory, CopyTemplate,
       UpdatePackage, UpdateWorkspace, InstallDependencies, InitGit, Unstage, RollBack,
       CreateInitApp, FetchApp, LinkDirectory, ValidateTheme, CloneTheme, DescribeTag,
       CheckoutTag, ListRemotes, RemoveOrigin, CleanSkeleton, Serving, Streaming,
       Diagnoses, Chooses, Generating, RegistryInUse, At, Step, Replace, Mutation, Pass,
       Stay, Return, Then, Whole, For
<1>4. HydrogenSteps => Planned /\ Same /\ EndsLast
  BY DEF HydrogenSteps, ReadProject, CheckLinked, ListStorefronts, SelectStorefront,
       CreateStorefront, PollJob, LinkProject, UnlinkProject, IgnoreShopify,
       ResolveSource, DownloadArchive, ExtractArchive, RemoveCache, InstallCache,
       MarkCache, ProjectDirectories, RouteNames, ConfirmReplace, WriteImports,
       WriteRoute, RoutesDone, CopyLocaleRoute, ChooseStrategy, FindContext, CheckI18n,
       RewriteContext, WriteI18n, WriteContext, FindVite, CheckStylesheet, MergePackage,
       InjectPlugin, FindRoot, WriteStylesheet, WriteVite, WriteRoot, CheckNoVite,
       FindRemix, DropRemix, RenameEnv, RewriteEnv, Move, Truncate, Fill, RenameEslint, RewriteServer, RewriteImports,
       NewVite, AddAlias, DiscoverTool, RunTool, Serving, Streaming, Diagnoses, Chooses,
       Generating, RegistryInUse, At, Step, Replace, Mutation, Pass, Stay, Return, Then,
       Whole, For
<1>5. ToolsSteps => Planned /\ Same /\ EndsLast
  BY DEF ToolsSteps, PluginNames, InstalledPlugins, NpmWorks, NpmFails, LoadRegistry,
       RecordPlugin, FindPlugin, DropPlugin, RemoveArtifacts, ClearRegistry,
       RemoveAllArtifacts, PluginExits, InspectPlugins, DetectInstall, ExecuteUpgrade,
       FindRelease, DownloadRelease, VerifyChecksum, ExtractBinary, ReplaceExecutable,
       SetMode, WriteVersion, NotifyAndRefresh, FetchLatest, WriteUpdateCache,
       WriteSettings, ClearDocuments, ClearBuilds, ReadCachedDocument, FetchDocument,
       WriteDocument, KeepDocument, PruneDocuments, CreateArchive, CollectFiles,
       FinishArchive, Serving, Streaming, Diagnoses, Chooses, Generating, RegistryInUse,
       At, Step, Replace, Mutation, Pass, Stay, Return, Then, Whole, For
<1>6. StoreSteps => Planned /\ Same /\ EndsLast
  BY DEF StoreSteps, LoadEntry, LoadCredential, DropEntry, Refresh, KeepRefreshed,
       KeepIndex, MergeScopes, BindCallback, AwaitApproval, ExchangeCode, InstanceId,
       CreateStore, KeepCredential, LoadIndex, KeepEntry, ListEntries, PruneIndex,
       ReadInfo, ExecuteAnyDocument, CheckStoreKind, StoreOrganization,
       OrganizationStores, Confirmed, Endpoint, RemoveStore, StoreOperation, LoadPage,
       SkipDenied, Serving, Streaming, Diagnoses, Chooses, Generating, RegistryInUse,
       At, Step, Replace, Mutation, Pass, Stay, Return, Then, Whole, For
<1>7. AdminWorld => Planned /\ Same /\ EndsLast
  BY DEF AdminWorld, OperationRuns, PlanChanges, AppLogs, SubscriptionExpires,
       InterruptLogs, Serving, Streaming, Diagnoses, Chooses, Generating, RegistryInUse,
       At, Step, Replace, Mutation, Pass, Stay, Return, Then, Whole, For
<1>8. HydrogenWorld => Planned /\ Same /\ EndsLast
  BY DEF HydrogenWorld, JobRuns, OtherReplacesCache, Serving, Streaming, Diagnoses,
       Chooses, Generating, RegistryInUse, At, Step, Replace, Mutation, Pass, Stay,
       Return, Then, Whole, For
<1>9. ToolsWorld => Planned /\ Same /\ EndsLast
  BY DEF ToolsWorld, OtherPlugins, OtherStores, OtherChangesTree, Another, OtherWritesDocument, Serving, Streaming, Diagnoses,
       Chooses, Generating, RegistryInUse, At, Step, Replace, Mutation, Pass, Stay,
       Return, Then, Whole, For
<1>10. StoreWorld => Planned /\ Same /\ EndsLast
  BY DEF StoreWorld, OtherSavesIndex, OtherRefreshes, Serving, Streaming, Diagnoses,
       Chooses, Generating, RegistryInUse, At, Step, Replace, Mutation, Pass, Stay,
       Return, Then, Whole, For
<1>11. QED
  BY <1>1, <1>2, <1>3, <1>4, <1>5, <1>6, <1>7, <1>8, <1>9, <1>10 DEF Steps, World, Edit,
       SomebodyMakes, StepFails, Killed, Stay, Return

(* app deploy, app release, app dev clean and app build follow no plan.    *)
LEMMA NoPlanFor ==
  Begins => command \notin {"deploy", "release", "dev-clean", "build"}
<1>1. \A c, o, d, s : Begin(c, o, d, s) => command = c
  BY DEF Begin
<1>2. AdminBegins => command \notin {"deploy", "release", "dev-clean", "build"}
  BY <1>1 DEF AdminBegins, BulkExecute, BulkStatus, BulkCancel, Execute, Graphiql, Logs,
       WebhookTrigger
<1>3. ConfigurationBegins => command \notin {"deploy", "release", "dev-clean", "build"}
  BY <1>1 DEF ConfigurationBegins, ConfigUse, ConfigValidate, ConfigPull, ConfigLink,
       AppInfo, EnvShow, EnvPull, VersionsList
<1>4. AppInit => command = "app-init"
  BY <1>1 DEF AppInit
<1>5. ThemeInit => command = "theme-init"
  BY <1>1 DEF ThemeInit
<1>6. HydrogenBegins => command \notin {"deploy", "release", "dev-clean", "build"}
  BY <1>1 DEF HydrogenBegins, HydrogenLink, HydrogenList, HydrogenUnlink,
       GenerateRoutes, SetupMarkets, SetupCss, SetupVite, Shortcut, HydrogenOther
<1>7. ToolsBegin => command \notin {"deploy", "release", "dev-clean", "build"}
  BY <1>1 DEF ToolsBegin, PluginsAdd, PluginsLink, PluginsRemove, PluginsUpdate,
       PluginsReset, PluginsInspect, Upgrade, UpdateCheck, Settings, ClearCaches,
       DocFetch, ThemePackage
<1>8. StoreBegins => command \notin {"deploy", "release", "dev-clean", "build"}
  BY <1>1 DEF StoreBegins, StoreInfo, StoreExecute, StoreGraphiql, StoreBulkExecute,
       StoreBulkStatus, StoreBulkCancel, StoreAuth, CreatePreview, ListSessions,
       ListStores, DeleteStore, OpenStore, ImportDefinitions
<1>9. QED
  BY <1>2, <1>3, <1>4, <1>5, <1>6, <1>7, <1>8 DEF Begins, ScaffoldBegins

-----------------------------------------------------------------------------
(* What the two passes of reconcile_modules match.                         *)

(* A local module is matched with one remote module at most.               *)
LEMMA MatchedOnce ==
  ASSUME NEW L, NEW R, NEW m, NEW r, NEW o,
         <<m, r>> \in Matches(L, R), <<m, o>> \in Matches(L, R)
  PROVE  r = o
<1> DEFINE ids == ById(L, R)
           rest == ByHandle(L \ Locals(ids), R \ Remotes(ids))
<1>1. Matches(L, R) = ids \union rest
  BY DEF Matches
<1>2. ASSUME NEW x, <<m, x>> \in ids
      PROVE  m \in Locals(ids) /\ x \in R /\ Identified(R, x) /\ m.uid = x.uid
  <2>1. <<m, x>>[1] = m /\ <<m, x>>[2] = x
    OBVIOUS
  <2>2. QED
    BY <1>2, <2>1 DEF ById, Locals
<1>3. ASSUME NEW x, <<m, x>> \in rest
      PROVE  m \notin Locals(ids) /\ x \in R \ Remotes(ids) /\ Alone(R \ Remotes(ids), x)
             /\ m.handle = x.handle
  <2>1. <<m, x>>[1] = m /\ <<m, x>>[2] = x
    OBVIOUS
  <2>2. QED
    BY <1>3, <2>1 DEF ByHandle
<1>4. CASE <<m, r>> \in ids /\ <<m, o>> \in ids
  BY <1>4, <1>2 DEF Identified
<1>5. CASE <<m, r>> \in rest /\ <<m, o>> \in rest
  BY <1>5, <1>3 DEF Alone
<1>6. QED
  BY <1>1, <1>2, <1>3, <1>4, <1>5

(* What a match says of the two modules.                                   *)
LEMMA MatchedAlike ==
  ASSUME NEW L, NEW R, NEW m, NEW r, <<m, r>> \in Matches(L, R)
  PROVE  /\ m \in L /\ r \in R
         /\ Alike(m, r)
<1> DEFINE p == <<m, r>>
<1>1. p[1] = m /\ p[2] = r
  OBVIOUS
<1>2. CASE p \in ById(L, R)
  BY <1>1, <1>2 DEF ById, Identified, Alike
<1>3. CASE p \in ByHandle(L \ Locals(ById(L, R)), R \ Remotes(ById(L, R)))
  BY <1>1, <1>3 DEF ByHandle, Alike
<1>4. QED
  BY <1>2, <1>3 DEF Matches

(* With no deletion, as many remote modules are matched as there are, with *)
(* different local ones.                                                   *)
LEMMA NoneDeleted ==
  ASSUME NEW L, NEW R, IsFiniteSet(L), Deleted(L, R) = {}
  PROVE  /\ Cardinality(L) >= Cardinality(R)
         /\ \A r \in R : \E m \in L :
              /\ Alike(m, r)
              /\ m.conf = r.conf \/ Updated(L, R) # {}
<1>1. ASSUME NEW r \in R PROVE \E m \in L : <<m, r>> \in Matches(L, R) /\ Alike(m, r)
  <2>1. PICK p \in Matches(L, R) : r = p[2]
    BY <1>1 DEF Deleted, Remotes
  <2>2. Matches(L, R) \subseteq L \X R
    BY DEF Matches, ById, ByHandle
  <2>3. PICK m, o : p = <<m, o>>
    BY <2>1, <2>2
  <2>4. o = r
    BY <2>1, <2>3
  <2>5. <<m, r>> \in Matches(L, R)
    BY <2>1, <2>3, <2>4
  <2>6. m \in L
    BY <2>5, MatchedAlike
  <2>7. Alike(m, r)
    BY <2>5, MatchedAlike
  <2>8. QED
    BY <2>5, <2>6, <2>7
<1> DEFINE f == [r \in R |-> CHOOSE m \in L : <<m, r>> \in Matches(L, R)]
<1>2. \A r \in R : f[r] \in L /\ <<f[r], r>> \in Matches(L, R)
  BY <1>1
<1>3. f \in Injection(R, L)
  <2>1. f \in [R -> L]
    BY <1>2
  <2>2. \A r, o \in R : f[r] = f[o] => r = o
    BY <1>2, MatchedOnce
  <2>3. QED
    BY <2>1, <2>2, Fun_IsInj
<1>4. Cardinality(R) <= Cardinality(L)
  BY <1>3, FS_Injection
<1>5. ASSUME NEW r \in R
      PROVE  \E m \in L : /\ Alike(m, r)
                          /\ m.conf = r.conf \/ Updated(L, R) # {}
  <2>1. PICK m \in L : <<m, r>> \in Matches(L, R) /\ Alike(m, r)
    BY <1>1
  <2>2. <<m, r>>[1] = m /\ <<m, r>>[2] = r
    OBVIOUS
  <2>3. m.conf = r.conf \/ <<m, r>> \in Updated(L, R)
    BY <2>1, <2>2 DEF Updated
  <2>4. QED
    BY <2>1, <2>3
<1>6. QED
  <2>1. Cardinality(L) \in Nat /\ Cardinality(R) \in Nat
    BY FS_CardinalityType, FS_Injection, <1>3
  <2>2. QED
    BY <1>4, <1>5, <2>1

-----------------------------------------------------------------------------
(* A deployment.                                                           *)

(* A version has finitely many modules.                                    *)
LEMMA ContentsAreFinite ==
  \A S \in Contents : IsFiniteSet(S)
  BY DeployAssumption, FS_EmptySet DEF Contents

(* What is said of one list of versions, of the list with one more.        *)
LEMMA OneMoreVersion ==
  ASSUME NEW v \in Contents, versions \in Seq(Contents), versions' = Append(versions, v)
  PROVE  /\ versions' \in Seq(Contents)
         /\ Len(versions') = Len(versions) + 1 /\ Len(versions') \in DOMAIN versions'
         /\ versions'[Len(versions')] = v
         /\ \A i \in DOMAIN versions : i \in DOMAIN versions' /\ versions'[i] = versions[i]
         /\ v = Foreign => Ours' = Ours
         /\ Ours' \subseteq Ours \union {Len(versions')}
  BY DEF Ours

(* A set that one element exhausts has one element at most.                *)
LEMMA OneAtMost ==
  ASSUME NEW S, NEW x, S \subseteq {x}
  PROVE  Cardinality(S) <= 1
<1>1. CASE S = {}
  BY <1>1, FS_EmptySet
<1>2. CASE S = {x}
  BY <1>2, FS_Singleton
<1>3. QED
  BY <1>1, <1>2

(* Where the comparison has let the project through, it has all that was   *)
(* listed.                                                                 *)
LEMMA LetThrough ==
  ASSUME IsFiniteSet(project'), Policy(project, listed)', versions'[mine'] = project'
  PROVE  NothingLostUnasked'
<1> SUFFICES ASSUME ~allowed'.deletes
             PROVE  /\ Cardinality(project') >= Cardinality(listed')
                    /\ \A r \in listed' : \E m \in project' :
                         Alike(m, r) /\ (m.conf = r.conf \/ allowed'.updates)
  BY DEF NothingLostUnasked
<1>1. Deleted(project', listed') = {}
  BY DEF Policy
<1>2. Updated(project', listed') # {} => allowed'.updates
  BY DEF Policy
<1>3. QED
  BY <1>1, <1>2, NoneDeleted

(* Every step of a deployment keeps its types and its stages.              *)
LEMMA DeploymentStep ==
  ASSUME DeployTypeOK, DeployStages, result = "ok" => versions[mine] = source,
         command = "deploy", DeployNext, todo' = todo
  PROVE  DeployTypeOK' /\ DeployStages' /\ (result' = "ok" => versions'[mine'] = source')
<1> DEFINE Kept == DeployTypeOK' /\ DeployStages' /\ (result' = "ok" => versions'[mine'] = source')
<1> USE DEF DeployTypeOK, DeployStages, Keep, Local, Fail, Succeed, Goto, End, Runs, commandVars
<1>1. ASSUME Bundle PROVE Kept
  BY <1>1 DEF Bundle, Contents, Ours
<1>2. ASSUME FinishBundle PROVE Kept
  BY <1>2 DEF FinishBundle, Contents, Ours, Policy
<1>3. ASSUME List PROVE Kept
  BY <1>3 DEF List, Ours
<1>4. ASSUME Confirm PROVE Kept
  BY <1>4 DEF Confirm, Ours
<1>5. ASSUME Read PROVE Kept
  BY <1>5 DEF Read, Ours, Policy
<1>6. ASSUME RequestUpload PROVE Kept
  BY <1>6 DEF RequestUpload, Ours, Policy
<1>7. ASSUME Put PROVE Kept
  BY <1>7 DEF Put, Ours, Policy
<1>8. ASSUME PutAgain PROVE Kept
  BY <1>8, DeployAssumption DEF PutAgain, Ours, Policy
<1>9. ASSUME CreateVersion PROVE Kept
  <2>1. versions' = Append(versions, stored) /\ stored \in Contents
    BY <1>9 DEF CreateVersion, Contents
  <2>2. QED
    BY <1>9, <2>1, OneMoreVersion DEF CreateVersion, Policy
<1>10. ASSUME CreateUnanswered PROVE Kept
  <2>1. versions' = Append(versions, stored) /\ stored \in Contents
    BY <1>10 DEF CreateUnanswered, Contents
  <2>2. QED
    BY <1>10, <2>1, OneMoreVersion DEF CreateUnanswered, Policy
<1>11. ASSUME Release PROVE Kept
  BY <1>11 DEF Release, Ours
<1>12. ASSUME DeployFails PROVE Kept
  BY <1>12 DEF DeployFails, Ours, Policy, deployVars
<1>13. ASSUME OtherRelease PROVE Kept
  <2>1. versions' = Append(versions, Foreign) /\ Foreign \in Contents
    BY <1>13 DEF OtherRelease, Contents
  <2>2. QED
    BY <1>13, <2>1, OneMoreVersion DEF OtherRelease, Policy
<1>14. ASSUME OtherBundle PROVE Kept
  BY <1>14 DEF OtherBundle, Contents, Ours
<1>15. QED
  BY <1>1, <1>2, <1>3, <1>4, <1>5, <1>6, <1>7, <1>8, <1>9, <1>10, <1>11, <1>12, <1>13, <1>14
     DEF DeployNext, ConfirmRelease, FindVersion, ReleaseFails, CleanRemote, CleanLocal, CleanFails

(* A deployment starts with nothing listed, uploaded or released.          *)
LEMMA DeployStarts == Init => DeployIsTrue
<1> SUFFICES ASSUME Init, command = "deploy" PROVE DeployIsTrue
  BY DEF DeployIsTrue
<1>1. DeployInit /\ todo = <<>> /\ result = "none"
  BY NoPlanFor DEF Init, Unplanned
<1>2. Ours = {}
  BY <1>1 DEF DeployInit, Ours
<1>3. DeployTypeOK
  BY <1>1, DeployAssumption DEF DeployInit, DeployTypeOK, Contents
<1>4. DeployStages
  BY <1>1, <1>2 DEF DeployInit, DeployStages
<1>5. NothingLostUnasked
  BY <1>1 DEF DeployInit, NothingLostUnasked
<1>6. Cardinality(Ours) <= 1
  BY <1>2, FS_EmptySet
<1>7. QED
  BY <1>1, <1>3, <1>4, <1>5, <1>6 DEF DeployIsTrue

(* A step of a deployment keeps DeployIsTrue by DeploymentStep; no other   *)
(* command is under way then.                                              *)
LEMMA DeployGoesOn == DeployIsTrue /\ [Next]_vars => DeployIsTrue'
<1> SUFFICES ASSUME DeployIsTrue, [Next]_vars, command' = "deploy" PROVE DeployIsTrue'
  BY DEF DeployIsTrue
<1>1. CASE DeployNext /\ UNCHANGED <<plannedVars, buildVars>>
  <2>1. command = "deploy"
    BY <1>1 DEF DeployNext, Bundle, FinishBundle, List, Confirm, Read, RequestUpload, Put, PutAgain,
             CreateVersion, CreateUnanswered, Release, DeployFails, ConfirmRelease, FindVersion,
             ReleaseFails, CleanRemote, CleanLocal, CleanFails, OtherRelease, OtherBundle, commandVars, Fail,
             Succeed, Goto, End
  <2>2. /\ DeployTypeOK' /\ DeployStages'
        /\ result' = "ok" => versions'[mine'] = source'
    BY <1>1, <2>1, DeploymentStep DEF DeployIsTrue, plannedVars
  <2>3. Cardinality(Ours)' <= 1
    <3>1. PICK x : Ours' \subseteq {x}
      BY <2>2 DEF DeployStages
    <3>2. QED
      BY <3>1, OneAtMost
  <2>4. NothingLostUnasked'
    <3>1. CASE at' = "release" /\ versions'[mine'] = project'
      <4>1. /\ IsFiniteSet(project') /\ Policy(project, listed)'
            /\ versions'[mine'] = project'
        BY <2>2, <3>1, ContentsAreFinite DEF DeployTypeOK, DeployStages, Contents
      <4>2. QED
        BY <4>1, LetThrough
    <3>2. QED
      BY <3>1 DEF NothingLostUnasked
  <2>5. QED
    BY <2>2, <2>3, <2>4 DEF DeployIsTrue
<1>2. CASE Steps \/ World \/ StepFails(Handled) \/ Killed(Listening)
  <2>1. Planned /\ command = "deploy"
    BY <1>2, OnlyPlanned DEF Same
  <2>2. QED
    BY <2>1 DEF DeployIsTrue, DeployTypeOK, Planned
<1>3. CASE UNCHANGED <<commandVars, deployVars, plannedVars>>
  BY <1>3 DEF DeployIsTrue, DeployTypeOK, DeployStages, NothingLostUnasked, Ours, Policy, commandVars,
              deployVars, plannedVars
<1>4. QED
  BY <1>1, <1>2, <1>3 DEF Next, vars

(* DeployIsTrue holds for any sets of modules on both sides, any options,  *)
(* answers and number of uploads: a deployment creates one version at      *)
(* most, of the archive it has read, which is its own but for a torn one   *)
(* and another deployment's; and if it is its own, what is released has    *)
(* every module that was active when it asked, unless its deletion was     *)
(* allowed.                                                                *)
THEOREM NothingIsLostUnasked == Spec => []DeployIsTrue
<1>1. QED
  BY DeployStarts, DeployGoesOn, PTL DEF Spec

-----------------------------------------------------------------------------
(* app build.                                                              *)

(* Every step of a build, of any number of builders, keeps the types.      *)
LEMMA BuildTypes ==
  ASSUME Build!TypeOK, Build!Next \/ UNCHANGED buildVars
  PROVE  Build!TypeOK'
<1> USE PipelineAssumption DEF Build!TypeOK, Build!Version, Build!Never, Build!Fingerprints
<1>1. ASSUME NEW p \in Builders, NEW m \in {"incremental", "clean"}, Build!Invoke(p, m) PROVE Build!TypeOK'
  <2>1. builds' \in [Builders -> 0..MaxBuilds] /\ mode' \in [Builders -> {"incremental", "clean"}]
    BY <1>1 DEF Build!Invoke, Build!disk, Build!Goto, Build!NoPrints
  <2>2. graph' \in [Builders -> [Extensions -> Build!Version]] /\ pending' \in [Builders -> SUBSET Extensions]
    BY <1>1 DEF Build!Invoke, Build!disk, Build!Goto, Build!NoPrints
  <2>3. prints' \in [Builders -> Build!Fingerprints] /\ report' \in [Builders -> {"none", "ok", "error"}]
    BY <1>1 DEF Build!Invoke, Build!disk, Build!Goto, Build!NoPrints
  <2>4. job' \in [Builders -> [Extensions -> {"none", "queued", "running", "ok", "failed"}]]
    BY <1>1 DEF Build!Invoke, Build!disk, Build!Goto, Build!NoPrints
  <2>5. pc' = [pc EXCEPT ![p] = IF m = "clean" THEN "clean" ELSE "load"]
    BY <1>1 DEF Build!Invoke, Build!disk, Build!Goto, Build!NoPrints
  <2>6. QED
    BY <1>1, <2>1, <2>2, <2>3, <2>4, <2>5 DEF Build!Invoke, Build!disk, Build!Goto, Build!NoPrints
<1>2. ASSUME NEW p \in Builders, NEW e \in Extensions, Build!CleanOutput(p, e) PROVE Build!TypeOK'
  BY <1>2 DEF Build!CleanOutput, Build!Absent
<1>3. ASSUME NEW p \in Builders, Build!Cleaned(p) PROVE Build!TypeOK'
  BY <1>3 DEF Build!Cleaned, Build!disk, Build!Goto
<1>4. ASSUME NEW p \in Builders, Build!LoadCache(p) PROVE Build!TypeOK'
  <2>1. known' \in [Builders -> Build!Fingerprints]
    BY <1>4 DEF Build!LoadCache, Build!disk, Build!Goto
  <2>2. report' \in [Builders -> {"none", "ok", "error"}]
    BY <1>4 DEF Build!LoadCache, Build!disk, Build!Goto
  <2>3. pc' = [pc EXCEPT ![p] = "idle"] \/ pc' = [pc EXCEPT ![p] = "schedule"]
    BY <1>4 DEF Build!LoadCache, Build!disk, Build!Goto
  <2>4. UNCHANGED <<world, config, output, cache, tmp, fd, mode, graph, pending, prints, job, builds>>
    BY <1>4 DEF Build!LoadCache, Build!disk, Build!Goto
  <2>5. pc' \in [Builders -> {"idle", "clean", "load", "schedule", "building", "write", "writing", "rename"}]
    BY <2>3
  <2>6. \A q \in Builders : pc'[q] \in {"building", "write", "writing", "rename"} => pending'[q] = {}
    BY <2>3, <2>4
  <2>7. QED
    BY <2>1, <2>2, <2>3, <2>4, <2>5, <2>6
<1>5. ASSUME NEW p \in Builders, NEW e \in Extensions, Build!Schedule(p, e) PROVE Build!TypeOK'
  BY <1>5 DEF Build!Schedule, Build!disk
<1>6. ASSUME NEW p \in Builders, Build!Refuse(p) PROVE Build!TypeOK'
  BY <1>6 DEF Build!Refuse, Build!disk, Build!Goto
<1>7. ASSUME NEW p \in Builders, Build!StartJobs(p) PROVE Build!TypeOK'
  BY <1>7 DEF Build!StartJobs, Build!disk, Build!run, Build!Goto
<1>8. ASSUME NEW p \in Builders, NEW e \in Extensions, Build!JobStarts(p, e) PROVE Build!TypeOK'
  BY <1>8 DEF Build!JobStarts
<1>9. ASSUME NEW p \in Builders, NEW e \in Extensions, Build!JobSucceeds(p, e) PROVE Build!TypeOK'
  BY <1>9 DEF Build!JobSucceeds
<1>10. ASSUME NEW p \in Builders, NEW e \in Extensions, Build!JobFails(p, e) PROVE Build!TypeOK'
  BY <1>10 DEF Build!JobFails, Build!disk
<1>11. ASSUME NEW p \in Builders, Build!JobsEnd(p) PROVE Build!TypeOK'
  <2>1. [e \in Extensions |-> IF job[p][e] = "ok" THEN prints[p][e] ELSE known[p][e]] \in Build!Fingerprints
    BY <1>11 DEF Build!JobsEnd, Build!disk, Build!Goto
  <2>2. pc' = [pc EXCEPT ![p] = "idle"] \/ (pc' = [pc EXCEPT ![p] = "write"] /\ pending[p] = {})
    BY <1>11 DEF Build!JobsEnd, Build!disk, Build!Goto
  <2>3. \/ known' = known
        \/ known' = [known EXCEPT ![p] =
             [e \in Extensions |-> IF job[p][e] = "ok" THEN prints[p][e] ELSE known[p][e]]]
    BY <1>11 DEF Build!JobsEnd, Build!disk, Build!Goto
  <2>4. UNCHANGED <<world, config, output, cache, tmp, fd, mode, graph, pending, prints, job, builds>>
    BY <1>11 DEF Build!JobsEnd, Build!disk, Build!Goto
  <2>5. report' \in [Builders -> {"none", "ok", "error"}]
    BY <1>11 DEF Build!JobsEnd, Build!disk, Build!Goto
  <2>6. known' \in [Builders -> Build!Fingerprints]
    BY <2>1, <2>3
  <2>7. pc' \in [Builders -> {"idle", "clean", "load", "schedule", "building", "write", "writing", "rename"}]
    BY <2>2
  <2>8. \A q \in Builders : pc'[q] \in {"building", "write", "writing", "rename"} => pending'[q] = {}
    BY <2>2, <2>4
  <2>9. QED
    BY <2>1, <2>2, <2>3, <2>4, <2>5, <2>6, <2>7, <2>8
<1>12. ASSUME NEW p \in Builders, Build!OpenTemporary(p) PROVE Build!TypeOK'
  BY <1>12 DEF Build!OpenTemporary, Build!run, Build!Goto, Build!Torn, Build!NoPrints
<1>13. ASSUME NEW p \in Builders, Build!FillTemporary(p) PROVE Build!TypeOK'
  BY <1>13 DEF Build!FillTemporary, Build!run, Build!Goto, Build!Holding
<1>14. ASSUME NEW p \in Builders, Build!Rename(p) PROVE Build!TypeOK'
  <2>1. cache' \in [state : {"whole", "torn"}, prints : Build!Fingerprints]
    BY <1>14 DEF Build!Rename, Build!Goto, Build!NoFile, Build!NoPrints
  <2>2. tmp' \in [state : {"whole", "torn"}, prints : Build!Fingerprints] \union {Build!NoFile}
    BY <1>14 DEF Build!Rename, Build!Goto, Build!NoFile, Build!NoPrints
  <2>3. fd' \in [Builders -> {"tmp", "cache", "none"}]
    BY <1>14 DEF Build!Rename, Build!Goto, Build!NoFile, Build!NoPrints
  <2>4. report' \in [Builders -> {"none", "ok", "error"}]
    BY <1>14 DEF Build!Rename, Build!Goto, Build!NoFile, Build!NoPrints
  <2>5. QED
    BY <1>14, <2>1, <2>2, <2>3, <2>4 DEF Build!Rename, Build!Goto, Build!NoFile, Build!NoPrints
<1>15. ASSUME NEW p \in Builders, Build!Kill(p) PROVE Build!TypeOK'
  BY <1>15 DEF Build!Kill, Build!Goto
<1>16. ASSUME NEW e \in Extensions, Build!Edit(e) PROVE Build!TypeOK'
  BY <1>16 DEF Build!Edit, Build!run
<1>17. ASSUME NEW e \in Extensions, Build!RemoveOutput(e) PROVE Build!TypeOK'
  BY <1>17 DEF Build!RemoveOutput, Build!run, Build!Absent
<1>18. ASSUME UNCHANGED buildVars PROVE Build!TypeOK'
  BY <1>18 DEF buildVars
<1>19. QED
    BY <1>1, <1>2, <1>3, <1>4, <1>5, <1>6, <1>7, <1>8, <1>9, <1>10, <1>11, <1>12, <1>13,
     <1>14, <1>15, <1>16, <1>17, <1>18 DEF Build!Next, Build!Building

(* One builder opens, fills and renames the temporary file in turn.        *)
LEMMA BuildWrites ==
  ASSUME Build!TypeOK, Build!Written, Build!Next \/ UNCHANGED buildVars,
         \A p, q \in Builders : p = q
  PROVE  Build!Written'
<1> USE PipelineAssumption DEF Build!TypeOK, Build!Written
<1>1. ASSUME NEW p \in Builders, NEW m \in {"incremental", "clean"}, Build!Invoke(p, m) PROVE Build!Written'
  BY <1>1 DEF Build!Invoke, Build!disk, Build!Goto, Build!NoPrints
<1>2. ASSUME NEW p \in Builders, NEW e \in Extensions, Build!CleanOutput(p, e) PROVE Build!Written'
  BY <1>2 DEF Build!CleanOutput, Build!Absent
<1>3. ASSUME NEW p \in Builders, Build!Cleaned(p) PROVE Build!Written'
  BY <1>3 DEF Build!Cleaned, Build!disk, Build!Goto
<1>4. ASSUME NEW p \in Builders, Build!LoadCache(p) PROVE Build!Written'
  BY <1>4 DEF Build!LoadCache, Build!disk, Build!Goto
<1>5. ASSUME NEW p \in Builders, NEW e \in Extensions, Build!Schedule(p, e) PROVE Build!Written'
  BY <1>5 DEF Build!Schedule, Build!disk
<1>6. ASSUME NEW p \in Builders, Build!Refuse(p) PROVE Build!Written'
  BY <1>6 DEF Build!Refuse, Build!disk, Build!Goto
<1>7. ASSUME NEW p \in Builders, Build!StartJobs(p) PROVE Build!Written'
  BY <1>7 DEF Build!StartJobs, Build!disk, Build!run, Build!Goto
<1>8. ASSUME NEW p \in Builders, NEW e \in Extensions, Build!JobStarts(p, e) PROVE Build!Written'
  BY <1>8 DEF Build!JobStarts
<1>9. ASSUME NEW p \in Builders, NEW e \in Extensions, Build!JobSucceeds(p, e) PROVE Build!Written'
  BY <1>9 DEF Build!JobSucceeds
<1>10. ASSUME NEW p \in Builders, NEW e \in Extensions, Build!JobFails(p, e) PROVE Build!Written'
  BY <1>10 DEF Build!JobFails, Build!disk
<1>11. ASSUME NEW p \in Builders, Build!JobsEnd(p) PROVE Build!Written'
  BY <1>11 DEF Build!JobsEnd, Build!disk, Build!Goto
<1>12. ASSUME NEW p \in Builders, Build!OpenTemporary(p) PROVE Build!Written'
  BY <1>12 DEF Build!OpenTemporary, Build!run, Build!Goto, Build!Torn, Build!NoPrints
<1>13. ASSUME NEW p \in Builders, Build!FillTemporary(p) PROVE Build!Written'
  BY <1>13 DEF Build!FillTemporary, Build!run, Build!Goto, Build!Holding
<1>14. ASSUME NEW p \in Builders, Build!Rename(p) PROVE Build!Written'
  BY <1>14 DEF Build!Rename, Build!Goto, Build!NoFile, Build!NoPrints
<1>15. ASSUME NEW p \in Builders, Build!Kill(p) PROVE Build!Written'
  BY <1>15 DEF Build!Kill, Build!Goto
<1>16. ASSUME NEW e \in Extensions, Build!Edit(e) PROVE Build!Written'
  BY <1>16 DEF Build!Edit, Build!run
<1>17. ASSUME NEW e \in Extensions, Build!RemoveOutput(e) PROVE Build!Written'
  BY <1>17 DEF Build!RemoveOutput, Build!run, Build!Absent
<1>18. ASSUME UNCHANGED buildVars PROVE Build!Written'
  BY <1>18 DEF buildVars
<1>19. QED
    BY <1>1, <1>2, <1>3, <1>4, <1>5, <1>6, <1>7, <1>8, <1>9, <1>10, <1>11, <1>12, <1>13,
     <1>14, <1>15, <1>16, <1>17, <1>18 DEF Build!Next, Build!Building

(* CacheIsReadable holds wherever there is one builder at a time, for any  *)
(* extensions, number of builds and mishaps: killed anywhere, a build      *)
(* leaves a cache that the next one can read.                              *)
THEOREM OneBuilderKeepsTheCache ==
  ASSUME \A p, q \in Builders : p = q
  PROVE  Spec => []CacheIsReadable
<1>1. Build!TypeOK /\ Build!Written => CacheIsReadable
  BY DEF CacheIsReadable, Build!CacheIsReadable, Build!Written, Build!Torn
<1>2. Init => Build!TypeOK /\ Build!Written
  <2> SUFFICES ASSUME Init PROVE Build!TypeOK /\ Build!Written
    OBVIOUS
  <2>1. Build!TypeOK
    BY PipelineAssumption DEF Init, Build!Init, Build!TypeOK, Build!Version, Build!Never,
       Build!Fingerprints,
       Build!Absent, Build!Holding, Build!NoPrints, Build!NoFile
  <2>2. Build!Written
    BY DEF Init, Build!Init, Build!Written, Build!Holding
  <2>3. QED
    BY <2>1, <2>2
<1>3. Build!TypeOK /\ Build!Written /\ [Next]_vars => Build!TypeOK' /\ Build!Written'
  <2>1. [Next]_vars => Build!Next \/ UNCHANGED buildVars
    BY DEF Next, vars, buildVars
  <2>2. QED
    BY <2>1, BuildTypes, BuildWrites
<1>4. QED
  BY <1>1, <1>2, <1>3, PTL DEF Spec

(* The output of e is that of its configuration as it is now.              *)
Fresh(e) == output[e] = [of |-> config[e], whole |-> TRUE]

(* A fingerprint in the cache that is still right is that of an output     *)
(* which is fresh, has been removed, or is being built again because of    *)
(* that.                                                                   *)
Cached(p, e) ==
  cache.prints[e] = config[e] =>
    \/ Fresh(e)
    \/ "removal" \in world /\ output[e] = Build!Absent
    \/ "removal" \in world /\ pc[p] = "building" /\ job[p][e] = "running"

(* What has no job is fresh; nothing fresh has one, unless the outputs     *)
(* were to be cleaned, or one has been removed.                            *)
Skipped(p, e) ==
  IF job[p][e] = "none" THEN known[p][e] = config[e] /\ Fresh(e)
  ELSE "removal" \in world \/ known[p][e] # config[e]

(* How far a build has come.                                               *)
Outputs(p) ==
  /\ pc[p] # "idle" => graph[p] = config /\ (mode[p] = "clean" => "removal" \in world)
  /\ pc[p] = "clean" => mode[p] = "clean"
  /\ pc[p] = "load" => pending[p] = Extensions
  /\ pc[p] = "schedule" =>
       /\ known[p] = cache.prints
       /\ \A e \in Extensions \ pending[p] :
            job[p][e] \in {"none", "queued"} /\ prints[p][e] = config[e] /\ Skipped(p, e)
  /\ pc[p] = "building" =>
       /\ known[p] = cache.prints
       /\ \A e \in Extensions :
            /\ prints[p][e] = config[e] /\ Skipped(p, e)
            /\ job[p][e] = "ok" => Fresh(e)
            /\ job[p][e] = "failed" => "failure" \in world
  /\ pc[p] \in {"write", "writing", "rename"} => \A e \in Extensions : known[p][e] = config[e] /\ Fresh(e)
  /\ pc[p] = "rename" => tmp = Build!Holding(known[p])

(* Versions only grow, and no file is edited while a build runs; what can  *)
(* go wrong is a failure or a removal, not both.                           *)
OutputsInv ==
  /\ "edit" \notin world /\ ~({"failure", "removal"} \subseteq world)
  /\ \A e \in Extensions : cache.prints[e] = Build!Never \/ cache.prints[e] <= config[e]
  /\ \A p \in Builders : Outputs(p) /\ \A e \in Extensions : Cached(p, e)

(* Every step of the one builder keeps this.                               *)
LEMMA OutputsGoOn ==
  ASSUME Build!TypeOK, Build!Written, OutputsInv, Build!Next \/ UNCHANGED buildVars,
         \A p, q \in Builders : p = q
  PROVE  OutputsInv'
<1> USE PipelineAssumption DEF Build!TypeOK, Build!Written, Build!Version, Build!Never, Build!Fingerprints, OutputsInv,
      Outputs, Fresh, Cached, Skipped
<1>1. ASSUME NEW p \in Builders, NEW m \in {"incremental", "clean"}, Build!Invoke(p, m) PROVE OutputsInv'
  BY <1>1 DEF Build!Invoke, Build!disk, Build!Goto, Build!NoPrints
<1>2. ASSUME NEW p \in Builders, NEW e \in Extensions, Build!CleanOutput(p, e) PROVE OutputsInv'
  <2> HIDE PipelineAssumption DEF Build!TypeOK, Build!Written, OutputsInv, Outputs, Fresh, Cached, Skipped
  <2>1. "removal" \in world /\ pc[p] = "clean" /\ \A q \in Builders : q = p
    BY <1>2 DEF Build!CleanOutput, OutputsInv, Outputs
  <2>2. \A f \in Extensions : output'[f] = IF f = e THEN Build!Absent ELSE output[f]
    BY <1>2 DEF Build!TypeOK, Build!CleanOutput
  <2>3. UNCHANGED <<world, config, cache, tmp, fd, pc, mode, graph, known, prints, job>>
    BY <1>2 DEF Build!TypeOK, Build!CleanOutput
  <2>4. Outputs(p) /\ \A f \in Extensions : Cached(p, f)
    BY DEF OutputsInv
  <2>5. Outputs(p)'
    BY <2>1, <2>2, <2>3, <2>4 DEF Outputs, Skipped, Fresh
  <2>6. ASSUME NEW f \in Extensions PROVE Cached(p, f)'
    BY <2>1, <2>2, <2>3, <2>4 DEF Cached, Fresh, Outputs, Skipped
  <2>7. QED
    BY <2>1, <2>2, <2>3, <2>5, <2>6 DEF OutputsInv, Outputs, Cached, Fresh, Skipped
<1>3. ASSUME NEW p \in Builders, Build!Cleaned(p) PROVE OutputsInv'
  BY <1>3 DEF Build!Cleaned, Build!disk, Build!Goto
<1>4. ASSUME NEW p \in Builders, Build!LoadCache(p) PROVE OutputsInv'
  BY <1>4 DEF Build!LoadCache, Build!disk, Build!Goto
<1>5. ASSUME NEW p \in Builders, NEW e \in Extensions, Build!Schedule(p, e) PROVE OutputsInv'
  BY <1>5 DEF Build!Schedule, Build!disk, Build!Absent
<1>6. ASSUME NEW p \in Builders, Build!Refuse(p) PROVE OutputsInv'
  BY <1>6 DEF Build!Refuse, Build!disk, Build!Goto
<1>7. ASSUME NEW p \in Builders, Build!StartJobs(p) PROVE OutputsInv'
  BY <1>7 DEF Build!StartJobs, Build!disk, Build!run, Build!Goto
<1>8. ASSUME NEW p \in Builders, NEW e \in Extensions, Build!JobStarts(p, e) PROVE OutputsInv'
  <2> HIDE PipelineAssumption DEF Build!TypeOK, Build!Written, OutputsInv, Outputs, Fresh, Cached, Skipped
  <2>1. pc[p] = "building" /\ graph[p] = config /\ \A q \in Builders : q = p
    BY <1>8 DEF Build!JobStarts, OutputsInv, Outputs
  <2>2. \A f \in Extensions :
          output'[f] = IF f = e THEN [of |-> config[e], whole |-> FALSE] ELSE output[f]
    BY <1>8, <2>1 DEF Build!TypeOK, Build!JobStarts
  <2>3. \A f \in Extensions : job'[p][f] = IF f = e THEN "running" ELSE job[p][f]
    BY <1>8 DEF Build!TypeOK, Build!JobStarts
  <2>4. job[p][e] = "queued" /\ UNCHANGED <<world, config, cache, tmp, fd, pc, mode, graph, known, pending, prints>>
    BY <1>8 DEF Build!JobStarts
  <2>5. Outputs(p) /\ \A f \in Extensions : Cached(p, f)
    BY DEF OutputsInv
  <2>6. Outputs(p)'
    BY <2>1, <2>2, <2>3, <2>4, <2>5 DEF Outputs, Skipped, Fresh
  <2>7. ASSUME NEW f \in Extensions PROVE Cached(p, f)'
    BY <2>1, <2>2, <2>3, <2>4, <2>5 DEF Cached, Fresh, Outputs, Skipped
  <2>8. QED
    BY <2>1, <2>2, <2>3, <2>4, <2>6, <2>7 DEF OutputsInv, Outputs, Cached, Fresh, Skipped
<1>9. ASSUME NEW p \in Builders, NEW e \in Extensions, Build!JobSucceeds(p, e) PROVE OutputsInv'
  <2> HIDE PipelineAssumption DEF Build!TypeOK, Build!Written, OutputsInv, Outputs, Fresh, Cached, Skipped
  <2>1. pc[p] = "building" /\ graph[p] = config /\ \A q \in Builders : q = p
    BY <1>9 DEF Build!JobSucceeds, OutputsInv, Outputs
  <2>2. \A f \in Extensions :
          output'[f] = IF f = e THEN [of |-> config[e], whole |-> TRUE] ELSE output[f]
    BY <1>9, <2>1 DEF Build!TypeOK, Build!JobSucceeds
  <2>3. \A f \in Extensions : job'[p][f] = IF f = e THEN "ok" ELSE job[p][f]
    BY <1>9 DEF Build!TypeOK, Build!JobSucceeds
  <2>4. job[p][e] = "running" /\ UNCHANGED <<world, config, cache, tmp, fd, pc, mode, graph, known, pending, prints>>
    BY <1>9 DEF Build!JobSucceeds
  <2>5. Outputs(p) /\ \A f \in Extensions : Cached(p, f)
    BY DEF OutputsInv
  <2>6. Fresh(e)' /\ \A f \in Extensions : f # e => Fresh(f)' = Fresh(f)
    BY <2>2, <2>4 DEF Fresh
  <2>7. \A f \in Extensions : Skipped(p, f)'
    <3>1. TAKE f \in Extensions
    <3>2. Skipped(p, f)
      BY <2>1, <2>5 DEF Outputs
    <3>3. QED
      BY <2>3, <2>4, <2>6, <3>2 DEF Skipped, Fresh
  <2>8. Outputs(p)'
    <3>1. pc'[p] = "building" /\ graph'[p] = config' /\ (mode'[p] = "clean" => "removal" \in world')
      BY <2>1, <2>4, <2>5 DEF Outputs
    <3>2. known'[p] = cache'.prints
      BY <2>1, <2>4, <2>5 DEF Outputs
    <3>3. ASSUME NEW f \in Extensions
          PROVE  /\ prints'[p][f] = config'[f]
                 /\ job'[p][f] = "ok" => Fresh(f)'
                 /\ job'[p][f] = "failed" => "failure" \in world'
      BY <2>1, <2>3, <2>4, <2>5, <2>6 DEF Outputs
    <3>4. QED
      BY <3>1, <3>2, <3>3, <2>7 DEF Outputs
  <2>9. ASSUME NEW f \in Extensions PROVE Cached(p, f)'
    <3>1. Cached(p, f) /\ (f = e => Fresh(f)')
      BY <2>5, <2>6
    <3>2. QED
      BY <2>2, <2>3, <2>4, <3>1 DEF Cached, Fresh
  <2>10. QED
    BY <2>1, <2>4, <2>8, <2>9 DEF OutputsInv, Outputs, Cached, Fresh, Skipped
<1>10. ASSUME NEW p \in Builders, NEW e \in Extensions, Build!JobFails(p, e) PROVE OutputsInv'
  BY <1>10 DEF Build!JobFails, Build!disk
<1>11. ASSUME NEW p \in Builders, Build!JobsEnd(p) PROVE OutputsInv'
  BY <1>11 DEF Build!JobsEnd, Build!disk, Build!Goto, Build!Absent
<1>12. ASSUME NEW p \in Builders, Build!OpenTemporary(p) PROVE OutputsInv'
  BY <1>12 DEF Build!OpenTemporary, Build!run, Build!Goto, Build!Torn, Build!NoPrints
<1>13. ASSUME NEW p \in Builders, Build!FillTemporary(p) PROVE OutputsInv'
  BY <1>13 DEF Build!FillTemporary, Build!run, Build!Goto, Build!Holding
<1>14. ASSUME NEW p \in Builders, Build!Rename(p) PROVE OutputsInv'
  BY <1>14 DEF Build!Rename, Build!Goto, Build!NoFile, Build!NoPrints, Build!Holding
<1>15. ASSUME NEW p \in Builders, Build!Kill(p) PROVE OutputsInv'
  BY <1>15 DEF Build!Kill, Build!Goto
<1>16. ASSUME NEW e \in Extensions, Build!Edit(e) PROVE OutputsInv'
  BY <1>16 DEF Build!Edit, Build!run, Build!AllIdle
<1>17. ASSUME NEW e \in Extensions, Build!RemoveOutput(e) PROVE OutputsInv'
  <2> HIDE PipelineAssumption DEF Build!TypeOK, Build!Written, OutputsInv, Outputs, Fresh, Cached, Skipped
  <2>1. "removal" \in world /\ \A q \in Builders : pc[q] = "idle"
    BY <1>17 DEF Build!RemoveOutput, Build!AllIdle
  <2>2. \A f \in Extensions : output'[f] = IF f = e THEN Build!Absent ELSE output[f]
    BY <1>17 DEF Build!TypeOK, Build!RemoveOutput
  <2>3. UNCHANGED <<world, config, cache, tmp, fd, pc, mode, graph, known, pending, prints, job>>
    BY <1>17 DEF Build!TypeOK, Build!RemoveOutput, Build!run
  <2>4. ASSUME NEW q \in Builders PROVE Outputs(q)'
    BY <2>1, <2>2, <2>3 DEF Outputs, OutputsInv
  <2>5. ASSUME NEW q \in Builders, NEW f \in Extensions PROVE Cached(q, f)'
    BY <2>1, <2>2, <2>3 DEF Cached, Fresh, OutputsInv
  <2>6. QED
    BY <2>1, <2>2, <2>3, <2>4, <2>5 DEF OutputsInv, Outputs, Cached, Fresh, Skipped
<1>18. ASSUME UNCHANGED buildVars PROVE OutputsInv'
  BY <1>18 DEF buildVars
<1> HIDE DEF Build!TypeOK, Build!Written, OutputsInv
<1>19. QED
    BY <1>1, <1>2, <1>3, <1>4, <1>5, <1>6, <1>7, <1>8, <1>9, <1>10, <1>11, <1>12, <1>13,
     <1>14, <1>15, <1>16, <1>17, <1>18 DEF Build!Next, Build!Building

(* ReportIsTrue holds of one builder at a time, for any extensions and     *)
(* number of builds, where no configuration is edited while it builds, and *)
(* where builds fail or outputs are removed by hand, but not both: what it *)
(* reports is built, also what it has skipped.  Where both happen the run  *)
(* build_pipeline_partial_output shows that it does not hold.              *)
THEOREM WhatIsReportedIsBuilt ==
  ASSUME \A p, q \in Builders : p = q,
         \A w \in Worlds : "edit" \notin w /\ ~({"failure", "removal"} \subseteq w)
  PROVE  Spec => ReportIsTrue
<1> DEFINE Inv == Build!TypeOK /\ Build!Written /\ OutputsInv
<1>1. Init => Inv
  <2> SUFFICES ASSUME Init PROVE Inv
    OBVIOUS
  <2>1. Build!TypeOK
    BY PipelineAssumption DEF Init, Build!Init, Build!TypeOK, Build!Version, Build!Never,
       Build!Fingerprints, Build!Absent, Build!Holding, Build!NoPrints, Build!NoFile
  <2>2. Build!Written
    BY DEF Init, Build!Init, Build!Written, Build!Holding
  <2>3. OutputsInv
    BY PipelineAssumption DEF Init, Build!Init, OutputsInv, Outputs, Cached, Fresh, Build!Holding,
       Build!NoPrints, Build!Never
  <2>4. QED
    BY <2>1, <2>2, <2>3
<1>2. Inv /\ [Next]_vars => Inv'
  <2>1. [Next]_vars => Build!Next \/ UNCHANGED buildVars
    BY DEF Next, vars, buildVars
  <2>2. QED
    BY <2>1, BuildTypes, BuildWrites, OutputsGoOn
<1> DEFINE Truth ==
  \A p \in Builders :
    pc[p] = "rename" /\ pc'[p] = "idle" /\ report'[p] = "ok" =>
      \A e \in Extensions : output[e] = [of |-> graph[p][e], whole |-> TRUE]
<1>3. Inv => [Truth]_(Build!vars)
  BY DEF OutputsInv, Outputs, Fresh
<1>4. ReportIsTrue <=> [][Truth]_(Build!vars)
  BY PTL DEF ReportIsTrue, Build!ReportIsTrue
<1> HIDE DEF Inv, Truth
<1>5. QED
  BY <1>1, <1>2, <1>3, <1>4, PTL DEF Spec

-----------------------------------------------------------------------------
(* What the commands that follow a plan send.                              *)
(*                                                                         *)
(* PlanInv is the inductive invariant: what is left of a plan, with what   *)
(* has been sent and learnt.  Three facts about a step carry it: most      *)
(* steps go on, send what they are named for, or put harmless steps in the *)
(* place of others (StepsProgress); most forget nothing (StepsRemember);   *)
(* the other steps, of which there are nine, are looked at one by one.     *)

Sequence(s) == Len(s) \in Nat /\ DOMAIN s = 1..Len(s)
Names(s) == {s[i] : i \in DOMAIN s}

(* The steps that write over a file, or take one away, because an earlier  *)
(* one has looked, or an option says so.                                   *)
Replacing ==
  Undone \union {"origin", "write-i18n", "write-stylesheet", "new-vite", "drop-remix", "clear", "save",
                 "unlink", "instance"}

(* The steps that send a request which changes something; a storefront is  *)
(* created at a step that goes on after it, requests of the browsers are   *)
(* served at one, and store execute has its own.                           *)
Senders ==
  {"stage", "upload", "run", "cancel", "execute", "trigger", "deliver", "subscribe", "create-app",
   "create", "refresh", "exchange-code", "create-store", "delete-store"}
Special ==
  Senders \union Replacing \union
    {"storefront", "bind", "serve", "stream", "execute-document", "detect", "write-config", "route-names", "routes"}

(* A browser's request is none of these, and no name of what is learnt.    *)
LEMMA ConnectionsApart ==
  Connections \intersect
    (Senders \union {"create-storefront", "execute-document", "lock", "client", "checked", "made", "plan",
                     "shown", "cursor", "seen"}) = {}
BY ConnectionsAssumption DEF Senders

(* The steps that put others in the place of what is left to do, and the   *)
(* commands that have none of them.                                        *)
Rewriting ==
  {"credential", "source", "named-plugins", "installed-plugins", "npm", "drop-plugin", "detect", "notify"}
Serves == command \in {"graphiql", "store-graphiql"}
Straight ==
  \/ Serves
  \/ command \in {"execute", "bulk-execute", "store-bulk-execute", "logs", "hydrogen-link", "config-pull",
                 "config-link", "config-validate", "app-init", "theme-package", "import-custom-data"}

(* No step that sends is left twice; the steps of some commands are theirs *)
(* alone.                                                                  *)
PlanIsSound ==
  /\ Sequence(todo)
  /\ \A i, j \in DOMAIN todo : todo[i] \in Senders \union {"storefront"} /\ todo[i] = todo[j] => i = j
  /\ \A i \in DOMAIN todo :
       /\ todo[i] \in Rewriting => ~Straight
       /\ todo[i] \in {"bind", "serve"} => Serves
       /\ todo[i] \in {"subscribe", "stream"} => command = "logs"
       /\ todo[i] = "storefront" => command = "hydrogen-link"
       /\ todo[i] = "execute-document" => command = "store-execute"
       /\ todo[i] = "run" => command \in {"bulk-execute", "store-bulk-execute"}
       /\ todo[i] = "execute" => command = "execute"
       /\ todo[i] \in {"detect", "replace-executable"} => command = "upgrade"
       /\ todo[i] = "write-config" => command \in {"config-pull", "config-link"}
       /\ todo[i] \in {"route-names", "routes"} => command = "hydrogen-generate"
       /\ todo[i] = "refresh" => command = "store-info"
       /\ todo[i] = "exchange-code" => command = "store-auth"
       /\ todo[i] = "create-store" => command = "store-create"

(* The GraphiQL server is bound at the last step but one, and serves from  *)
(* then on.                                                                *)
Bound == Connections \union {"lock", "client", "checked", "made"} \subseteq DOMAIN held
ServesLast ==
  Serves =>
    \/ todo = <<>>
    \/ Len(todo) = 1 /\ todo[1] = "serve" /\ Bound
    \/ /\ Len(todo) >= 2 /\ todo[Len(todo)] = "serve" /\ todo[Len(todo) - 1] = "bind"
       /\ \A i \in 1..(Len(todo) - 2) : todo[i] \notin {"bind", "serve"}

(* What has been sent is left to be sent by no step.                       *)
Told(x) ==
  /\ x \in Senders \union {"create-storefront"} \union Connections
  /\ x \in Senders => x \notin Names(todo)
  /\ x = "create-storefront" => todo = <<>> \/ Knows("polls")
  /\ x \in Connections => Serves /\ (todo = <<>> \/ Head(todo) = "serve") /\ held[x] = "done"
SentOnce ==
  /\ Sequence(sent)
  /\ command # "store-execute" => MutatesOnce /\ \A x \in Names(sent) : Told(x)

(* The plan of the store is asked for before what only it allows is sent.  *)
PlanKnown == Knows("plan") /\ held.plan = "development"
AskedFirst ==
  "mutation" \in given /\ "allow" \notin given =>
    /\ \A i \in DOMAIN todo : todo[i] \in {"run", "execute"} =>
         PlanKnown \/ \E j \in 1..(i - 1) : todo[j] \in {"plan", "store-kind"}
    /\ Did("run") \/ Did("execute") => PlanKnown

(* The lock of the GraphiQL server: the client is made by the request that *)
(* holds it, and once.                                                     *)
OneClient ==
  /\ ~held.client => held.made = {}
  /\ \A c, d \in held.made : c = d
  /\ \A c, d \in Connections : held[c] = "exchange" /\ held[d] = "exchange" => c = d
  /\ \A c \in Connections : held[c] = "exchange" => held.lock /\ ~held.client

(* How far a browser's request has come: past the key, past the policy.    *)
MayServe(c) ==
  \/ server.asks[c] = "query"
  \/ server.asks[c] = "mutation" /\ ("allow" \in given \/ c \in held.checked)
Checked ==
  \A c \in Connections :
    /\ held[c] \in {"client", "exchange", "policy", "execute"} => server.asks[c] \in {"query", "mutation"}
    /\ held[c] = "execute" \/ Did(c) => MayServe(c)
ServedRight ==
  Serves =>
    /\ "asks" \in DOMAIN server
    /\ Knows("made") => Bound /\ (todo = <<>> \/ Len(todo) = 1) /\ OneClient /\ Checked
    /\ ~Knows("made") => \A c \in Connections : ~Did(c)

(* app logs has shown what comes before its cursor, and reads nothing      *)
(* before it has subscribed.                                               *)
Listened ==
  /\ Knows("cursor") /\ held.cursor \in 0..server.log /\ held.shown = [i \in 1..held.cursor |-> i]
  /\ Knows("seen") /\ \E n \in Nat : held.cursor <= n /\ held.seen = 1..n
CursorIsTrue ==
  /\ command = "logs" => "log" \in DOMAIN server /\ server.log \in Nat
  /\ command # "logs" => ~Knows("shown")
  /\ Knows("shown") => Listened
  /\ ~Knows("shown") =>
       \A i \in DOMAIN todo : todo[i] = "stream" => \E j \in 1..(i - 1) : todo[j] = "subscribe"

PlanInv == PlanIsSound /\ ServesLast /\ SentOnce /\ AskedFirst /\ ServedRight /\ CursorIsTrue

-----------------------------------------------------------------------------
(* What keeps the user's files.                                            *)

(* A file of the user's that is free may become anything.                  *)
Free(p) == p \in DOMAIN found /\ found[p] = "user" => p \in agreed

(* Files that are the CLI's own.                                           *)
OwnFiles ==
  {"cache", "extracted", "dependency", "staging", "temporary", "document", "builds", "archive",
   "executable", "version-file", "update-cache"}

(* What an option lets a command replace.                                  *)
Allowed ==
  /\ \A p \in OwnFiles : Free(p)
  /\ "reset" \in given => Free("state")
  /\ "output" \in given => Free("results")
  /\ "force" \in given => Free("stylesheet")

(* An early step comes before every late one.                              *)
Precedes(early, s, late) ==
  \A i \in DOMAIN s : s[i] \in late => \E j \in 1..(i - 1) : s[j] \in early

(* A file that is not free is replaced only after the command has looked.  *)
LooksFirst(p, early, late) == Free(p) \/ Precedes(early, todo, late)
Looks ==
  /\ LooksFirst("directory", {"validate-app", "clone-theme"}, Undone \union {"origin"})
  /\ LooksFirst("i18n", {"i18n"}, {"write-i18n"})
  /\ LooksFirst("stylesheet", {"stylesheet"}, {"write-stylesheet"})
  /\ LooksFirst("vite", {"no-vite"}, {"new-vite"})
  /\ LooksFirst("state", {}, {"clear", "save"})
  /\ LooksFirst("remix", {}, {"drop-remix"})

(* hydrogen unlink and store create begin with the files as they were.     *)
Untouched ==
  \A i \in DOMAIN todo : todo[i] \in {"unlink", "instance"} =>
    i = 1 /\ files = found /\ command \in {"hydrogen-unlink", "store-create"}

(* Of the commands whose plan is rewritten, those that replace a file      *)
(* only fetch a template.                                                  *)
Apart ==
  \A i, j \in DOMAIN todo : todo[i] \in Rewriting \ {"source"} => todo[j] \notin Replacing

(* The upgrade to Vite takes no step but its own.                          *)
ViteSteps ==
  {"no-vite", "remix", "source", "merge-package", "drop-remix", "rename-env", "env", "eslint",
   "write-server", "root", "write-root", "css-imports", "new-vite",
   "fetch-template", "extract", "remove-cache", "install-cache", "mark-cache"}
ViteOnly == command = "hydrogen-setup-vite" => Names(todo) \subseteq ViteSteps

FilesInv == UserFilesKept /\ Allowed /\ Looks /\ Untouched /\ Apart /\ ViteOnly

(* The plan a command starts with looks before it replaces, unless what it *)
(* is for, or an answer, lets it.                                          *)
Orderly ==
  /\ Precedes({"validate-app", "clone-theme"}, todo, Undone \union {"origin"})
  /\ Precedes({"i18n"}, todo, {"write-i18n"})
  /\ Precedes({"stylesheet"}, todo, {"write-stylesheet"})
  /\ Precedes({"no-vite"}, todo, {"new-vite"})
  /\ \A i \in DOMAIN todo :
       /\ todo[i] \in {"clear", "save"} => "state" \in agreed
       /\ todo[i] = "drop-remix" => "remix" \in agreed
       /\ todo[i] \in {"unlink", "instance"} => i = 1 /\ command \in {"hydrogen-unlink", "store-create"}
  /\ Apart
Started == PlanInv /\ Orderly

-----------------------------------------------------------------------------
(* The plans the commands start with.                                      *)

(* Whether s is the tuple t, place by place.                               *)
ReadsAs(s, t) == Len(s) = Len(t) /\ DOMAIN s = DOMAIN t /\ \A i \in DOMAIN t : s[i] = t[i]

(* The plans of bulk execute, by its options.                              *)
LEMMA BulkExecuteStarts == BulkExecute => Started
<1> SUFFICES ASSUME BulkExecute PROVE Started
  OBVIOUS
<1>1. command = "bulk-execute" /\ sent = <<>> /\ held = <<>>
  BY DEF BulkExecute, Begin
<1> USE <1>1 DEF Started, Orderly, Apart, Precedes, Replacing, Undone, PlanInv, PlanIsSound,
              Sequence, ServesLast, AskedFirst, ServedRight,
              CursorIsTrue, SentOnce, MutatesOnce, Knows, Did, Senders, Serves, Straight,
              Rewriting, Names, ReadsAs
<1>2. CASE "mutation" \in given /\ "watch" \in given
  <2>1. ReadsAs(todo, <<"document", "environment", "session", "management", "secret", "exchange",
                      "version", "kind", "plan", "stage", "upload", "run", "poll",
                      "download", "report">>)
    BY <1>2 DEF BulkExecute, Chosen, AppClient
  <2>2. QED
    BY <1>2, <2>1
<1>3. CASE "mutation" \in given /\ "watch" \notin given
  <2>1. ReadsAs(todo, <<"document", "environment", "session", "management", "secret", "exchange",
                      "version", "kind", "plan", "stage", "upload", "run", "report">>)
    BY <1>3 DEF BulkExecute, Chosen, AppClient
  <2>2. QED
    BY <1>3, <2>1
<1>4. CASE "mutation" \notin given /\ "watch" \in given
  <2>1. ReadsAs(todo, <<"document", "environment", "session", "management", "secret", "exchange",
                      "version", "kind", "run", "poll", "download", "report">>)
    BY <1>4 DEF BulkExecute, Chosen, AppClient
  <2>2. QED
    BY <1>4, <2>1
<1>5. CASE "mutation" \notin given /\ "watch" \notin given
  <2>1. ReadsAs(todo, <<"document", "environment", "session", "management", "secret", "exchange",
                      "version", "kind", "run", "report">>)
    BY <1>5 DEF BulkExecute, Chosen, AppClient
  <2>2. QED
    BY <1>5, <2>1
<1>6. QED
  BY <1>2, <1>3, <1>4, <1>5

(* The plans of execute, by its options.                                   *)
LEMMA ExecuteStarts == Execute => Started
<1> SUFFICES ASSUME Execute PROVE Started
  OBVIOUS
<1>1. command = "execute" /\ sent = <<>> /\ held = <<>>
  BY DEF Execute, Begin
<1> USE <1>1 DEF Started, Orderly, Apart, Precedes, Replacing, Undone, PlanInv, PlanIsSound,
              Sequence, ServesLast, AskedFirst, ServedRight,
              CursorIsTrue, SentOnce, MutatesOnce, Knows, Did, Senders, Serves, Straight,
              Rewriting, Names, ReadsAs
<1>2. CASE "mutation" \in given
  <2>1. ReadsAs(todo, <<"document", "variables", "environment", "session", "management", "secret",
                      "exchange", "version", "plan", "execute", "report">>)
    BY <1>2 DEF Execute, Chosen, AppClient
  <2>2. QED
    BY <1>2, <2>1
<1>3. CASE "mutation" \notin given
  <2>1. ReadsAs(todo, <<"document", "variables", "environment", "session", "management", "secret",
                      "exchange", "version", "execute", "report">>)
    BY <1>3 DEF Execute, Chosen, AppClient
  <2>2. QED
    BY <1>3, <2>1
<1>4. QED
  BY <1>2, <1>3

(* The plans of graphiql, by its options.                                  *)
LEMMA GraphiqlStarts == Graphiql => Started
<1> SUFFICES ASSUME Graphiql PROVE Started
  OBVIOUS
<1>1. command = "graphiql" /\ sent = <<>> /\ held = <<>> /\ "asks" \in DOMAIN server
  BY DEF Graphiql, Begin
<1> USE <1>1 DEF Started, Orderly, Apart, Precedes, Replacing, Undone, PlanInv, PlanIsSound,
              Sequence, ServesLast, AskedFirst, ServedRight,
              CursorIsTrue, SentOnce, MutatesOnce, Knows, Did, Senders, Serves, Straight,
              Rewriting, Names, ReadsAs
<1>2. CASE "lazy" \in given
  <2>1. ReadsAs(todo, <<"terminal", "bind", "serve">>)
    BY <1>2 DEF Graphiql, Without, AppClient
  <2>2. QED
    BY <1>2, <2>1
<1>3. CASE "lazy" \notin given
  <2>1. ReadsAs(todo, <<"terminal", "environment", "session", "management", "secret", "exchange",
                      "version", "bind", "serve">>)
    BY <1>3 DEF Graphiql, Without, AppClient
  <2>2. QED
    BY <1>3, <2>1
<1>4. QED
  BY <1>2, <1>3

(* The plans of webhook trigger, by its options.                           *)
LEMMA WebhookTriggerStarts == WebhookTrigger => Started
<1> SUFFICES ASSUME WebhookTrigger PROVE Started
  OBVIOUS
<1>1. command = "webhook-trigger" /\ sent = <<>> /\ held = <<>>
  BY DEF WebhookTrigger, Begin
<1> USE <1>1 DEF Started, Orderly, Apart, Precedes, Replacing, Undone, PlanInv, PlanIsSound,
              Sequence, ServesLast, AskedFirst, ServedRight,
              CursorIsTrue, SentOnce, MutatesOnce, Knows, Did, Senders, Serves, Straight,
              Rewriting, Names, ReadsAs
<1>2. CASE "secret" \in given /\ "localhost" \in given
  <2>1. ReadsAs(todo, <<"environment", "session", "management", "app", "api-versions", "topics",
                      "address", "trigger", "deliver">>)
    BY <1>2 DEF WebhookTrigger, Chosen, Without
  <2>2. QED
    BY <1>2, <2>1
<1>3. CASE "secret" \in given /\ "localhost" \notin given
  <2>1. ReadsAs(todo, <<"environment", "session", "management", "app", "api-versions", "topics",
                      "address", "trigger">>)
    BY <1>3 DEF WebhookTrigger, Chosen, Without
  <2>2. QED
    BY <1>3, <2>1
<1>4. CASE "secret" \notin given /\ "localhost" \in given
  <2>1. ReadsAs(todo, <<"environment", "session", "management", "app", "api-versions", "topics",
                      "address", "secret", "trigger", "deliver">>)
    BY <1>4 DEF WebhookTrigger, Chosen, Without
  <2>2. QED
    BY <1>4, <2>1
<1>5. CASE "secret" \notin given /\ "localhost" \notin given
  <2>1. ReadsAs(todo, <<"environment", "session", "management", "app", "api-versions", "topics",
                      "address", "secret", "trigger">>)
    BY <1>5 DEF WebhookTrigger, Chosen, Without
  <2>2. QED
    BY <1>5, <2>1
<1>6. QED
  BY <1>2, <1>3, <1>4, <1>5

(* The plans of config use, by its options.                                *)
LEMMA ConfigUseStarts == ConfigUse => Started
<1> SUFFICES ASSUME ConfigUse PROVE Started
  OBVIOUS
<1>1. command = "config-use" /\ sent = <<>> /\ held = <<>> /\ agreed = {"state"}
  BY DEF ConfigUse, Begin
<1> USE <1>1 DEF Started, Orderly, Apart, Precedes, Replacing, Undone, PlanInv, PlanIsSound,
              Sequence, ServesLast, AskedFirst, ServedRight,
              CursorIsTrue, SentOnce, MutatesOnce, Knows, Did, Senders, Serves, Straight,
              Rewriting, Names, ReadsAs
<1>2. CASE "reset" \in given
  <2>1. ReadsAs(todo, <<"state", "clear">>)
    BY <1>2 DEF ConfigUse, Chosen, Without
  <2>2. QED
    BY <1>2, <2>1
<1>3. CASE "reset" \notin given
  <2>1. ReadsAs(todo, <<"state", "configs", "choose", "save">>)
    BY <1>3 DEF ConfigUse, Chosen, Without
  <2>2. QED
    BY <1>3, <2>1
<1>4. QED
  BY <1>2, <1>3

(* The plans of config validate, by its options.                           *)
LEMMA ConfigValidateStarts == ConfigValidate => Started
<1> SUFFICES ASSUME ConfigValidate PROVE Started
  OBVIOUS
<1>1. command = "config-validate" /\ sent = <<>> /\ held = <<>> /\ agreed = {"state"}
  BY DEF ConfigValidate, Begin
<1> USE <1>1 DEF Started, Orderly, Apart, Precedes, Replacing, Undone, PlanInv, PlanIsSound,
              Sequence, ServesLast, AskedFirst, ServedRight,
              CursorIsTrue, SentOnce, MutatesOnce, Knows, Did, Senders, Serves, Straight,
              Rewriting, Names, ReadsAs
<1>2. CASE "reset" \in given
  <2>1. ReadsAs(todo, <<"state", "clear", "choose", "app-table", "extensions", "webs",
                      "duplicates", "report">>)
    BY <1>2 DEF ConfigValidate, Chosen, Graph
  <2>2. QED
    BY <1>2, <2>1
<1>3. CASE "reset" \notin given
  <2>1. ReadsAs(todo, <<"state", "choose", "app-table", "extensions", "webs", "duplicates",
                      "report">>)
    BY <1>3 DEF ConfigValidate, Chosen, Graph
  <2>2. QED
    BY <1>3, <2>1
<1>4. QED
  BY <1>2, <1>3

(* The plans of config pull, by its options.                               *)
LEMMA ConfigPullStarts == ConfigPull => Started
<1> SUFFICES ASSUME ConfigPull PROVE Started
  OBVIOUS
<1>1. command = "config-pull" /\ sent = <<>> /\ held = <<>> /\ agreed = {"state"}
  BY DEF ConfigPull, Begin
<1> USE <1>1 DEF Started, Orderly, Apart, Precedes, Replacing, Undone, PlanInv, PlanIsSound,
              Sequence, ServesLast, AskedFirst, ServedRight,
              CursorIsTrue, SentOnce, MutatesOnce, Knows, Did, Senders, Serves, Straight,
              Rewriting, Names, ReadsAs
<1>2. CASE "reset" \in given
  <2>1. ReadsAs(todo, <<"state", "clear", "configs", "choose", "session", "management", "app",
                      "write-config">>)
    BY <1>2 DEF ConfigPull, Chosen
  <2>2. QED
    BY <1>2, <2>1
<1>3. CASE "reset" \notin given
  <2>1. ReadsAs(todo, <<"state", "configs", "choose", "session", "management", "app",
                      "write-config">>)
    BY <1>3 DEF ConfigPull, Chosen
  <2>2. QED
    BY <1>3, <2>1
<1>4. QED
  BY <1>2, <1>3

(* The plans of config link, by its options.                               *)
LEMMA ConfigLinkStarts == ConfigLink => Started
<1> SUFFICES ASSUME ConfigLink PROVE Started
  OBVIOUS
<1>1. command = "config-link" /\ sent = <<>> /\ held = <<>>
  BY DEF ConfigLink, Begin
<1> USE <1>1 DEF Started, Orderly, Apart, Precedes, Replacing, Undone, PlanInv, PlanIsSound,
              Sequence, ServesLast, AskedFirst, ServedRight,
              CursorIsTrue, SentOnce, MutatesOnce, Knows, Did, Senders, Serves, Straight,
              Rewriting, Names, ReadsAs
<1>2. CASE "delegate" \in given
  <2>1. ReadsAs(todo, <<"delegate">>)
    BY <1>2 DEF ConfigLink, Chosen, Without
  <2>2. QED
    BY <1>2, <2>1
<1>3. CASE "delegate" \notin given /\ "new" \in given /\ "client-id" \notin given
  <2>1. ReadsAs(todo, <<"configs", "session", "management", "organizations", "organization",
                      "create-app", "mapping", "app", "write-config">>)
    BY <1>3 DEF ConfigLink, Chosen, Without
  <2>2. QED
    BY <1>3, <2>1
<1>4. CASE "delegate" \notin given /\ given \intersect {"new", "client-id"} = {} /\ Present = {}
  <2>1. ReadsAs(todo, <<"configs", "session", "management", "organizations", "organization",
                      "choose-app", "mapping", "app", "write-config">>)
    BY <1>4 DEF ConfigLink, Chosen, Without
  <2>2. QED
    BY <1>4, <2>1
<1>5. CASE "delegate" \notin given /\ "client-id" \in given
  <2>1. ReadsAs(todo, <<"configs", "session", "management", "organizations", "organization",
                      "mapping", "app", "write-config">>)
    BY <1>5 DEF ConfigLink, Chosen, Without
  <2>2. QED
    BY <1>5, <2>1
<1>6. CASE "delegate" \notin given /\ given \intersect {"new", "client-id"} = {} /\ Present # {}
  <2>1. ReadsAs(todo, <<"configs", "session", "management", "organizations", "organization",
                      "mapping", "app", "write-config">>)
    BY <1>6 DEF ConfigLink, Chosen, Without
  <2>2. QED
    BY <1>6, <2>1
<1>7. QED
  BY <1>2, <1>3, <1>4, <1>5, <1>6

(* The plans of app info, by its options.                                  *)
LEMMA AppInfoStarts == AppInfo => Started
<1> SUFFICES ASSUME AppInfo PROVE Started
  OBVIOUS
<1>1. command = "info" /\ sent = <<>> /\ held = <<>>
  BY DEF AppInfo, Begin
<1> USE <1>1 DEF Started, Orderly, Apart, Precedes, Replacing, Undone, PlanInv, PlanIsSound,
              Sequence, ServesLast, AskedFirst, ServedRight,
              CursorIsTrue, SentOnce, MutatesOnce, Knows, Did, Senders, Serves, Straight,
              Rewriting, Names, ReadsAs
<1>2. CASE "web-env" \in given
  <2>1. ReadsAs(todo, <<"environment">>)
    BY <1>2 DEF AppInfo, Without, Graph
  <2>2. QED
    BY <1>2, <2>1
<1>3. CASE "web-env" \notin given
  <2>1. ReadsAs(todo, <<"environment", "app-table", "extensions", "webs", "duplicates">>)
    BY <1>3 DEF AppInfo, Without, Graph
  <2>2. QED
    BY <1>3, <2>1
<1>4. QED
  BY <1>2, <1>3

(* The plans of app init, by its options.                                  *)
LEMMA AppInitStarts == AppInit => Started
<1> SUFFICES ASSUME AppInit PROVE Started
  OBVIOUS
<1>1. command = "app-init" /\ sent = <<>> /\ held = <<>>
  BY DEF AppInit, Begin
<1> USE <1>1 DEF Started, Orderly, Apart, Precedes, Replacing, Undone, PlanInv, PlanIsSound,
              Sequence, ServesLast, AskedFirst, ServedRight,
              CursorIsTrue, SentOnce, MutatesOnce, Knows, Did, Senders, Serves, Straight,
              Rewriting, Names, ReadsAs
<1>2. CASE "client-id" \in given /\ "pnpm" \in given
  <2>1. ReadsAs(todo, <<"template", "inputs", "session", "business", "management",
                      "organizations", "find-app", "validate-app", "clone-app", "make",
                      "copy", "package", "workspace", "install", "git-init", "unstage",
                      "link">>)
    BY <1>2 DEF AppInit, Chosen, IsNew
  <2>2. QED
    BY <1>2, <2>1
<1>3. CASE "client-id" \in given /\ "pnpm" \notin given
  <2>1. ReadsAs(todo, <<"template", "inputs", "session", "business", "management",
                      "organizations", "find-app", "validate-app", "clone-app", "make",
                      "copy", "package", "install", "git-init", "unstage", "link">>)
    BY <1>3 DEF AppInit, Chosen, IsNew
  <2>2. QED
    BY <1>3, <2>1
<1>4. CASE "client-id" \notin given /\ given \intersect {"name", "new"} = {} /\ "pnpm" \in given
  <2>1. ReadsAs(todo, <<"template", "inputs", "session", "business", "management",
                      "organizations", "pick-organization", "pick-app", "validate-app",
                      "clone-app", "make", "copy", "package", "workspace", "install",
                      "git-init", "unstage", "link">>)
    BY <1>4 DEF AppInit, Chosen, IsNew
  <2>2. QED
    BY <1>4, <2>1
<1>5. CASE "client-id" \notin given /\ given \intersect {"name", "new"} = {} /\ "pnpm" \notin given
  <2>1. ReadsAs(todo, <<"template", "inputs", "session", "business", "management",
                      "organizations", "pick-organization", "pick-app", "validate-app",
                      "clone-app", "make", "copy", "package", "install", "git-init",
                      "unstage", "link">>)
    BY <1>5 DEF AppInit, Chosen, IsNew
  <2>2. QED
    BY <1>5, <2>1
<1>6. CASE "client-id" \notin given /\ given \intersect {"name", "new"} # {} /\ "pnpm" \in given
  <2>1. ReadsAs(todo, <<"template", "inputs", "session", "business", "management",
                      "organizations", "pick-organization", "pick-app", "validate-app",
                      "clone-app", "make", "copy", "package", "workspace", "install",
                      "git-init", "unstage", "create", "fetch", "link">>)
    BY <1>6 DEF AppInit, Chosen, IsNew
  <2>2. QED
    BY <1>6, <2>1
<1>7. CASE "client-id" \notin given /\ given \intersect {"name", "new"} # {} /\ "pnpm" \notin given
  <2>1. ReadsAs(todo, <<"template", "inputs", "session", "business", "management",
                      "organizations", "pick-organization", "pick-app", "validate-app",
                      "clone-app", "make", "copy", "package", "install", "git-init",
                      "unstage", "create", "fetch", "link">>)
    BY <1>7 DEF AppInit, Chosen, IsNew
  <2>2. QED
    BY <1>7, <2>1
<1>8. QED
  BY <1>2, <1>3, <1>4, <1>5, <1>6, <1>7

(* The plans of theme init, by its options.                                *)
LEMMA ThemeInitStarts == ThemeInit => Started
<1> SUFFICES ASSUME ThemeInit PROVE Started
  OBVIOUS
<1>1. command = "theme-init" /\ sent = <<>> /\ held = <<>>
  BY DEF ThemeInit, Begin
<1> USE <1>1 DEF Started, Orderly, Apart, Precedes, Replacing, Undone, PlanInv, PlanIsSound,
              Sequence, ServesLast, AskedFirst, ServedRight,
              CursorIsTrue, SentOnce, MutatesOnce, Knows, Did, Senders, Serves, Straight,
              Rewriting, Names, ReadsAs
<1>2. CASE "latest" \in given /\ "skeleton" \in given
  <2>1. ReadsAs(todo, <<"validate-theme", "clone-theme", "describe", "checkout", "remotes",
                      "origin", "clean">>)
    BY <1>2 DEF ThemeInit, Chosen
  <2>2. QED
    BY <1>2, <2>1
<1>3. CASE "latest" \in given /\ "skeleton" \notin given
  <2>1. ReadsAs(todo, <<"validate-theme", "clone-theme", "describe", "checkout", "remotes",
                      "origin">>)
    BY <1>3 DEF ThemeInit, Chosen
  <2>2. QED
    BY <1>3, <2>1
<1>4. CASE "latest" \notin given /\ "skeleton" \in given
  <2>1. ReadsAs(todo, <<"validate-theme", "clone-theme", "remotes", "origin", "clean">>)
    BY <1>4 DEF ThemeInit, Chosen
  <2>2. QED
    BY <1>4, <2>1
<1>5. CASE "latest" \notin given /\ "skeleton" \notin given
  <2>1. ReadsAs(todo, <<"validate-theme", "clone-theme", "remotes", "origin">>)
    BY <1>5 DEF ThemeInit, Chosen
  <2>2. QED
    BY <1>5, <2>1
<1>6. QED
  BY <1>2, <1>3, <1>4, <1>5

(* The plans of hydrogen setup css, by its options.                        *)
LEMMA SetupCssStarts == SetupCss => Started
<1> SUFFICES ASSUME SetupCss PROVE Started
  OBVIOUS
<1>1. /\ command = "hydrogen-setup-css" /\ sent = <<>> /\ held = <<>>
      /\ ~{"tailwind", "vanilla"} \subseteq given
  BY DEF SetupCss, Begin
<1> USE <1>1 DEF Started, Orderly, Apart, Precedes, Replacing, Undone, PlanInv, PlanIsSound,
              Sequence, ServesLast, AskedFirst, ServedRight,
              CursorIsTrue, SentOnce, MutatesOnce, Knows, Did, Senders, Serves, Straight,
              Rewriting, Names, ReadsAs
<1>2. CASE given \intersect {"tailwind", "vanilla"} = {}
  <2>1. ReadsAs(todo, <<"vite", "strategy">>)
    BY <1>2 DEF SetupCss, Chosen
  <2>2. QED
    BY <1>2, <2>1
<1>3. CASE "tailwind" \in given
  <2>1. ReadsAs(todo, <<"vite", "strategy", "source", "stylesheet", "merge-package", "inject",
                      "root", "write-stylesheet", "write-vite", "write-root">>)
    BY <1>3 DEF SetupCss, Chosen
  <2>2. QED
    BY <1>3, <2>1
<1>4. CASE "vanilla" \in given /\ "tailwind" \notin given
  <2>1. ReadsAs(todo, <<"vite", "strategy", "source", "merge-package", "inject", "write-vite">>)
    BY <1>4 DEF SetupCss, Chosen
  <2>2. QED
    BY <1>4, <2>1
<1>5. QED
  BY <1>2, <1>3, <1>4

(* The plans of store graphiql, by its options.                            *)
LEMMA StoreGraphiqlStarts == StoreGraphiql => Started
<1> SUFFICES ASSUME StoreGraphiql PROVE Started
  OBVIOUS
<1>1. command = "store-graphiql" /\ sent = <<>> /\ held = <<>> /\ "asks" \in DOMAIN server /\ "token" \in given
  BY DEF StoreGraphiql, Begin
<1> USE <1>1 DEF Started, Orderly, Apart, Precedes, Replacing, Undone, PlanInv, PlanIsSound,
              Sequence, ServesLast, AskedFirst, ServedRight,
              CursorIsTrue, SentOnce, MutatesOnce, Knows, Did, Senders, Serves, Straight,
              Rewriting, Names, ReadsAs
<1>2. ReadsAs(todo, <<"terminal", "version", "bind", "serve">>)
  BY DEF StoreGraphiql, Token, Without
<1>3. QED
  BY <1>2

(* The plans of store bulk execute, by its options.                        *)
LEMMA StoreBulkExecuteStarts == StoreBulkExecute => Started
<1> SUFFICES ASSUME StoreBulkExecute PROVE Started
  OBVIOUS
<1>1. command = "store-bulk-execute" /\ sent = <<>> /\ held = <<>> /\ "token" \in given
  BY DEF StoreBulkExecute, Begin
<1> USE <1>1 DEF Started, Orderly, Apart, Precedes, Replacing, Undone, PlanInv, PlanIsSound,
              Sequence, ServesLast, AskedFirst, ServedRight,
              CursorIsTrue, SentOnce, MutatesOnce, Knows, Did, Senders, Serves, Straight,
              Rewriting, Names, ReadsAs
<1>2. CASE "mutation" \in given /\ "watch" \in given
  <2>1. ReadsAs(todo, <<"document", "version", "store-kind", "stage", "upload", "run", "poll",
                      "download", "report">>)
    BY <1>2 DEF StoreBulkExecute, Token, Without, Chosen
  <2>2. QED
    BY <1>2, <2>1
<1>3. CASE "mutation" \in given /\ "watch" \notin given
  <2>1. ReadsAs(todo, <<"document", "version", "store-kind", "stage", "upload", "run", "report">>)
    BY <1>3 DEF StoreBulkExecute, Token, Without, Chosen
  <2>2. QED
    BY <1>3, <2>1
<1>4. CASE "mutation" \notin given /\ "watch" \in given
  <2>1. ReadsAs(todo, <<"document", "version", "store-kind", "run", "poll", "download",
                      "report">>)
    BY <1>4 DEF StoreBulkExecute, Token, Without, Chosen
  <2>2. QED
    BY <1>4, <2>1
<1>5. CASE "mutation" \notin given /\ "watch" \notin given
  <2>1. ReadsAs(todo, <<"document", "version", "store-kind", "run", "report">>)
    BY <1>5 DEF StoreBulkExecute, Token, Without, Chosen
  <2>2. QED
    BY <1>5, <2>1
<1>6. QED
  BY <1>2, <1>3, <1>4, <1>5

(* The plans of store create preview, by its options.                      *)
LEMMA CreatePreviewStarts == CreatePreview => Started
<1> SUFFICES ASSUME CreatePreview PROVE Started
  OBVIOUS
<1>1. command = "store-create" /\ sent = <<>> /\ held = <<>>
  BY DEF CreatePreview, Begin
<1> USE <1>1 DEF Started, Orderly, Apart, Precedes, Replacing, Undone, PlanInv, PlanIsSound,
              Sequence, ServesLast, AskedFirst, ServedRight,
              CursorIsTrue, SentOnce, MutatesOnce, Knows, Did, Senders, Serves, Straight,
              Rewriting, Names, ReadsAs
<1>2. ReadsAs(todo, <<"instance", "create-store", "keep-credential", "index", "keep-entry">>)
  BY DEF CreatePreview, Saving
<1>3. QED
  BY <1>2

(* Whatever command is given, its plan is sound, and asks before it sends. *)
LEMMA PlansStart == Begins => Started
<1> USE DEF Started, Orderly, Apart, Precedes, Replacing, Undone, PlanInv, PlanIsSound, Sequence,
              ServesLast, AskedFirst, ServedRight,
            CursorIsTrue, SentOnce, MutatesOnce, Knows, Did, Senders, Serves, Straight,
            Rewriting, Names
<1>1. AdminBegins => Started
  <2>1. BulkStatus => Started
    BY DEF BulkStatus, AppClient, Begin
  <2>2. BulkCancel => Started
    BY DEF BulkCancel, AppClient, Begin
  <2>3. Logs => Started
    BY DEF Logs, Begin
  <2>4. QED
    BY <2>1, <2>2, <2>3, BulkExecuteStarts, ExecuteStarts, GraphiqlStarts,
         WebhookTriggerStarts DEF AdminBegins
<1>2. ConfigurationBegins => Started
  <2>1. EnvShow => Started
    BY DEF EnvShow, Begin
  <2>2. EnvPull => Started
    BY DEF EnvPull, Begin
  <2>3. VersionsList => Started
    BY DEF VersionsList, Begin
  <2>4. QED
    BY <2>1, <2>2, <2>3, ConfigUseStarts, ConfigValidateStarts, ConfigPullStarts,
         ConfigLinkStarts, AppInfoStarts DEF ConfigurationBegins
<1>3. ScaffoldBegins => Started
  BY AppInitStarts, ThemeInitStarts DEF ScaffoldBegins
<1>4. HydrogenBegins => Started
  <2>1. HydrogenLink => Started
    BY DEF HydrogenLink, Begin
  <2>2. HydrogenList => Started
    BY DEF HydrogenList, Begin
  <2>3. HydrogenUnlink => Started
    BY DEF HydrogenUnlink, Begin
  <2>4. GenerateRoutes => Started
    BY DEF GenerateRoutes, Chosen, Begin
  <2>5. SetupMarkets => Started
    BY DEF SetupMarkets, Begin
  <2>6. SetupVite => Started
    <3>1. SetupVite => PlanInv
      BY DEF SetupVite, Begin
    <3>2. SetupVite => Orderly
      BY DEF SetupVite, Begin
    <3>3. QED
      BY <3>1, <3>2
  <2>7. Shortcut => Started
    BY DEF Shortcut, Begin
  <2>8. HydrogenOther => Started
    BY DEF HydrogenOther, Begin
  <2>9. QED
    BY <2>1, <2>2, <2>3, <2>4, <2>5, <2>6, <2>7, <2>8, SetupCssStarts DEF HydrogenBegins
<1>5. ToolsBegin => Started
  <2>1. PluginsAdd => Started
    BY DEF PluginsAdd, Begin
  <2>2. PluginsLink => Started
    BY DEF PluginsLink, Begin
  <2>3. PluginsRemove => Started
    BY DEF PluginsRemove, Begin
  <2>4. PluginsUpdate => Started
    BY DEF PluginsUpdate, Begin
  <2>5. PluginsReset => Started
    BY DEF PluginsReset, Begin
  <2>6. PluginsInspect => Started
    BY DEF PluginsInspect, Begin
  <2>7. Upgrade => Started
    BY DEF Upgrade, Begin
  <2>8. UpdateCheck => Started
    BY DEF UpdateCheck, Begin
  <2>9. Settings => Started
    BY DEF Settings, Begin
  <2>10. ClearCaches => Started
    BY DEF ClearCaches, Chosen, Begin
  <2>11. DocFetch => Started
    BY DEF DocFetch, Begin
  <2>12. ThemePackage => Started
    BY DEF ThemePackage, Begin
  <2>13. QED
    BY <2>1, <2>2, <2>3, <2>4, <2>5, <2>6, <2>7, <2>8, <2>9, <2>10, <2>11, <2>12 DEF ToolsBegin
<1>6. StoreBegins => Started
  <2>1. StoreInfo => Started
    <3> SUFFICES ASSUME StoreInfo PROVE Started
      OBVIOUS
    <3>1. ReadsAs(todo, <<"entry", "credential", "refresh", "keep-refreshed", "keep-index", "info">>)
      BY DEF StoreInfo, Without, Begin, Token, ReadsAs
    <3>2. command = "store-info" /\ sent = <<>> /\ held = <<>>
      BY DEF StoreInfo, Begin
    <3>3. QED
      BY <3>1, <3>2 DEF ReadsAs
  <2>2. StoreExecute => Started
    BY DEF StoreExecute, Without, Begin, Token
  <2>3. StoreBulkStatus => Started
    BY DEF StoreBulkStatus, Without, Begin, Token
  <2>4. StoreBulkCancel => Started
    BY DEF StoreBulkCancel, Without, Begin, Token
  <2>5. StoreAuth => Started
    <3> SUFFICES ASSUME StoreAuth PROVE Started
      OBVIOUS
    <3>1. ReadsAs(todo, <<"terminal", "scopes", "callback-port", "approval", "exchange-code",
                                     "keep-credential", "index", "keep-entry">>)
      BY DEF StoreAuth, Saving, ReadsAs
    <3>2. command = "store-auth" /\ sent = <<>> /\ held = <<>>
      BY DEF StoreAuth, Begin
    <3>3. QED
      BY <3>1, <3>2 DEF ReadsAs
  <2>6. ListSessions => Started
    BY DEF ListSessions, Begin
  <2>7. ListStores => Started
    BY DEF ListStores, Begin
  <2>8. DeleteStore => Started
    BY DEF DeleteStore, Begin
  <2>9. OpenStore => Started
    BY DEF OpenStore, Begin
  <2>10. ImportDefinitions => Started
    BY DEF ImportDefinitions, Begin
  <2>11. QED
    BY <2>1, <2>2, <2>3, <2>4, <2>5, <2>6, <2>7, <2>8, <2>9, <2>10, StoreGraphiqlStarts,
         StoreBulkExecuteStarts, CreatePreviewStarts DEF StoreBegins
<1>7. QED
  BY <1>1, <1>2, <1>3, <1>4, <1>5, <1>6 DEF Begins

-----------------------------------------------------------------------------
(* The steps of the plans.                                                 *)

(* A step that sends nothing stays, ends, or passes on; those that matter  *)
(* to what is sent later are passed by their own actions alone.            *)
Unpassed == Senders \union {"plan", "store-kind", "bind", "serve", "execute-document"}
Goes ==
  /\ sent' = sent
  /\ todo' \in {todo, <<>>} \/ (todo' = Tail(todo) /\ Head(todo) \notin Unpassed)

(* A step that sends sends what it is named for, and is over.              *)
Sends ==
  /\ Head(todo) \in Senders /\ sent' = Append(sent, Head(todo))
  /\ todo' \in {<<>>, Tail(todo)}

(* The steps that put others in the place of what is left to do.           *)
Alters ==
  \/ LoadCredential \/ ResolveSource \/ PluginNames \/ InstalledPlugins \/ NpmFails \/ DropPlugin
  \/ DetectInstall \/ NotifyAndRefresh

Progress ==
  \/ Goes \/ (Sends /\ Head(todo) # "subscribe") \/ Alters
  \/ CheckPlan \/ CheckStoreKind \/ Bind \/ GraphiqlServes \/ CreateStorefront \/ ExecuteAnyDocument
  \/ Subscribe

(* Every step goes on, sends, alters what is left, or is one of seven.     *)
LEMMA StepsProgress ==
  Steps \/ World \/ StepFails(Handled) \/ Killed(Listening) => Progress
<1> USE DEF Progress
<1>1. AdminSteps => Progress
  BY DEF AdminSteps, ReadDocument, ReadVariables, AppSecret, ExchangeCredentials,
       ResolveVersion, CheckKind, StageUpload, UploadVariables, RunOperation, Poll,
       Download, ReportOperation, ReadStatus, CancelOperation, ExecuteDocument,
       ReportResult, CheckTerminal, CheckSources, CheckStores, PollLogs, Resubscribe,
       StopLogs, ChooseApiVersion, ChooseTopic, ResolveDelivery, Trigger,
       DeliverLocally, Serving, Streaming, Diagnoses, Chooses, Generating,
       RegistryInUse, At, Step, Replace, Mutation, Pass, Stay, Return, Then, Whole,
       Quiet, OnDisk, OnServer, Goes, Sends, Alters, Unpassed, Senders
<1>2. ConfigurationSteps => Progress
  BY DEF ConfigurationSteps, ReadEnvironment, ReadSession, ManagementToken, ReadApp,
       ParseApp, DiscoverExtensions, DiscoverWebs, FindDuplicates, ReportValidity,
       LoadConfigs, LoadState, ClearState, SaveState, ChooseNamed, AskForConfig,
       ChooseValidated, ChoosePulled, Delegate, ListOrganizations, ChooseOrganization,
       CreateApp, ChooseApp, MapLocal, WriteConfig, MergeEnv, ListVersions, Serving,
       Streaming, Diagnoses, Chooses, Generating, RegistryInUse, At, Step, Replace,
       Mutation, Pass, Stay, Return, Then, Whole, Quiet, OnDisk, OnServer, Goes, Sends,
       Alters, Unpassed, Senders
<1>3. ScaffoldSteps => Progress
  BY DEF ScaffoldSteps, ChooseTemplate, CheckInputs, BusinessToken, FindApp,
       PickOrganization, PickApp, ValidateApp, CloneApp, MakeDirectory, CopyTemplate,
       UpdatePackage, UpdateWorkspace, InstallDependencies, InitGit, Unstage, RollBack,
       CreateInitApp, FetchApp, LinkDirectory, ValidateTheme, CloneTheme, DescribeTag,
       CheckoutTag, ListRemotes, RemoveOrigin, CleanSkeleton, Serving, Streaming,
       Diagnoses, Chooses, Generating, RegistryInUse, At, Step, Replace, Mutation, Pass,
       Stay, Return, Then, Whole, Quiet, OnDisk, OnServer, Goes, Sends, Alters,
       Unpassed, Senders
<1>4. HydrogenSteps => Progress
  BY DEF HydrogenSteps, ReadProject, CheckLinked, ListStorefronts, SelectStorefront,
       PollJob, LinkProject, UnlinkProject, IgnoreShopify, DownloadArchive,
       ExtractArchive, RemoveCache, InstallCache, MarkCache, ProjectDirectories,
       RouteNames, ConfirmReplace, WriteImports, WriteRoute, RoutesDone,
       CopyLocaleRoute, ChooseStrategy, FindContext, CheckI18n, RewriteContext,
       WriteI18n, WriteContext, FindVite, CheckStylesheet, MergePackage, InjectPlugin,
       FindRoot, WriteStylesheet, WriteVite, WriteRoot, CheckNoVite, FindRemix,
       DropRemix, RenameEnv, RewriteEnv, Move, Truncate, Fill, RenameEslint, RewriteServer, RewriteImports, NewVite,
       AddAlias, DiscoverTool, RunTool, Serving, Streaming, Diagnoses, Chooses,
       Generating, RegistryInUse, At, Step, Replace, Mutation, Pass, Stay, Return, Then,
       Whole, Quiet, OnDisk, OnServer, Goes, Sends, Alters, Unpassed, Senders
<1>5. ToolsSteps => Progress
  BY DEF ToolsSteps, NpmWorks, LoadRegistry, RecordPlugin, FindPlugin, RemoveArtifacts,
       ClearRegistry, RemoveAllArtifacts, PluginExits, InspectPlugins, ExecuteUpgrade,
       FindRelease, DownloadRelease, VerifyChecksum, ExtractBinary, ReplaceExecutable,
       SetMode, WriteVersion, FetchLatest, WriteUpdateCache, WriteSettings,
       ClearDocuments, ClearBuilds, ReadCachedDocument, FetchDocument, WriteDocument,
       KeepDocument, PruneDocuments, CreateArchive, CollectFiles, FinishArchive,
       Serving, Streaming, Diagnoses, Chooses, Generating, RegistryInUse, At, Step,
       Replace, Mutation, Pass, Stay, Return, Then, Whole, Quiet, OnDisk, OnServer,
       Goes, Sends, Alters, Unpassed, Senders
<1>6. StoreSteps => Progress
  BY DEF StoreSteps, LoadEntry, DropEntry, Refresh, KeepRefreshed, KeepIndex,
       MergeScopes, BindCallback, AwaitApproval, ExchangeCode, InstanceId, CreateStore,
       KeepCredential, LoadIndex, KeepEntry, ListEntries, PruneIndex, ReadInfo,
       StoreOrganization, OrganizationStores, Confirmed, Endpoint, RemoveStore,
       StoreOperation, LoadPage, SkipDenied, Serving, Streaming, Diagnoses, Chooses,
       Generating, RegistryInUse, At, Step, Replace, Mutation, Pass, Stay, Return, Then,
       Whole, Quiet, OnDisk, OnServer, Goes, Sends, Alters, Unpassed, Senders
<1>7. AdminWorld => Progress
  BY DEF AdminWorld, OperationRuns, PlanChanges, AppLogs, SubscriptionExpires,
       InterruptLogs, Serving, Streaming, Diagnoses, Chooses, Generating, RegistryInUse,
       At, Step, Replace, Mutation, Pass, Stay, Return, Then, Whole, Quiet, OnDisk,
       OnServer, Goes, Sends, Alters, Unpassed, Senders
<1>8. HydrogenWorld => Progress
  BY DEF HydrogenWorld, JobRuns, OtherReplacesCache, Serving, Streaming, Diagnoses,
       Chooses, Generating, RegistryInUse, At, Step, Replace, Mutation, Pass, Stay,
       Return, Then, Whole, Quiet, OnDisk, OnServer, Goes, Sends, Alters, Unpassed,
       Senders
<1>9. ToolsWorld => Progress
  BY DEF ToolsWorld, OtherPlugins, OtherStores, OtherChangesTree, Another, OtherWritesDocument, Serving, Streaming, Diagnoses,
       Chooses, Generating, RegistryInUse, At, Step, Replace, Mutation, Pass, Stay,
       Return, Then, Whole, Quiet, OnDisk, OnServer, Goes, Sends, Alters, Unpassed,
       Senders
<1>10. StoreWorld => Progress
  BY DEF StoreWorld, OtherSavesIndex, OtherRefreshes, Serving, Streaming, Diagnoses,
       Chooses, Generating, RegistryInUse, At, Step, Replace, Mutation, Pass, Stay,
       Return, Then, Whole, Quiet, OnDisk, OnServer, Goes, Sends, Alters, Unpassed,
       Senders
<1>11. QED
  BY <1>1, <1>2, <1>3, <1>4, <1>5, <1>6, <1>7, <1>8, <1>9, <1>10 DEF Steps, World, Edit,
       SomebodyMakes, StepFails, Killed, Stay, Return, Quiet, OnDisk, Goes

(* A step forgets nothing of what has been learnt, and changes nothing of  *)
(* the plan, the log and the client of the GraphiQL server.                *)
Watched == {"plan", "shown", "cursor", "seen", "made"}

Remembers ==
  /\ \A k \in DOMAIN held : k \in DOMAIN held' /\ (k \in Watched => held'[k] = held[k])
  /\ \A k \in DOMAIN held' \intersect Watched : k \in DOMAIN held
  /\ Head(todo) = "serve" => held' = held
  /\ \A k \in DOMAIN server \intersect {"asks", "log"} : k \in DOMAIN server' /\ server'[k] = server[k]

Memory ==
  \/ Remembers
  \/ CheckPlan \/ Bind \/ GraphiqlServes \/ CreateStorefront \/ Subscribe \/ PollLogs \/ AppLogs

(* Every step remembers, or is one of seven.                               *)
LEMMA StepsRemember ==
  Steps \/ World \/ StepFails(Handled) \/ Killed(Listening) => Memory
<1> USE DEF Memory
<1>1. AdminSteps => Memory
  <2>1. StageUpload => Remembers
    BY DEF StageUpload, Mutation, At, Pass, Return, Then, OnServer, Over, Remembers,
         Watched
  <2>2. UploadVariables => Remembers
    BY DEF UploadVariables, Mutation, At, Pass, Return, Then, OnServer, Over, Only,
         Remembers, Watched
  <2>3. RunOperation => Remembers
    BY DEF RunOperation, Mutation, At, Pass, Return, Then, OnServer, Over, Only,
         Remembers, Watched
  <2>4. CancelOperation => Remembers
    BY DEF CancelOperation, Mutation, At, Pass, Return, Then, OnServer, Over, Only,
         Remembers, Watched
  <2>5. ExecuteDocument => Remembers
    BY DEF ExecuteDocument, Mutation, At, Pass, Return, Then, OnServer, Over, Only,
         Remembers, Watched
  <2>6. Trigger => Remembers
    BY DEF Trigger, Mutation, At, Pass, Return, Then, OnServer, Over, Only, Remembers,
         Watched
  <2>7. DeliverLocally => Remembers
    BY DEF DeliverLocally, Mutation, At, Pass, Return, Then, OnServer, Over, Only,
         Remembers, Watched
  <2>8. ReadDocument \/ ReadVariables \/ AppSecret \/ ExchangeCredentials \/
       ResolveVersion \/ CheckKind \/ Poll \/ Download \/ ReportOperation \/
       ReadStatus \/ ReportResult \/ CheckTerminal \/ CheckSources \/
       CheckStores \/ Resubscribe \/ StopLogs \/ ChooseApiVersion \/
       ChooseTopic \/ ResolveDelivery
       => Remembers
    BY DEF ReadDocument, ReadVariables, AppSecret, ExchangeCredentials, ResolveVersion,
         CheckKind, Poll, Download, ReportOperation, ReadStatus, ReportResult,
         CheckTerminal, CheckSources, CheckStores, Resubscribe, StopLogs,
         ChooseApiVersion, ChooseTopic, ResolveDelivery, Step, Replace, Streaming, At,
         Pass, Stay, Return, Then, Quiet, OnDisk, Learn, Over, Only, Remembers, Watched
  <2>9. QED
    BY <2>1, <2>2, <2>3, <2>4, <2>5, <2>6, <2>7, <2>8 DEF AdminSteps
<1>2. ConfigurationSteps => Memory
  <2>1. CreateApp => Remembers
    BY DEF CreateApp, Mutation, At, Pass, Return, Then, OnServer, Over, Only, Remembers,
         Watched
  <2>2. ReadEnvironment => Remembers
    BY DEF ReadEnvironment, At, Pass, Return, Then, Learn, Over, Only, Remembers,
         Watched
  <2>3. ParseApp => Remembers
    BY DEF ParseApp, Diagnoses, At, Pass, Return, Then, Quiet, Learn, Over, Only,
         Remembers, Watched
  <2>4. DiscoverExtensions => Remembers
    BY DEF DiscoverExtensions, Diagnoses, At, Pass, Return, Then, Quiet, Learn, Over,
         Only, Remembers, Watched
  <2>5. DiscoverWebs => Remembers
    BY DEF DiscoverWebs, Diagnoses, At, Pass, Return, Then, Quiet, Learn, Over, Only,
         Remembers, Watched
  <2>6. FindDuplicates => Remembers
    BY DEF FindDuplicates, Diagnoses, At, Pass, Return, Then, Quiet, Learn, Over, Only,
         Remembers, Watched
  <2>7. ChooseNamed => Remembers
    BY DEF ChooseNamed, Chooses, At, Pass, Quiet, Learn, Over, Only, Remembers, Watched
  <2>8. AskForConfig => Remembers
    BY DEF AskForConfig, Chooses, At, Pass, Quiet, Learn, Over, Only, Remembers, Watched
  <2>9. ChooseValidated => Remembers
    BY DEF ChooseValidated, Chooses, At, Pass, Quiet, Learn, Over, Only, Remembers,
         Watched
  <2>10. ChoosePulled => Remembers
    BY DEF ChoosePulled, Chooses, At, Pass, Quiet, Learn, Over, Only, Remembers, Watched
  <2>11. MapLocal => Remembers
    BY DEF MapLocal, At, Pass, Over, Remembers, Watched
  <2>12. ReadSession \/ ManagementToken \/ ReadApp \/ ReportValidity \/ LoadConfigs \/
       LoadState \/ ClearState \/ SaveState \/ Delegate \/ ListOrganizations
       \/ ChooseOrganization \/ ChooseApp \/ WriteConfig \/ MergeEnv \/
       ListVersions
       => Remembers
    BY DEF ReadSession, ManagementToken, ReadApp, ReportValidity, LoadConfigs,
         LoadState, ClearState, SaveState, Delegate, ListOrganizations,
         ChooseOrganization, ChooseApp, WriteConfig, MergeEnv, ListVersions, Step,
         Replace, At, Pass, Return, Then, Quiet, OnDisk, Remembers, Watched
  <2>13. QED
    BY <2>1, <2>2, <2>3, <2>4, <2>5, <2>6, <2>7, <2>8, <2>9, <2>10, <2>11, <2>12 DEF ConfigurationSteps
<1>3. ScaffoldSteps => Memory
  BY DEF ScaffoldSteps, ChooseTemplate, CheckInputs, BusinessToken, FindApp,
       PickOrganization, PickApp, ValidateApp, CloneApp, MakeDirectory, CopyTemplate,
       UpdatePackage, UpdateWorkspace, InstallDependencies, InitGit, Unstage, RollBack,
       CreateInitApp, FetchApp, LinkDirectory, ValidateTheme, CloneTheme, DescribeTag,
       CheckoutTag, ListRemotes, RemoveOrigin, CleanSkeleton, Step, Replace, At, Pass,
       Return, Then, Quiet, OnDisk, Remembers, Watched
<1>4. HydrogenSteps => Memory
  <2>1. ReadProject \/ CheckLinked \/ ListStorefronts \/ SelectStorefront \/ PollJob
       \/ LinkProject \/ UnlinkProject \/ IgnoreShopify \/ ResolveSource \/
       DownloadArchive \/ ExtractArchive \/ RemoveCache \/ InstallCache \/
       MarkCache \/ ProjectDirectories \/ RouteNames \/ ConfirmReplace \/
       WriteImports \/ WriteRoute \/ RoutesDone \/ CopyLocaleRoute \/
       ChooseStrategy \/ FindContext \/ CheckI18n \/ RewriteContext \/
       WriteI18n \/ WriteContext \/ FindVite \/ CheckStylesheet \/
       MergePackage \/ InjectPlugin \/ FindRoot \/ WriteStylesheet \/
       WriteVite \/ WriteRoot \/ CheckNoVite \/ FindRemix \/ DropRemix \/
       RenameEnv \/ RewriteEnv \/ RenameEslint \/ RewriteServer \/ RewriteImports \/ NewVite
       \/ AddAlias \/ DiscoverTool \/ RunTool
       => Remembers
    BY DEF ReadProject, CheckLinked, ListStorefronts, SelectStorefront, PollJob,
         LinkProject, UnlinkProject, IgnoreShopify, ResolveSource, DownloadArchive,
         ExtractArchive, RemoveCache, InstallCache, MarkCache, ProjectDirectories,
         RouteNames, ConfirmReplace, WriteImports, WriteRoute, RoutesDone,
         CopyLocaleRoute, ChooseStrategy, FindContext, CheckI18n, RewriteContext,
         WriteI18n, WriteContext, FindVite, CheckStylesheet, MergePackage, InjectPlugin,
         FindRoot, WriteStylesheet, WriteVite, WriteRoot, CheckNoVite, FindRemix,
         DropRemix, RenameEnv, RewriteEnv, Move, Truncate, Fill, RenameEslint, RewriteServer, RewriteImports, NewVite,
         AddAlias, DiscoverTool, RunTool, Step, Replace, Generating, At, Pass, Stay,
         Return, Then, Quiet, OnDisk, Learn, Over, Only, NextRoute, Remembers, Watched
  <2>2. QED
    BY <2>1 DEF HydrogenSteps
<1>5. ToolsSteps => Memory
  BY DEF ToolsSteps, PluginNames, InstalledPlugins, NpmWorks, NpmFails, LoadRegistry,
       RecordPlugin, FindPlugin, DropPlugin, RemoveArtifacts, ClearRegistry,
       RemoveAllArtifacts, PluginExits, InspectPlugins, DetectInstall, ExecuteUpgrade,
       FindRelease, DownloadRelease, VerifyChecksum, ExtractBinary, ReplaceExecutable,
       SetMode, WriteVersion, NotifyAndRefresh, FetchLatest, WriteUpdateCache,
       WriteSettings, ClearDocuments, ClearBuilds, ReadCachedDocument, FetchDocument,
       WriteDocument, KeepDocument, PruneDocuments, CreateArchive, CollectFiles,
       FinishArchive, Step, Replace, At, Pass, Return, Then, Whole, Quiet, OnDisk,
       OnServer, Learn, Over, Only, Deal, For, Remembers, Watched
<1>6. StoreSteps => Memory
  BY DEF StoreSteps, LoadEntry, LoadCredential, DropEntry, Refresh, KeepRefreshed,
       KeepIndex, MergeScopes, BindCallback, AwaitApproval, ExchangeCode, InstanceId,
       CreateStore, KeepCredential, LoadIndex, KeepEntry, ListEntries, PruneIndex,
       ReadInfo, ExecuteAnyDocument, CheckStoreKind, StoreOrganization,
       OrganizationStores, Confirmed, Endpoint, RemoveStore, StoreOperation, LoadPage,
       SkipDenied, Step, Mutation, At, Pass, Stay, Return, Then, Quiet, OnDisk,
       OnServer, Learn, Over, Only, Remembers, Watched
<1>7. AdminWorld => Memory
  BY DEF AdminWorld, OperationRuns, PlanChanges, SubscriptionExpires, InterruptLogs,
       Streaming, At, Stay, Quiet, Remembers, Watched
<1>8. HydrogenWorld => Memory
  BY DEF HydrogenWorld, JobRuns, OtherReplacesCache, Stay, OnDisk, Remembers, Watched
<1>9. ToolsWorld => Memory
  BY DEF ToolsWorld, OtherPlugins, OtherStores, OtherChangesTree, Another, OtherWritesDocument, Stay, OnDisk, OnServer, Remembers,
       Watched
<1>10. StoreWorld => Memory
  BY DEF StoreWorld, OtherSavesIndex, OtherRefreshes, RegistryInUse, Stay, Remembers,
       Watched
<1>11. QED
  BY <1>1, <1>2, <1>3, <1>4, <1>5, <1>6, <1>7, <1>8, <1>9, <1>10 DEF Steps, World, Edit,
       SomebodyMakes, StepFails, Killed, Stay, Return, Quiet, OnDisk, Remembers, Watched

(* A step of a command is of no account to PlanInv, or one of nine.        *)
Ordinary == (Goes \/ (Sends /\ Head(todo) # "subscribe") \/ Alters) /\ Remembers
Taken ==
  /\ Planned /\ Same
  /\ \/ Ordinary
     \/ CheckPlan \/ CheckStoreKind \/ Bind \/ GraphiqlServes \/ CreateStorefront \/ ExecuteAnyDocument
     \/ Subscribe \/ PollLogs \/ AppLogs

(* There is no other.                                                      *)
LEMMA AnyStep ==
  Steps \/ World \/ StepFails(Handled) \/ Killed(Listening) => Taken
BY OnlyPlanned, StepsProgress, StepsRemember DEF Taken, Ordinary, Progress, Memory

-----------------------------------------------------------------------------
(* What is left of a plan.                                                 *)

(* t is what is left of s when its first m steps have given way to n       *)
(* others: what is not harmless in t was in s.                             *)
Moved(t, s, n, m) ==
  \A i \in DOMAIN t :
    \/ t[i] \notin Special /\ ~Straight /\ (t[i] = "replace-executable" => command = "upgrade")
    \/ i - n + m \in DOMAIN s /\ t[i] = s[i - n + m]
Shifted == Sequence(todo') /\ \E n, m \in Nat : Moved(todo', todo, n, m)

(* What is left of a sound plan is sound.                                  *)
LEMMA ShiftedPlan ==
  ASSUME PlanIsSound, Same, Shifted
  PROVE  PlanIsSound'
<1>1. PICK n, m \in Nat :
         \A i \in DOMAIN todo' :
           \/ todo'[i] \notin Special /\ ~Straight /\ (todo'[i] = "replace-executable" => command = "upgrade")
           \/ i - n + m \in DOMAIN todo /\ todo'[i] = todo[i - n + m]
  BY DEF Shifted, Moved
<1>2. UNCHANGED command /\ Sequence(todo')
  BY DEF Same, Shifted
<1>3. \A i, j \in DOMAIN todo' :
        todo'[i] \in Senders \union {"storefront"} /\ todo'[i] = todo'[j] => i = j
  BY <1>1, <1>2 DEF PlanIsSound, Special, Sequence
<1>4. ASSUME NEW i \in DOMAIN todo'
      PROVE  /\ todo'[i] \in Rewriting => ~Straight
             /\ todo'[i] \in {"bind", "serve"} => Serves
             /\ todo'[i] \in {"subscribe", "stream"} => command = "logs"
             /\ todo'[i] = "storefront" => command = "hydrogen-link"
             /\ todo'[i] = "execute-document" => command = "store-execute"
             /\ todo'[i] = "run" => command \in {"bulk-execute", "store-bulk-execute"}
             /\ todo'[i] = "execute" => command = "execute"
             /\ todo'[i] \in {"detect", "replace-executable"} => command = "upgrade"
             /\ todo'[i] = "write-config" => command \in {"config-pull", "config-link"}
             /\ todo'[i] \in {"route-names", "routes"} => command = "hydrogen-generate"
             /\ todo'[i] = "refresh" => command = "store-info"
             /\ todo'[i] = "exchange-code" => command = "store-auth"
             /\ todo'[i] = "create-store" => command = "store-create"
  <2>1. CASE todo'[i] \notin Special /\ ~Straight /\ (todo'[i] = "replace-executable" => command = "upgrade")
    BY <2>1 DEF Special, Senders, Replacing, Undone
  <2>2. CASE i - n + m \in DOMAIN todo /\ todo'[i] = todo[i - n + m]
    BY <2>2 DEF PlanIsSound
  <2>3. QED
    BY <2>1, <2>2, <1>1
<1>5. QED
  BY <1>2, <1>3, <1>4 DEF PlanIsSound, Serves, Straight

(* What is left when steps are dropped at the front.                       *)
LEMMA Shifts ==
  ASSUME NEW s, Sequence(s), s # <<>>
  PROVE  /\ Sequence(Tail(s)) /\ Moved(Tail(s), s, 0, 1)
         /\ \A k \in Nat \ {0} :
              Sequence(SubSeq(s, k, Len(s))) /\ Moved(SubSeq(s, k, Len(s)), s, 0, k - 1)
         /\ Sequence(<<>>) /\ Moved(<<>>, s, 0, 0)
         /\ Moved(s, s, 0, 0)
BY DEF Moved, Sequence

(* What is left when harmless steps are put in the place of the first.     *)
LEMMA Inserted ==
  ASSUME NEW s, NEW p, Sequence(s), s # <<>>, Sequence(p),
         \A i \in DOMAIN p : p[i] \notin Special /\ (p[i] = "replace-executable" => command = "upgrade"),
         ~Straight
  PROVE  /\ Moved(p, s, 0, 0)
         /\ Sequence(p \o Tail(s)) /\ Moved(p \o Tail(s), s, Len(p), 1)
         /\ Sequence(p \o Tail(s) \o <<"exits">>) /\ Moved(p \o Tail(s) \o <<"exits">>, s, Len(p), 1)
<1>1. "exits" \notin Special
  BY DEF Special, Senders, Replacing, Undone
<1>2. Moved(p, s, 0, 0)
  BY DEF Moved
<1>3. Sequence(p \o Tail(s)) /\ Moved(p \o Tail(s), s, Len(p), 1)
  BY DEF Moved, Sequence
<1>4. ASSUME NEW t, Sequence(t), Moved(t, s, Len(p), 1)
      PROVE  Sequence(t \o <<"exits">>) /\ Moved(t \o <<"exits">>, s, Len(p), 1)
  BY <1>1, <1>4 DEF Moved, Sequence
<1>5. QED
  BY <1>2, <1>3, <1>4

(* A step that stays, ends or passes on leaves no step that was not there. *)
LEMMA TailShifts ==
  ASSUME PlanIsSound, todo # <<>>, todo' \in {todo, <<>>, Tail(todo)}
  PROVE  Shifted
BY Shifts DEF Shifted, PlanIsSound

(* Nor does one that alters what is left, but for harmless ones; the       *)
(* straight commands have none.                                            *)
LEMMA AltersShifts ==
  ASSUME PlanIsSound, Alters
  PROVE  Shifted /\ ~Straight /\ sent' = sent
<1>1. todo # <<>> /\ Head(todo) \in Rewriting /\ sent' = sent
  BY DEF Alters, LoadCredential, ResolveSource, PluginNames, InstalledPlugins, NpmFails, DropPlugin,
       DetectInstall, NotifyAndRefresh, At, Planned, Rewriting, Quiet
<1>2. ~Straight /\ Sequence(todo)
  BY <1>1 DEF PlanIsSound, Sequence
<1> DEFINE Harmless(p) ==
             Sequence(p) /\ \A i \in DOMAIN p : p[i] \notin Special /\ (p[i] = "replace-executable" => command = "upgrade")
<1>a. Shifted \/ todo' \notin {todo, <<>>, Tail(todo)}
  BY <1>1, <1>2, TailShifts
<1>b. ASSUME NEW p, Harmless(p), todo' \in {p, p \o Tail(todo), p \o Tail(todo) \o <<"exits">>}
      PROVE  Shifted
  <2>1. Len(p) \in Nat
    BY <1>b DEF Sequence
  <2>2. Sequence(todo') /\ (Moved(todo', todo, 0, 0) \/ Moved(todo', todo, Len(p), 1))
    BY <1>1, <1>2, <1>b, Inserted
  <2>3. QED
    BY <2>1, <2>2 DEF Shifted
<1>c. ASSUME NEW k \in Nat \ {0}, todo' = SubSeq(todo, k, Len(todo))
      PROVE  Shifted
  <2>1. Sequence(todo') /\ Moved(todo', todo, 0, k - 1) /\ k - 1 \in Nat
    BY <1>1, <1>2, <1>c, Shifts
  <2>2. QED
    BY <2>1 DEF Shifted
<1>3. LoadCredential => Shifted
  BY <1>a, <1>c DEF LoadCredential, Pass, Return
<1>4. ResolveSource => Shifted
  <2>1. Harmless(Fetching)
    BY DEF Sequence, Fetching, Special, Senders, Replacing, Undone
  <2>2. QED
    BY <2>1, <1>a, <1>b DEF ResolveSource, Pass, Return
<1>d. \A S, p : Harmless(p) => Harmless(Each(S, p))
  BY DEF Each, Sequence
<1>5. PluginNames => Shifted
  <2>1. /\ Harmless(OneInstall)
        /\ Harmless(OneRemoval)
        /\ Harmless(<<>> \o <<"load-registry", "record-plugin">>)
        /\ Harmless(<<"npm">> \o <<"load-registry", "record-plugin">>)
    <3> USE DEF Sequence, OneInstall, OneRemoval, Special, Senders, Replacing, Undone
    <3>1. Harmless(OneInstall)
      OBVIOUS
    <3>2. Harmless(OneRemoval)
      OBVIOUS
    <3>3. Harmless(<<>> \o <<"load-registry", "record-plugin">>)
      OBVIOUS
    <3>4. Harmless(<<"npm">> \o <<"load-registry", "record-plugin">>)
      OBVIOUS
    <3>5. QED
      BY <3>1, <3>2, <3>3, <3>4
  <2>2. PluginNames =>  \E S, p : Harmless(p) /\ todo' = Each(S, p) \o Tail(todo) \o <<"exits">>
    BY <2>1 DEF PluginNames, For, Without
  <2>3. QED
    BY <2>2, <1>b, <1>d
<1>6. InstalledPlugins => Shifted
  <2>1. Harmless(<<"npm">>) /\ Harmless(<<>>) /\ Harmless(OneInstall)
    BY DEF Sequence, Special, OneInstall, Senders, Replacing, Undone
  <2>2. CASE command = "plugins-update"
    BY <2>1, <2>2, <1>b, <1>d DEF InstalledPlugins, For
  <2>3. CASE command # "plugins-update"
    <3>1. ASSUME NEW q \in {<<>>, <<"remove-all">>}, NEW r, Harmless(r)
          PROVE  Harmless(<<"clear-registry">> \o q \o r \o <<"exits">>)
      <4>1. CASE q = <<>>
        BY <3>1, <4>1 DEF Sequence, Special, Senders, Replacing, Undone
      <4>2. CASE q = <<"remove-all">>
        BY <3>1, <4>2 DEF Sequence, Special, Senders, Replacing, Undone
      <4>3. QED
        BY <4>1, <4>2
    <3>2. InstalledPlugins =>
            \E q, r : q \in {<<>>, <<"remove-all">>} /\ Harmless(r)
                       /\ todo' = <<"clear-registry">> \o q \o r \o <<"exits">>
      BY <2>1, <2>3, <1>d DEF InstalledPlugins, Chosen
    <3>3. QED
      BY <3>1, <3>2, <1>b
  <2>4. QED
    BY <2>2, <2>3
<1>7. NpmFails => Shifted
  <2>1. NpmFails => todo' = <<>> \/ \E k \in {2, 4} : todo' = SubSeq(todo, k, Len(todo))
    BY DEF NpmFails, Return
  <2>2. QED
    BY <2>1, <1>a, <1>c
<1>8. DropPlugin => Shifted
  <2>1. DropPlugin => todo' = Tail(todo) \/ todo' = SubSeq(todo, 3, Len(todo))
    BY DEF DropPlugin, Pass
  <2>2. CASE todo' = SubSeq(todo, 3, Len(todo))
    <3>1. 3 \in Nat \ {0}
      OBVIOUS
    <3>2. QED
      BY <2>2, <3>1, <1>c
  <2>3. QED
    BY <2>1, <2>2, <1>a
<1>9. DetectInstall => Shifted
  <2>1. DetectInstall => Harmless(Standalone) /\ Harmless(<<"package-manager">>)
    <3>1. DetectInstall => command = "upgrade"
      BY DEF DetectInstall, At, Planned, PlanIsSound, Sequence
    <3>2. QED
      BY <3>1 DEF Sequence, Special, Senders, Replacing, Undone, Standalone
  <2>2. QED
    BY <2>1, <1>b DEF DetectInstall
<1>10. NotifyAndRefresh => Shifted
  <2>1. Harmless(<<"latest", "update-cache">>)
    BY DEF Sequence, Special, Senders, Replacing, Undone
  <2>2. QED
    BY <2>1, <1>a, <1>b DEF NotifyAndRefresh, Return
<1>11. QED
  BY <1>1, <1>2, <1>3, <1>4, <1>5, <1>6, <1>7, <1>8, <1>9, <1>10 DEF Alters

(* A step that matters was left before.                                    *)
LEMMA ShiftedNames ==
  ASSUME Shifted, NEW i \in DOMAIN todo', todo'[i] \in Special
  PROVE  todo'[i] \in Names(todo)
BY DEF Shifted, Moved, Names

(* PlanIsSound is kept by every step.                                      *)
LEMMA PlanGoesOn ==
  ASSUME PlanIsSound, Taken
  PROVE  PlanIsSound' /\ Shifted /\ (Alters \/ todo' \in {todo, <<>>, Tail(todo)})
<1>1. todo # <<>> /\ Same
  BY DEF Taken, Planned
<1>2. Alters \/ todo' \in {todo, <<>>, Tail(todo)}
  BY DEF Taken, Ordinary, Goes, Sends, CheckPlan, CheckStoreKind, Bind, GraphiqlServes,
     CreateStorefront, ExecuteAnyDocument,
     Subscribe, PollLogs, AppLogs, Pass, Step, Then, Return, Stay, ReadRequest, TakeClient,
     MakeClient, CheckPolicy, ServeDocument, StopServing
<1>3. Shifted
  BY <1>1, <1>2, TailShifts, AltersShifts
<1>4. QED
  BY <1>1, <1>2, <1>3, ShiftedPlan

(* ServesLast is kept by every step.                                       *)
LEMMA ServesLastGoesOn ==
  ASSUME PlanIsSound, ServesLast, Taken
  PROVE  ServesLast'
<1>1. todo # <<>> /\ Sequence(todo) /\ UNCHANGED command
  BY DEF Taken, Planned, PlanIsSound, Same
<1>2. SUFFICES ASSUME Serves
               PROVE  ServesLast'
  BY <1>1 DEF ServesLast, Serves
<1>3. CASE Ordinary
  <2>1. ~Alters
    BY <1>2, AltersShifts DEF Straight
  <2>2. Bound => Bound'
    BY <1>3 DEF Ordinary, Remembers, Bound
  <2>3. CASE todo' = Tail(todo) /\ Head(todo) \notin {"bind", "serve"}
    <3>1. /\ Len(todo) >= 2 /\ todo[Len(todo)] = "serve" /\ todo[Len(todo) - 1] = "bind"
          /\ \A i \in 1..(Len(todo) - 2) : todo[i] \notin {"bind", "serve"}
      BY <1>1, <1>2, <2>3 DEF ServesLast, Sequence
    <3>2. Len(todo) > 2
      BY <1>1, <2>3, <3>1 DEF Sequence
    <3>3. Len(todo') = Len(todo) - 1 /\ \A i \in 1..(Len(todo) - 1) : todo'[i] = todo[i + 1]
      BY <1>1, <2>3 DEF Sequence
    <3>4. /\ Len(todo') >= 2 /\ todo'[Len(todo')] = "serve" /\ todo'[Len(todo') - 1] = "bind"
          /\ \A i \in 1..(Len(todo') - 2) : todo'[i] \notin {"bind", "serve"}
      <4> DEFINE n == Len(todo)
      <4>1. n \in Nat /\ n > 2 /\ Len(todo') = n - 1 /\ \A i \in 1..(n - 1) : todo'[i] = todo[i + 1]
        BY <1>1, <3>2, <3>3 DEF Sequence
      <4>2. todo[n] = "serve" /\ todo[n - 1] = "bind" /\ \A i \in 1..(n - 2) : todo[i] \notin {"bind", "serve"}
        BY <3>1
      <4> HIDE DEF n
      <4>3. todo'[n - 1] = "serve" /\ todo'[n - 2] = "bind"
        BY <4>1, <4>2
      <4>4. \A i \in 1..(n - 3) : todo'[i] \notin {"bind", "serve"}
        BY <4>1, <4>2
      <4>5. QED
        BY <4>1, <4>3, <4>4
    <3>5. QED
      BY <3>4 DEF ServesLast
  <2>4. CASE todo' \in {todo, <<>>}
    BY <1>2, <2>2, <2>4 DEF ServesLast
  <2>5. QED
    BY <1>3, <2>1, <2>3, <2>4 DEF Ordinary, Goes, Sends, Unpassed, Senders
<1>4. CASE CheckPlan
  BY <1>1, <1>2, <1>4 DEF CheckPlan, ServesLast, Sequence, Serves, At, Pass
<1>5. CASE CheckStoreKind
  <2>1. todo' = <<>> \/ (At("store-kind") /\ Pass)
    BY <1>5 DEF CheckStoreKind, Step, Then, Return, Pass, At
  <2>2. CASE todo' = <<>>
    BY <2>2 DEF ServesLast
  <2>3. CASE At("store-kind") /\ Pass
    BY <1>1, <1>2, <2>3 DEF ServesLast, Sequence, Serves, At, Pass
  <2>4. QED
    BY <2>1, <2>2, <2>3
<1>6. CASE Bind
  <2>1. Bound'
    BY <1>6 DEF Bind, Bound, Over
  <2>2. QED
    BY <1>1, <1>2, <1>6, <2>1 DEF Bind, ServesLast, Sequence, Serves, At, Pass
<1>7. CASE GraphiqlServes
  <2>1. Head(todo) = "serve" /\ DOMAIN held' = DOMAIN held /\ todo' \in {todo, <<>>}
    BY <1>7 DEF GraphiqlServes, ReadRequest, TakeClient, MakeClient, CheckPolicy, ServeDocument,
       StopServing, Serving, Moves, At, Stay, Return
  <2>2. QED
    BY <1>1, <1>2, <2>1 DEF ServesLast, Sequence, Serves, Bound
<1>8. CASE CreateStorefront \/ ExecuteAnyDocument \/ Subscribe \/ PollLogs \/ AppLogs
  <2>1. Head(todo) \in {"storefront", "execute-document", "subscribe", "stream"}
    BY <1>8 DEF CreateStorefront, ExecuteAnyDocument, Subscribe, PollLogs, AppLogs, At, Streaming
  <2>2. QED
    BY <1>1, <1>2, <2>1 DEF PlanIsSound, Sequence, Serves
<1>9. QED
  BY <1>3, <1>4, <1>5, <1>6, <1>7, <1>8 DEF Taken

-----------------------------------------------------------------------------
(* What has been sent.                                                     *)

(* What has been learnt stays known.                                       *)
LEMMA NothingForgotten ==
  Taken => \A k \in DOMAIN held : k \in DOMAIN held'
BY DEF Taken, Ordinary, Remembers, CheckPlan, CheckStoreKind, Bind, GraphiqlServes,
   CreateStorefront, ExecuteAnyDocument,
   Subscribe, PollLogs, AppLogs, Over, Only, Learn, Step, Stay, ReadRequest, TakeClient, MakeClient,
   CheckPolicy,
   ServeDocument, StopServing, Moves, Quiet, OnServer

(* A step that sends is not left once it is over.                          *)
LEMMA NotTwice ==
  ASSUME PlanIsSound, todo # <<>>, todo' \in {<<>>, Tail(todo)}, Head(todo) \in Senders
  PROVE  Head(todo) \in Names(todo) /\ Head(todo) \notin Names(todo')
BY DEF PlanIsSound, Sequence, Names

(* A list with one more.                                                   *)
LEMMA Appended ==
  ASSUME NEW s, NEW x, Sequence(s)
  PROVE  /\ Sequence(Append(s, x))
         /\ DOMAIN Append(s, x) = DOMAIN s \union {Len(s) + 1}
         /\ \A i \in DOMAIN s : Append(s, x)[i] = s[i] /\ i # Len(s) + 1
         /\ Append(s, x)[Len(s) + 1] = x
         /\ Names(Append(s, x)) = Names(s) \union {x}
<1>1. /\ Sequence(Append(s, x))
      /\ DOMAIN Append(s, x) = DOMAIN s \union {Len(s) + 1}
      /\ \A i \in DOMAIN s : Append(s, x)[i] = s[i] /\ i # Len(s) + 1
      /\ Append(s, x)[Len(s) + 1] = x
  BY DEF Sequence
<1>2. QED
  BY <1>1 DEF Names

(* The GraphiQL server is bound when it serves.                            *)
LEMMA BoundAtServe ==
  ASSUME PlanIsSound, ServesLast, todo # <<>>, Head(todo) = "serve"
  PROVE  Serves /\ Bound
<1>1. Sequence(todo) /\ todo[1] = "serve" /\ 1 \in DOMAIN todo
  BY DEF PlanIsSound, Sequence
<1>2. Serves
  BY <1>1 DEF PlanIsSound
<1>3. QED
  BY <1>1, <1>2 DEF ServesLast, Sequence

(* A request that is done stays done, while the server goes on.            *)
LEMMA OneDone ==
  ASSUME GraphiqlServes, Bound, NEW x \in Connections, held[x] = "done"
  PROVE  todo' \in {todo, <<>>} /\ held'[x] = "done"
<1> USE ConnectionsApart
<1>1. CASE StopServing
  BY <1>1 DEF StopServing, Return
<1>2. ASSUME NEW c \in Connections, ReadRequest(c)
      PROVE  todo' \in {todo, <<>>} /\ held'[x] = "done"
  BY <1>2 DEF ReadRequest, Moves, Serving, Stay, Bound
<1>3. ASSUME NEW c \in Connections, TakeClient(c)
      PROVE  todo' \in {todo, <<>>} /\ held'[x] = "done"
  BY <1>3 DEF TakeClient, Moves, Serving, Stay, Bound
<1>4. ASSUME NEW c \in Connections, MakeClient(c)
      PROVE  todo' \in {todo, <<>>} /\ held'[x] = "done"
  BY <1>4 DEF MakeClient, Moves, Serving, Stay, Bound
<1>5. ASSUME NEW c \in Connections, CheckPolicy(c)
      PROVE  todo' \in {todo, <<>>} /\ held'[x] = "done"
  BY <1>5 DEF CheckPolicy, Moves, Serving, Stay, Bound
<1>6. ASSUME NEW c \in Connections, ServeDocument(c)
      PROVE  todo' \in {todo, <<>>} /\ held'[x] = "done"
  BY <1>6 DEF ServeDocument, Moves, Serving, Stay, Bound
<1>7. QED
  BY <1>1, <1>2, <1>3, <1>4, <1>5, <1>6 DEF GraphiqlServes

(* SentOnce is kept by every step.                                         *)
LEMMA SentOnceGoesOn ==
  ASSUME PlanIsSound, ServesLast, SentOnce, Taken
  PROVE  SentOnce'
<1>1. todo # <<>> /\ Sequence(todo) /\ Sequence(sent) /\ UNCHANGED command /\ Planned
  BY DEF Taken, Planned, PlanIsSound, Same, SentOnce
<1>2. Shifted /\ Sequence(todo')
  BY PlanGoesOn DEF Shifted
<1>3. \A k \in DOMAIN held : k \in DOMAIN held'
  BY NothingForgotten
<1>4. \A s \in Senders : s \in Names(todo') => s \in Names(todo)
  BY <1>2, ShiftedNames DEF Names, Special
<1>5. Head(todo) = todo[1] /\ 1 \in DOMAIN todo
  BY <1>1 DEF Sequence
<1>6. ASSUME NEW x, Told(x)
      PROVE  Told(x)'
  <2>1. CASE x \notin Connections
    BY <1>1, <1>3, <1>4, <1>6, <2>1 DEF Told, Knows
  <2>2. CASE x \in Connections
    <3>1. Serves /\ Head(todo) = "serve" /\ held[x] = "done" /\ x \notin Senders /\ x # "create-storefront"
      BY <1>1, <1>6, <2>2, ConnectionsApart DEF Told
    <3>2. todo' \in {todo, <<>>} /\ held'[x] = "done"
      <4>1. CASE Ordinary
        <5>1. ~Alters
          BY <3>1, AltersShifts DEF Straight
        <5>2. QED
          BY <3>1, <4>1, <5>1 DEF Ordinary, Goes, Sends, Remembers, Unpassed, Senders
      <4>2. CASE GraphiqlServes
        BY <1>1, <2>2, <3>1, <4>2, OneDone, BoundAtServe
      <4>3. QED
        BY <3>1, <4>1, <4>2 DEF Taken, CheckPlan, CheckStoreKind, Bind, CreateStorefront,
           ExecuteAnyDocument, Subscribe, PollLogs, AppLogs, Step, Streaming, At
    <3>3. QED
      BY <1>1, <2>2, <3>1, <3>2 DEF Told, Serves
  <2>3. QED
    BY <2>1, <2>2
<1>7. CASE sent' = sent
  BY <1>1, <1>6, <1>7 DEF SentOnce, MutatesOnce
<1>8. ASSUME NEW y, sent' = Append(sent, y), command # "store-execute" => Told(y)' /\ y \notin Names(sent)
      PROVE  SentOnce'
  <2>1. Sequence(sent')
    BY <1>1, <1>8, Appended
  <2>2. CASE command # "store-execute"
    <3>1. MutatesOnce'
      BY <1>1, <1>8, <2>2, Appended DEF SentOnce, MutatesOnce, Names
    <3>2. \A x \in Names(sent') : Told(x)'
      BY <1>1, <1>6, <1>8, <2>2, Appended DEF SentOnce
    <3>3. QED
      BY <2>1, <3>1, <3>2 DEF SentOnce
  <2>3. QED
    BY <1>1, <2>1, <2>2 DEF SentOnce
<1>9. CASE Sends
  <2>1. ASSUME NEW y, y = Head(todo)
        PROVE  SentOnce'
    <3>1. y \in Senders /\ y \in Names(todo) /\ y \notin Names(todo')
      BY <1>1, <1>9, <2>1, NotTwice DEF Sends
    <3>2. command # "store-execute" => y \notin Names(sent)
      BY <3>1 DEF SentOnce, Told
    <3>3. Told(y)'
      BY <3>1, ConnectionsApart DEF Told, Senders
    <3>4. QED
      BY <1>8, <1>9, <2>1, <3>2, <3>3 DEF Sends
  <2>2. QED
    BY <2>1
<1>10. CASE CreateStorefront
  <2>1. command # "store-execute" => "create-storefront" \notin Names(sent)
    BY <1>1, <1>10 DEF CreateStorefront, SentOnce, Told
  <2>2. Told("create-storefront")'
    BY <1>10, ConnectionsApart DEF CreateStorefront, Told, Learn, Over, Only, Knows, Senders, Return
  <2>3. QED
    BY <1>8, <1>10, <2>1, <2>2 DEF CreateStorefront
<1>11. ASSUME NEW c \in Connections, ServeDocument(c)
       PROVE  SentOnce'
  <2>1. Serves /\ Head(todo) = "serve" /\ todo' = todo /\ held[c] = "execute" /\ sent' = Append(sent, c)
    BY <1>1, <1>5, <1>11 DEF ServeDocument, Serving, At, PlanIsSound, Stay
  <2>2. command # "store-execute" => c \notin Names(sent)
    BY <2>1 DEF SentOnce, Told
  <2>3. held'[c] = "done"
    BY <1>1, <1>11, <2>1, BoundAtServe DEF ServeDocument, Moves, Bound
  <2>4. Told(c)'
    BY <1>1, <2>1, <2>3, ConnectionsApart DEF Told, Serves
  <2>5. QED
    BY <1>8, <2>1, <2>2, <2>4
<1>12. CASE ExecuteAnyDocument
  <2>1. command = "store-execute"
    BY <1>1, <1>5, <1>12 DEF ExecuteAnyDocument, At, PlanIsSound
  <2>2. QED
    BY <1>8, <1>12, <2>1 DEF ExecuteAnyDocument
<1>13. CASE GraphiqlServes
  BY <1>7, <1>11, <1>13 DEF GraphiqlServes, ReadRequest, TakeClient, MakeClient, CheckPolicy,
     StopServing, Quiet
<1>14. CASE Ordinary
  BY <1>7, <1>9, <1>14, AltersShifts DEF Ordinary, Goes
<1>15. CASE Subscribe
  BY <1>9, <1>15 DEF Subscribe, Sends, At, Pass, Senders
<1>16. CASE CheckPlan \/ CheckStoreKind \/ Bind \/ PollLogs \/ AppLogs
  BY <1>7, <1>16 DEF CheckPlan, CheckStoreKind, Bind, PollLogs, AppLogs, Step, Quiet
<1>17. QED
  BY <1>10, <1>12, <1>13, <1>14, <1>15, <1>16 DEF Taken

-----------------------------------------------------------------------------
(* What is allowed.                                                        *)

(* A plan that is known stays known, whatever becomes of the store's.      *)
LEMMA PlanStaysKnown ==
  ASSUME Taken, PlanKnown
  PROVE  PlanKnown'
<1> USE ConnectionsApart DEF PlanKnown, Knows
<1>1. CASE Ordinary
  BY <1>1 DEF Ordinary, Remembers, Watched
<1>2. CASE CheckPlan
  BY <1>2 DEF CheckPlan, Learn, Over, Only
<1>3. CASE Bind
  BY <1>3 DEF Bind, Over
<1>4. CASE GraphiqlServes
  BY <1>4 DEF GraphiqlServes, ReadRequest, TakeClient, MakeClient, CheckPolicy, ServeDocument,
     StopServing, Moves
<1>5. CASE CheckStoreKind \/ CreateStorefront \/ ExecuteAnyDocument \/ Subscribe \/ PollLogs \/ AppLogs
  BY <1>5 DEF CheckStoreKind, CreateStorefront, ExecuteAnyDocument, Subscribe, PollLogs, AppLogs,
     Step, Learn, Over, Only, OnServer
<1>6. QED
  BY <1>1, <1>2, <1>3, <1>4, <1>5 DEF Taken

(* What is sent anew is what its step is named for, a browser's document,  *)
(* or what two commands send.                                              *)
LEMMA WhatIsSent ==
  ASSUME PlanIsSound, SentOnce, Taken, NEW s, Did(s)', ~Did(s)
  PROVE  \/ Sends /\ Head(todo) = s
         \/ s \in Connections /\ ServeDocument(s)
         \/ s \in {"create-storefront", "execute-document"}
<1>1. ~(sent' = sent)
  BY DEF Did
<1>2. \A x : sent' = Append(sent, x) => x = s
  BY Appended DEF Did, SentOnce
<1>3. Ordinary => Sends /\ Head(todo) = s
  BY <1>1, <1>2, AltersShifts DEF Ordinary, Goes, Sends
<1>4. Subscribe => Sends /\ Head(todo) = s
  BY <1>2 DEF Subscribe, Sends, At, Pass, Senders
<1>5. GraphiqlServes => \E c \in Connections : ServeDocument(c)
  BY <1>1 DEF GraphiqlServes, ReadRequest, TakeClient, MakeClient, CheckPolicy, StopServing, Quiet
<1>6. \A c \in Connections : ServeDocument(c) => c = s
  BY <1>2 DEF ServeDocument
<1>7. CreateStorefront \/ ExecuteAnyDocument => s \in {"create-storefront", "execute-document"}
  BY <1>2 DEF CreateStorefront, ExecuteAnyDocument
<1>8. ~(CheckPlan \/ CheckStoreKind \/ Bind \/ PollLogs \/ AppLogs)
  BY <1>1 DEF CheckPlan, CheckStoreKind, Bind, PollLogs, AppLogs, Step, Quiet
<1>9. QED
  BY <1>3, <1>4, <1>5, <1>6, <1>7, <1>8 DEF Taken

(* It still does once the first step is over, unless that is an early one. *)
LEMMA TailPrecedes ==
  ASSUME NEW s, Sequence(s), s # <<>>, NEW early, NEW late, Precedes(early, s, late), Head(s) \notin early
  PROVE  Precedes(early, Tail(s), late)
<1> DEFINE n == Len(s)  t == Tail(s)
<1>1. n \in Nat /\ DOMAIN s = 1..n /\ n > 0
  BY DEF Sequence
<1>2. DOMAIN t = 1..(n - 1) /\ \A i \in 1..(n - 1) : t[i] = s[i + 1]
  BY DEF Sequence
<1>3. s[1] \notin early
  BY <1>1 DEF Sequence
<1> HIDE DEF n, t
<1>4. ASSUME NEW i \in DOMAIN t, t[i] \in late
      PROVE  \E j \in 1..(i - 1) : t[j] \in early
  <2>1. PICK j \in 1..i : s[j] \in early
    <3>1. i + 1 \in DOMAIN s /\ s[i + 1] \in late
      BY <1>1, <1>2, <1>4
    <3>2. \E j \in 1..(i + 1 - 1) : s[j] \in early
      BY <3>1 DEF Precedes
    <3>3. QED
      BY <3>2, <1>1, <3>1
  <2>2. j # 1 /\ j - 1 \in 1..(i - 1) /\ t[j - 1] = s[j]
    BY <1>1, <1>2, <1>3, <1>4, <2>1
  <2>3. QED
    BY <2>1, <2>2
<1>5. QED
  BY <1>4 DEF Precedes, t

(* AskedFirst is kept by every step.                                       *)
LEMMA AskedFirstGoesOn ==
  ASSUME PlanIsSound, SentOnce, AskedFirst, Taken
  PROVE  AskedFirst'
<1> DEFINE Early == {"plan", "store-kind"}
           Late == {"run", "execute"}
<1>1. todo # <<>> /\ Sequence(todo) /\ UNCHANGED <<command, given>> /\ Planned
  BY DEF Taken, Planned, PlanIsSound, Same
<1>2. Shifted
  BY PlanGoesOn
<1>3. SUFFICES ASSUME "mutation" \in given, "allow" \notin given
               PROVE  /\ \A i \in DOMAIN todo' : todo'[i] \in Late =>
                           PlanKnown' \/ \E j \in 1..(i - 1) : todo'[j] \in Early
                      /\ (Did("run") \/ Did("execute"))' => PlanKnown'
  BY <1>1 DEF AskedFirst
<1>4. PlanKnown => PlanKnown'
  BY PlanStaysKnown
<1>5. ~PlanKnown => Precedes(Early, todo, Late) /\ ~Did("run") /\ ~Did("execute")
  BY <1>3 DEF AskedFirst, Precedes
<1>6. PlanKnown' \/ Precedes(Early, todo', Late)
  <2>1. CASE todo' = todo
    BY <1>4, <1>5, <2>1
  <2>2. CASE todo' = <<>>
    BY <2>2 DEF Precedes
  <2>3. CASE todo' = Tail(todo) /\ Head(todo) \notin Early
    BY <1>1, <1>4, <1>5, <2>3, TailPrecedes
  <2>4. CASE Alters
    <3>1. ~Straight
      BY <2>4, AltersShifts
    <3>2. \A i \in DOMAIN todo : todo[i] \notin Late
      BY <3>1 DEF PlanIsSound, Straight
    <3>3. \A i \in DOMAIN todo' : todo'[i] \notin Late
      BY <1>2, <3>2, ShiftedNames DEF Names, Special, Senders, Replacing, Undone
    <3>4. QED
      BY <3>3 DEF Precedes
  <2>5. CASE CheckPlan
    BY <2>5 DEF CheckPlan, PlanKnown, Knows, Learn, Over, Only
  <2>6. ~CheckStoreKind
    BY <1>3 DEF CheckStoreKind
  <2>7. Ordinary => Alters \/ todo' = todo \/ todo' = <<>> \/ (todo' = Tail(todo) /\ Head(todo) \notin Early)
    BY DEF Ordinary, Goes, Sends, Unpassed, Senders
  <2>8. Bind \/ GraphiqlServes \/ CreateStorefront \/ ExecuteAnyDocument \/ Subscribe \/ PollLogs \/ AppLogs
          => todo' = todo \/ todo' = <<>> \/ (todo' = Tail(todo) /\ Head(todo) \notin Early)
    BY DEF Bind, GraphiqlServes, CreateStorefront, ExecuteAnyDocument, Subscribe, PollLogs, AppLogs,
       At, Pass, Stay, Then, Return,
       ReadRequest, TakeClient, MakeClient, CheckPolicy, ServeDocument, StopServing, Streaming
  <2>9. QED
    BY <2>1, <2>2, <2>3, <2>4, <2>5, <2>6, <2>7, <2>8 DEF Taken
<1>7. ASSUME NEW s \in Late, Did(s)'
      PROVE  PlanKnown'
  <2>1. CASE Did(s)
    BY <1>4, <1>5, <2>1
  <2>2. CASE ~Did(s)
    <3>1. Sends /\ Head(todo) = s
      BY <1>7, <2>2, WhatIsSent, ConnectionsApart DEF Senders
    <3>2. todo[1] = s /\ 1 \in DOMAIN todo
      BY <1>1, <3>1 DEF Sequence
    <3>3. PlanKnown
      BY <1>5, <3>2 DEF Precedes
    <3>4. QED
      BY <1>4, <3>3
  <2>3. QED
    BY <2>1, <2>2
<1>8. QED
  BY <1>6, <1>7 DEF Precedes

(* What MakeClient does, where it makes the client and where it fails to.  *)
LEMMA ClientIsMade ==
  ASSUME Bound, NEW c \in Connections, MakeClient(c)
  PROVE  /\ held[c] = "exchange" /\ held'[c] \in {"policy", "done"}
         /\ held'.made = (IF held'[c] = "policy" THEN held.made \union {c} ELSE held.made)
         /\ held'.client = (IF held'[c] = "policy" THEN TRUE ELSE held.client)
         /\ held'.checked = held.checked
         /\ \A d \in Connections : d # c => held'[d] = held[d]
<1> USE ConnectionsApart DEF Bound
<1>1. CASE held' = [held EXCEPT ![c] = "policy", !.lock = FALSE, !.client = TRUE, !.made = @ \union {c}]
  BY <1>1 DEF MakeClient, Serving
<1>2. CASE held' = [held EXCEPT ![c] = "done", !.lock = FALSE]
  BY <1>2 DEF MakeClient, Serving
<1>3. QED
  BY <1>1, <1>2 DEF MakeClient

(* OneClient is kept by every step of the server.                          *)
LEMMA OneClientGoesOn ==
  ASSUME Bound, OneClient, GraphiqlServes
  PROVE  OneClient' /\ Bound'
<1> USE ConnectionsApart DEF Bound
<1>1. DOMAIN held' = DOMAIN held
  BY DEF GraphiqlServes, ReadRequest, TakeClient, MakeClient, CheckPolicy, ServeDocument,
     StopServing, Moves
<1>2. ASSUME NEW c \in Connections, ReadRequest(c)
      PROVE  OneClient'
  BY <1>2 DEF ReadRequest, Moves, Serving, OneClient
<1>3. ASSUME NEW c \in Connections, TakeClient(c)
      PROVE  OneClient'
  BY <1>3 DEF TakeClient, Moves, Serving, OneClient
<1>4. ASSUME NEW c \in Connections, MakeClient(c)
      PROVE  OneClient'
  <2>1. held.lock /\ ~held.client /\ held.made = {} /\ held[c] = "exchange"
    BY <1>4, ClientIsMade DEF OneClient
  <2>2. \A d \in Connections : held'[d] # "exchange"
    BY <1>4, <2>1, ClientIsMade DEF OneClient
  <2>3. (~held'.client => held'.made = {}) /\ \A d, e \in held'.made : d = e
    BY <1>4, <2>1, ClientIsMade
  <2>4. QED
    BY <2>2, <2>3 DEF OneClient
<1>5. ASSUME NEW c \in Connections, CheckPolicy(c)
      PROVE  OneClient'
  BY <1>5 DEF CheckPolicy, Moves, Serving, OneClient
<1>6. ASSUME NEW c \in Connections, ServeDocument(c)
      PROVE  OneClient'
  BY <1>6 DEF ServeDocument, Moves, Serving, OneClient
<1>7. CASE StopServing
  BY <1>7 DEF StopServing, OneClient
<1>8. QED
  BY <1>1, <1>2, <1>3, <1>4, <1>5, <1>6, <1>7 DEF GraphiqlServes

(* Checked is kept by every step of the server.                            *)
LEMMA CheckedGoesOn ==
  ASSUME Bound, Checked, Sequence(sent), "asks" \in DOMAIN server, GraphiqlServes, Same
  PROVE  Checked' /\ server'.asks = server.asks /\ "asks" \in DOMAIN server'
<1> USE ConnectionsApart DEF Bound
<1>1. given' = given
  BY DEF Same
<1>2. server'.asks = server.asks /\ "asks" \in DOMAIN server'
  BY DEF GraphiqlServes, ReadRequest, TakeClient, MakeClient, CheckPolicy, ServeDocument,
     StopServing, Quiet
<1>3. ASSUME NEW c \in Connections, ReadRequest(c)
      PROVE  Checked'
  BY <1>1, <1>2, <1>3 DEF ReadRequest, Moves, Serving, Checked, MayServe, Did, Quiet
<1>4. ASSUME NEW c \in Connections, TakeClient(c)
      PROVE  Checked'
  BY <1>1, <1>2, <1>4 DEF TakeClient, Moves, Serving, Checked, MayServe, Did, Quiet
<1>5. ASSUME NEW c \in Connections, MakeClient(c)
      PROVE  Checked'
  <2>1. UNCHANGED sent
    BY <1>5 DEF MakeClient, Quiet
  <2>2. QED
    BY <1>1, <1>2, <1>5, <2>1, ClientIsMade DEF Checked, MayServe, Did
<1>6. ASSUME NEW c \in Connections, CheckPolicy(c)
      PROVE  Checked'
  BY <1>1, <1>2, <1>6 DEF CheckPolicy, Moves, Serving, Checked, MayServe, Did, Quiet
<1>7. ASSUME NEW c \in Connections, ServeDocument(c)
      PROVE  Checked'
  <2>1. \A d : Did(d)' => Did(d) \/ d = c
    BY <1>7, Appended DEF ServeDocument, Did
  <2>2. QED
    BY <1>1, <1>2, <1>7, <2>1 DEF ServeDocument, Moves, Serving, Checked, MayServe
<1>8. CASE StopServing
  BY <1>1, <1>2, <1>8 DEF StopServing, Checked, MayServe, Did, Quiet
<1>9. QED
  BY <1>2, <1>3, <1>4, <1>5, <1>6, <1>7, <1>8 DEF GraphiqlServes

(* ServedRight is kept by every step.                                      *)
LEMMA ServedRightGoesOn ==
  ASSUME PlanIsSound, ServesLast, SentOnce, ServedRight, Taken
  PROVE  ServedRight'
<1>1. todo # <<>> /\ Sequence(todo) /\ Sequence(sent) /\ Same /\ UNCHANGED <<command, given>>
  BY DEF Taken, Planned, PlanIsSound, Same, SentOnce
<1>2. Head(todo) = todo[1] /\ 1 \in DOMAIN todo
  BY <1>1 DEF Sequence
<1>3. SUFFICES ASSUME Serves
               PROVE  ServedRight'
  BY <1>1 DEF ServedRight, Serves
<1>4. Knows("made") => Head(todo) = "serve" /\ Bound /\ Len(todo) = 1
  BY <1>1, <1>2, <1>3 DEF ServesLast, ServedRight, Sequence
<1>5. "asks" \in DOMAIN server
  BY <1>3 DEF ServedRight
<1>12. ~(CreateStorefront \/ ExecuteAnyDocument \/ Subscribe \/ PollLogs \/ AppLogs)
  <2>1. Head(todo) \notin {"storefront", "execute-document", "subscribe", "stream"}
    BY <1>1, <1>2, <1>3 DEF PlanIsSound, Serves
  <2>2. QED
    BY <2>1 DEF CreateStorefront, ExecuteAnyDocument, Subscribe, PollLogs, AppLogs, At, Streaming
<1>6. CASE ~Knows("made") /\ ~Knows("made")'
  <2>1. \A c \in Connections : Did(c)' => Did(c)
    <3>1. Head(todo) = "serve" => Knows("made")
      BY <1>1, BoundAtServe DEF Bound, Knows
    <3>2. QED
      BY <1>6, <3>1, WhatIsSent, ConnectionsApart DEF Sends, ServeDocument, Serving, At
  <2>2. "asks" \in DOMAIN server'
    BY <1>5, <1>12 DEF Taken, Ordinary, Remembers, CheckPlan, CheckStoreKind, Bind, GraphiqlServes,
       Step, Quiet,
       ReadRequest, TakeClient, MakeClient, CheckPolicy, ServeDocument, StopServing
  <2>3. QED
    BY <1>3, <1>6, <2>1, <2>2 DEF ServedRight
<1>7. CASE Knows("made") /\ Ordinary
  <2>1. /\ UNCHANGED <<held, sent>> /\ todo' \in {todo, <<>>}
        /\ server'.asks = server.asks /\ "asks" \in DOMAIN server'
    <3>1. ~Alters
      BY <1>3, AltersShifts DEF Straight
    <3>2. QED
      BY <1>4, <1>5, <1>7, <3>1 DEF Ordinary, Goes, Sends, Remembers, Unpassed, Senders
  <2>2. QED
    BY <1>1, <1>3, <1>7, <2>1 DEF ServedRight, Knows, Bound, OneClient, Checked, MayServe, Did
<1>8. CASE Knows("made") /\ GraphiqlServes
  <2>1. todo' \in {todo, <<>>}
    BY <1>8 DEF GraphiqlServes, ReadRequest, TakeClient, MakeClient, CheckPolicy, ServeDocument,
       StopServing, Stay, Return
  <2>2. QED
    BY <1>1, <1>3, <1>4, <1>5, <1>8, <2>1, OneClientGoesOn, CheckedGoesOn DEF ServedRight, Knows, Bound
<1>9. CASE Bind
  <2>1. ~Knows("made") /\ Len(todo) = 2
    BY <1>1, <1>2, <1>3, <1>4, <1>9 DEF Bind, At, ServesLast, Sequence
  <2>2. \A c \in Connections : ~Did(c)
    BY <1>3, <2>1 DEF ServedRight
  <2>3. Len(todo') = 1 /\ server' = server /\ sent' = sent
    BY <1>1, <1>9, <2>1 DEF Bind, Pass, Quiet, Sequence
  <2>4. OneClient' /\ Bound' /\ \A c \in Connections : held'[c] = "new"
    BY <1>9, ConnectionsApart DEF Bind, Over, OneClient, Bound
  <2>5. QED
    BY <1>5, <2>1, <2>2, <2>3, <2>4 DEF ServedRight, Knows, Bound, Checked, Did
<1>11. CASE CheckPlan \/ CheckStoreKind
  <2>1. ~Knows("made") /\ ~Knows("made")'
    BY <1>4, <1>11 DEF CheckPlan, CheckStoreKind, At, Step, Learn, Over, Only, Knows
  <2>2. QED
    BY <2>1, <1>6
<1>10. CASE ~Knows("made") /\ (Ordinary \/ GraphiqlServes)
  <2>1. ~GraphiqlServes
    <3>1. Head(todo) # "serve"
      BY <1>1, <1>10, BoundAtServe DEF Bound, Knows
    <3>2. QED
      BY <3>1 DEF GraphiqlServes, ReadRequest, TakeClient, MakeClient, CheckPolicy, ServeDocument,
         StopServing, Serving, At
  <2>2. ~Knows("made")'
    BY <1>10, <2>1 DEF Ordinary, Remembers, Watched, Knows
  <2>3. QED
    BY <1>6, <1>10, <2>2
<1>13. QED
  BY <1>7, <1>8, <1>9, <1>10, <1>11, <1>12 DEF Taken

-----------------------------------------------------------------------------
(* The log.                                                                *)

(* The entries up to n, with those after them up to m.                     *)
LEMMA ShownGrows ==
  ASSUME NEW n \in Nat, NEW m \in Nat, n <= m
  PROVE  [i \in 1..n |-> i] \o [i \in 1..(m - n) |-> n + i] = [i \in 1..m |-> i]
<1> DEFINE s == [i \in 1..n |-> i]  t == [i \in 1..(m - n) |-> n + i]
<1>1. s \in Seq(Nat) /\ Len(s) = n /\ t \in Seq(Nat) /\ Len(t) = m - n
  OBVIOUS
<1>2. s \o t \in Seq(Nat) /\ Len(s \o t) = m
  BY <1>1
<1>3. \A i \in 1..m : (s \o t)[i] = i
  BY <1>1
<1>4. QED
  BY <1>2, <1>3

(* CursorIsTrue is kept by every step.                                     *)
LEMMA CursorGoesOn ==
  ASSUME PlanIsSound, CursorIsTrue, Taken
  PROVE  CursorIsTrue'
<1>1. todo # <<>> /\ Sequence(todo) /\ Same /\ UNCHANGED <<command, given>>
  BY DEF Taken, Planned, PlanIsSound, Same
<1>2. Head(todo) = todo[1] /\ 1 \in DOMAIN todo
  BY <1>1 DEF Sequence
<1>3. CASE command # "logs"
  <2>1. Head(todo) \notin {"subscribe", "stream"} /\ \A i \in DOMAIN todo : todo[i] # "stream"
    BY <1>2, <1>3 DEF PlanIsSound
  <2>2. ~(Subscribe \/ PollLogs \/ AppLogs) /\ ~Knows("shown")
    BY <1>3, <2>1 DEF Subscribe, PollLogs, AppLogs, At, Streaming, CursorIsTrue
  <2>3. \A i \in DOMAIN todo' : todo'[i] # "stream"
    BY <2>1, PlanGoesOn, ShiftedNames DEF Names, Special
  <2>4. ~Knows("shown")'
    BY <2>2, ConnectionsApart DEF Taken, Ordinary, Remembers, Watched, CheckPlan, CheckStoreKind,
       Bind, GraphiqlServes, CreateStorefront, ExecuteAnyDocument,
       Over, Only, Learn, Step, Stay, ReadRequest, TakeClient, MakeClient, CheckPolicy,
       ServeDocument, StopServing, Moves, OnServer, Knows
  <2>5. QED
    BY <1>1, <1>3, <2>3, <2>4 DEF CursorIsTrue
<1>4. CASE command = "logs"
  <2>1. "log" \in DOMAIN server /\ server.log \in Nat
    BY <1>4 DEF CursorIsTrue
  <2>2. ~(Bind \/ GraphiqlServes \/ CreateStorefront \/ ExecuteAnyDocument) /\ ~Alters
    <3>1. Head(todo) \notin {"bind", "serve", "storefront", "execute-document"}
      BY <1>2, <1>4 DEF PlanIsSound, Serves
    <3>2. ~Alters
      BY <1>4, AltersShifts DEF Straight
    <3>3. QED
      BY <3>1, <3>2 DEF Bind, GraphiqlServes, CreateStorefront, ExecuteAnyDocument, ReadRequest,
         TakeClient, MakeClient, CheckPolicy, ServeDocument, StopServing, Serving, At
  <2>3. ASSUME UNCHANGED server.log, "log" \in DOMAIN server',
               Knows("shown") => UNCHANGED <<held.cursor, held.shown, held.seen>>,
               Knows("shown")' <=> Knows("shown"), Knows("cursor") => Knows("cursor")',
               Knows("seen") => Knows("seen")',
               todo' \in {todo, <<>>} \/ (todo' = Tail(todo) /\ Head(todo) # "subscribe")
        PROVE  CursorIsTrue'
    <3>1. CASE Knows("shown")
      BY <1>1, <1>4, <2>1, <2>3, <3>1 DEF CursorIsTrue, Listened
    <3>2. CASE ~Knows("shown")
      <4>1. Precedes({"subscribe"}, todo, {"stream"})
        BY <3>2 DEF CursorIsTrue, Precedes
      <4>2. Precedes({"subscribe"}, todo', {"stream"})
        <5>1. Precedes({"subscribe"}, <<>>, {"stream"})
          BY DEF Precedes
        <5>2. QED
          BY <1>1, <2>3, <4>1, <5>1, TailPrecedes
      <4>3. QED
        BY <1>1, <1>4, <2>1, <2>3, <3>2, <4>2 DEF CursorIsTrue, Precedes
    <3>3. QED
      BY <3>1, <3>2
  <2>4. CASE Ordinary \/ CheckPlan \/ CheckStoreKind
    <3>1. UNCHANGED server.log /\ "log" \in DOMAIN server'
      BY <2>1, <2>4 DEF Ordinary, Remembers, CheckPlan, CheckStoreKind, Step, Quiet
    <3>2. /\ Knows("shown")' <=> Knows("shown")
          /\ Knows("cursor") => Knows("cursor")'
          /\ Knows("seen") => Knows("seen")'
      BY <2>4 DEF Ordinary, Remembers, Watched, CheckPlan, CheckStoreKind, Step, Learn, Over, Only,
         Knows
    <3>3. Knows("shown") => UNCHANGED <<held.cursor, held.shown, held.seen>>
      <4>1. Knows("shown") => Knows("cursor") /\ Knows("seen")
        BY DEF CursorIsTrue, Listened
      <4>2. QED
        BY <2>4, <4>1 DEF Ordinary, Remembers, Watched, CheckPlan, CheckStoreKind, Step, Learn,
           Over, Only, Knows
    <3>4. todo' \in {todo, <<>>} \/ (todo' = Tail(todo) /\ Head(todo) # "subscribe")
      BY <2>2, <2>4 DEF Ordinary, Goes, Sends, Unpassed, Senders, CheckPlan, CheckStoreKind, Step,
         At, Pass, Then, Return
    <3>5. QED
      BY <2>3, <3>1, <3>2, <3>3, <3>4
  <2>5. CASE Subscribe
    <3>1. UNCHANGED server.log /\ "log" \in DOMAIN server'
      BY <2>1, <2>5 DEF Subscribe
    <3>2. /\ Knows("shown")' /\ Knows("cursor")' /\ held'.cursor = 0 /\ held'.shown = <<>>
          /\ Knows("seen")' /\ held'.seen = {}
      BY <2>5 DEF Subscribe, Over, Knows
    <3>3. [i \in 1..0 |-> i] = <<>> /\ 1..0 = {}
      OBVIOUS
    <3>4. Listened'
      BY <2>1, <3>1, <3>2, <3>3 DEF Listened
    <3>5. QED
      BY <1>1, <1>4, <2>1, <3>1, <3>2, <3>4 DEF CursorIsTrue
  <2>6. CASE PollLogs
    <3>1. Knows("shown") /\ Listened
      BY <1>2, <2>6 DEF PollLogs, Streaming, At, CursorIsTrue
    <3>2. server' = server /\ todo' = todo
      BY <2>6 DEF PollLogs, Stay, Quiet
    <3>3. PICK last \in held.cursor..server.log :
            /\ DOMAIN held' = DOMAIN held
            /\ held'.seen = held.seen \union (held.cursor + 1)..last
            /\ \/ /\ held'.cursor = last
                  /\ held'.shown = held.shown \o [i \in 1..(last - held.cursor) |-> held.cursor + i]
               \/ held'.cursor = 0 /\ held'.shown = <<>>
      BY <2>6, <3>1 DEF PollLogs, Listened, Knows
    <3>4. held'.cursor \in {0, last} /\ held'.shown = [i \in 1..held'.cursor |-> i]
      <4>1. held.cursor \in Nat /\ last \in Nat /\ held.cursor <= last
        BY <2>1, <3>1 DEF Listened
      <4>2. held'.cursor = last =>
              \/ held'.shown = [i \in 1..last |-> i]
              \/ held'.shown = <<>> /\ last = 0
        <5> SUFFICES ASSUME held'.cursor = last
                     PROVE  \/ held'.shown = [i \in 1..last |-> i]
                            \/ held'.shown = <<>> /\ last = 0
          OBVIOUS
        <5>1. CASE held'.cursor = 0 /\ held'.shown = <<>>
          BY <5>1
        <5>2. CASE held'.shown = held.shown \o [i \in 1..(last - held.cursor) |-> held.cursor + i]
          <6>1. held.shown = [i \in 1..held.cursor |-> i]
            BY <3>1 DEF Listened
          <6>2. QED
            BY <4>1, <5>2, <6>1, ShownGrows
        <5>3. QED
          BY <3>3, <5>1, <5>2
      <4>3. [i \in 1..0 |-> i] = <<>>
        OBVIOUS
      <4>4. QED
        BY <3>3, <4>2, <4>3
    <3>5. \E n \in Nat : held'.cursor <= n /\ held'.seen = 1..n
      <4>1. PICK n \in Nat : held.cursor <= n /\ held.seen = 1..n
        BY <3>1 DEF Listened
      <4>2. held.cursor \in Nat /\ last \in Nat /\ held.cursor <= last
        BY <2>1, <3>1 DEF Listened
      <4>3. CASE last <= n
        <5>1. held'.seen = 1..n
          BY <3>3, <4>1, <4>2, <4>3
        <5>2. QED
          BY <3>4, <4>1, <4>2, <4>3, <5>1
      <4>4. CASE n < last
        <5>1. held'.seen = 1..last
          BY <3>3, <4>1, <4>2, <4>4
        <5>2. QED
          BY <3>4, <4>2, <5>1
      <4>5. QED
        BY <4>1, <4>2, <4>3, <4>4
    <3>6. Listened'
      <4>1. held'.cursor \in 0..server'.log
        BY <2>1, <3>1, <3>2, <3>4 DEF Listened
      <4>2. QED
        BY <3>1, <3>3, <3>4, <3>5, <4>1 DEF Listened, Knows
    <3>7. QED
      BY <1>1, <1>4, <2>1, <3>1, <3>2, <3>3, <3>6 DEF CursorIsTrue, Knows
  <2>7. CASE AppLogs
    <3>1. server'.log = server.log + 1 /\ "log" \in DOMAIN server' /\ UNCHANGED <<held, todo>>
      BY <2>1, <2>7 DEF AppLogs, Stay
    <3>2. QED
      BY <1>1, <1>4, <2>1, <3>1 DEF CursorIsTrue, Listened, Knows
  <2>8. QED
    BY <2>2, <2>4, <2>5, <2>6, <2>7 DEF Taken
<1>5. QED
  BY <1>3, <1>4

-----------------------------------------------------------------------------
(* A deployment stays one.                                                 *)
LEMMA DeploymentsAlone == DeployNext => UNCHANGED command
BY DEF DeployNext, Bundle, FinishBundle, List, Confirm, Read, RequestUpload, Put, PutAgain,
       CreateVersion, CreateUnanswered, Release, DeployFails, ConfirmRelease, FindVersion,
       ReleaseFails, CleanRemote, CleanLocal, CleanFails, OtherRelease, OtherBundle, commandVars, Fail,
       Succeed, Goto, End

(* PlanInv is inductive: it holds of every plan a command starts with, and *)
(* of a command without one, and every step keeps it.                      *)
LEMMA PlanInvHolds == Spec => []PlanInv
<1>1. Init => PlanInv
  <2> SUFFICES ASSUME Init PROVE PlanInv
    OBVIOUS
  <2>1. CASE Begins
    BY <2>1, PlansStart DEF Started
  <2>2. CASE Unplanned /\ command \in {"deploy", "release", "dev-clean", "build"}
    BY <2>2 DEF Unplanned, PlanInv, PlanIsSound, Sequence, ServesLast, SentOnce, AskedFirst,
       ServedRight,
             CursorIsTrue, MutatesOnce, Knows, Did, Serves, Names
  <2>3. QED
    BY <2>1, <2>2 DEF Init, DeployInit
<1>2. PlanInv /\ [Next]_vars => PlanInv'
  <2> SUFFICES ASSUME PlanInv, [Next]_vars PROVE PlanInv'
    OBVIOUS
  <2>1. CASE Taken
    BY <2>1, PlanGoesOn, ServesLastGoesOn, SentOnceGoesOn, AskedFirstGoesOn, ServedRightGoesOn,
       CursorGoesOn
       DEF PlanInv
  <2>2. CASE UNCHANGED <<command, plannedVars>>
    <3>1. UNCHANGED <<command, given, todo, held, server, sent>>
      BY <2>2 DEF plannedVars
    <3>2. PlanIsSound' /\ ServesLast'
      BY <3>1 DEF PlanInv, PlanIsSound, Sequence, ServesLast, Bound, Serves, Straight
    <3>3. SentOnce'
      BY <3>1 DEF PlanInv, SentOnce, Sequence, Told, MutatesOnce, Knows, Serves, Names
    <3>4. AskedFirst'
      BY <3>1 DEF PlanInv, AskedFirst, PlanKnown, Knows, Did
    <3>5. ServedRight'
      BY <3>1 DEF PlanInv, ServedRight, OneClient, Checked, MayServe, Bound, Knows, Did, Serves
    <3>6. CursorIsTrue'
      BY <3>1 DEF PlanInv, CursorIsTrue, Listened, Knows
    <3>7. QED
      BY <3>2, <3>3, <3>4, <3>5, <3>6 DEF PlanInv
  <2>3. Next => Taken \/ UNCHANGED <<command, plannedVars>>
    BY DeploymentsAlone, AnyStep DEF Next, commandVars
  <2>4. QED
    BY <2>1, <2>2, <2>3 DEF vars, commandVars
<1>3. QED
  BY <1>1, <1>2, PTL DEF Spec

(* MutatesOnce holds of every command but store execute, whatever answers  *)
(* are lost and wherever it fails or is stopped.                           *)
THEOREM AsksForAChangeOnce == Spec => []MutatesOnce
<1>1. PlanInv => MutatesOnce
  BY DEF PlanInv, SentOnce, MutatesOnce
<1>2. QED
  BY <1>1, PlanInvHolds, PTL

(* MutationAllowed holds for any number of browsers at once: a document    *)
(* that changes the store is sent to a development store, or because the   *)
(* command allows it, and the GraphiQL server makes one client.            *)
THEOREM OnlyWhatIsAllowed == Spec => []MutationAllowed
<1>1. PlanInv => MutationAllowed
  <2> SUFFICES ASSUME PlanInv PROVE MutationAllowed
    OBVIOUS
  <2>1. (Did("run") \/ Did("execute")) /\ "mutation" \in given =>
          "allow" \in given \/ (Knows("plan") /\ held.plan = "development")
    BY DEF PlanInv, AskedFirst, PlanKnown
  <2>2. ASSUME Serves, Knows("made")
        PROVE  /\ Cardinality(held.made) <= 1
               /\ \A c \in Connections : Did(c) => MayServe(c)
    <3>1. OneClient /\ Checked
      BY <2>2 DEF PlanInv, ServedRight
    <3>2. Cardinality(held.made) <= 1
      <4>1. \E c : held.made \subseteq {c}
        BY <3>1 DEF OneClient
      <4>2. QED
        BY <4>1, OneAtMost
    <3>3. QED
      BY <3>1, <3>2 DEF Checked
  <2>3. QED
    BY <2>1, <2>2 DEF MutationAllowed, Serves, MayServe
<1>2. QED
  BY <1>1, PlanInvHolds, PTL

(* NoLogLost holds for a log of any length, any pages, with a cursor or    *)
(* without one, and however often the subscription expires.                *)
THEOREM LogsAreShownInOrder == Spec => []NoLogLost
<1>1. PlanInv => NoLogLost
  <2>1. ASSUME Knows("shown"), Listened PROVE NoLogLost
    <3>1. PICK n \in Nat : held.cursor <= n /\ held.seen = 1..n
      BY <2>1 DEF Listened
    <3>2. held.cursor \in Int /\ 1..held.cursor \subseteq held.seen
      BY <2>1, <3>1 DEF Listened
    <3>3. QED
      BY <2>1, <3>1, <3>2 DEF Listened, NoLogLost
  <2>2. QED
    BY <2>1 DEF PlanInv, CursorIsTrue, NoLogLost
<1>2. QED
  BY <1>1, PlanInvHolds, PTL

-----------------------------------------------------------------------------
(* The steps and the files.                                                *)

Careful ==
  /\ agreed \subseteq agreed'
  /\ \A p \in DOMAIN files :
       Free(p) \/ (p \in DOMAIN files' /\ files'[p] \in MayBe(p) \union {files[p]}) \/ Renamed(p)'

(* What the step that comes next may replace.                              *)
MayReplace ==
  /\ Head(todo) \in {"clear", "save"} => Free("state")
  /\ Head(todo) \in Undone \union {"origin"} => Free("directory")
  /\ Head(todo) = "write-i18n" => Free("i18n")
  /\ Head(todo) = "write-stylesheet" => Free("stylesheet")
  /\ Head(todo) = "new-vite" => Free("vite")
  /\ Head(todo) = "drop-remix" => Free("remix")
  /\ Head(todo) \in {"unlink", "instance"} => files = found

(* A step replaces no file that is not free, but by what it was, what the  *)
(* user has made of it, or what the command has added to it.               *)
LEMMA StepsAreCareful ==
  ASSUME UserFilesKept, Allowed, MayReplace
  PROVE  Steps \/ World \/ StepFails(Handled) \/ Killed(Listening) => Careful
<1>0. \A p : Preserved \subseteq MayBe(p)
  BY DEF MayBe
<1>1. \A p : Free(p) \/ (p \in DOMAIN files /\ files[p] \in MayBe(p)) \/ Renamed(p)
  BY DEF UserFilesKept, Free
<1>2. UNCHANGED <<files, agreed>> => Careful
  BY DEF Careful
<1>3. ASSUME NEW p, NEW c, Set(p, c), agreed' = agreed,
             p \in DOMAIN files => Free(p) \/ c \in MayBe(p) \/ c \in Preserved
      PROVE  Careful
  BY <1>0, <1>3 DEF Careful, Set, Over, Only
<1>4. ASSUME NEW p, Gone(p), agreed' = agreed, Free(p)
      PROVE  Careful
  BY <1>4 DEF Careful, Gone
<1>5. AdminSteps => Careful
  <2>1. Download => Careful
    BY <1>2, <1>3 DEF Download, OnDisk, Allowed
  <2>2. ReportResult => Careful
    BY <1>2, <1>3 DEF ReportResult, Replace, Step, OnDisk, Quiet, Allowed
  <2>3. GraphiqlServes \/ Bind \/ PollLogs \/ Subscribe \/ Resubscribe => UNCHANGED <<files, agreed>>
    <3>1. ASSUME NEW c \in Connections, TakeClient(c) PROVE Quiet
      BY <3>1, Zenon DEF TakeClient
    <3>2. ASSUME NEW c \in Connections, MakeClient(c) PROVE Quiet
      BY <3>2, Zenon DEF MakeClient
    <3>3. ASSUME NEW c \in Connections, CheckPolicy(c) PROVE Quiet
      BY <3>3, Zenon DEF CheckPolicy
    <3>4. QED
      BY <3>1, <3>2, <3>3 DEF GraphiqlServes, ReadRequest, ServeDocument, StopServing, Bind, PollLogs,
           Subscribe, Resubscribe, Quiet
  <2>4. AdminSteps =>
          \/ Download \/ ReportResult \/ GraphiqlServes \/ Bind \/ PollLogs \/ Subscribe \/ Resubscribe
          \/ UNCHANGED <<files, agreed>>
    BY DEF AdminSteps, ReadDocument, ReadVariables, AppSecret, ExchangeCredentials, ResolveVersion,
         CheckPlan, CheckKind, StageUpload, UploadVariables, RunOperation, Poll, ReportOperation,
         ReadStatus, CancelOperation, ExecuteDocument, CheckTerminal, CheckSources, CheckStores,
         StopLogs, ChooseApiVersion, ChooseTopic, ResolveDelivery, Trigger, DeliverLocally, Step,
         Mutation, Quiet, OnServer
  <2>5. QED
    BY <1>2, <2>1, <2>2, <2>3, <2>4
<1>6. ConfigurationSteps => Careful
  <2>1. ReadEnvironment \/ ClearState => Careful
    BY <1>2, <1>4 DEF ReadEnvironment, ClearState, At, OnDisk, Allowed, MayReplace
  <2>2. SaveState => Careful
    BY <1>3 DEF SaveState, Replace, At, OnDisk, MayReplace
  <2>3. MapLocal => Careful
    BY DEF MapLocal, Careful
  <2>4. WriteConfig => Careful
    BY <1>3 DEF WriteConfig, Linked, Exists, Replace, OnDisk, Preserved
  <2>5. MergeEnv => Careful
    BY <1>3 DEF MergeEnv, Exists, Replace, OnDisk, Preserved
  <2>6. ConfigurationSteps =>
          \/ ReadEnvironment \/ ClearState \/ SaveState \/ MapLocal \/ WriteConfig \/ MergeEnv
          \/ UNCHANGED <<files, agreed>>
    BY DEF ConfigurationSteps, ReadSession, ManagementToken, ReadApp, ParseApp, DiscoverExtensions,
         DiscoverWebs, FindDuplicates, ReportValidity, LoadConfigs, LoadState, ChooseNamed,
       AskForConfig,
         ChooseValidated, ChoosePulled, Delegate, ListOrganizations, ChooseOrganization, CreateApp,
         ChooseApp, ListVersions, Diagnoses, Chooses, Step, Mutation, Quiet, OnServer
  <2>7. QED
    BY <1>2, <2>1, <2>2, <2>3, <2>4, <2>5, <2>6
<1>7. ScaffoldSteps => Careful
  <2>1. CloneApp => Careful
    BY <1>3 DEF CloneApp, Replace, OnDisk, Allowed, OwnFiles
  <2>2. MakeDirectory \/ InitGit \/ LinkDirectory \/ RemoveOrigin => Careful
    BY <1>3 DEF MakeDirectory, InitGit, LinkDirectory, RemoveOrigin, Replace, At, OnDisk,
       MayReplace, Undone
  <2>3. Unstage => Careful
    BY <1>4 DEF Unstage, OnDisk, Allowed, OwnFiles
  <2>4. RollBack \/ CreateInitApp => Careful
    <3>1. Free("staging")
      BY DEF Allowed, OwnFiles
    <3>2. Removed /\ Free("directory") /\ agreed' = agreed => Careful
      BY <3>1 DEF Removed, Careful
    <3>3. QED
      BY <1>2, <3>2 DEF RollBack, CreateInitApp, At, OnDisk, MayReplace, Undone
  <2>5. CloneTheme => Careful
    <3>1. Content("directory") \in {"none", "empty"} => Free("directory")
      BY <1>1 DEF Content, Exists, MayBe, Preserved, WrittenInPlace, Renames, Renamed
    <3>2. QED
      BY <1>3, <3>1 DEF CloneTheme, Replace, OnDisk
  <2>6. ScaffoldSteps =>
          \/ CloneApp \/ MakeDirectory \/ InitGit \/ LinkDirectory \/ RemoveOrigin \/ Unstage
          \/ RollBack \/ CreateInitApp \/ CloneTheme
          \/ UNCHANGED <<files, agreed>>
    BY DEF ScaffoldSteps, ChooseTemplate, CheckInputs, BusinessToken, FindApp, PickOrganization,
       PickApp,
         ValidateApp, CopyTemplate, UpdatePackage, UpdateWorkspace, InstallDependencies, FetchApp,
         ValidateTheme, DescribeTag, CheckoutTag, ListRemotes, CleanSkeleton, Step, Quiet
  <2>7. QED
    BY <1>2, <2>1, <2>2, <2>3, <2>4, <2>5, <2>6
<1>8. HydrogenSteps => Careful
  <2>1. LinkProject \/ WriteContext \/ MergePackage \/ WriteVite \/ WriteRoot \/ RewriteServer
        \/ RewriteImports => Careful
    BY <1>2, <1>3 DEF LinkProject, WriteContext, MergePackage, WriteVite, WriteRoot,
         RewriteServer, RewriteImports, Exists, Replace, Step, OnDisk, Quiet, Preserved
  <2>1a. IgnoreShopify => Careful
    <3>1. "cut" \in MayBe(".gitignore")
      BY DEF MayBe, WrittenInPlace
    <3>2. ".gitignore" \in DOMAIN files => Free(".gitignore") \/ Added(".gitignore") \in Preserved
      BY DEF Added, Free, Preserved
    <3>3. Truncate("gitignore", ".gitignore") => Careful
      BY <1>3, <3>1 DEF Truncate, OnDisk
    <3>4. Fill("gitignore", ".gitignore", Added(".gitignore")) => Careful
      BY <1>3, <3>2 DEF Fill, Replace, OnDisk
    <3>5. QED
      BY <1>2, <3>3, <3>4 DEF IgnoreShopify, Step, Quiet
  <2>1b. RenameEnv \/ RenameEslint => Careful
    <3>1. ASSUME NEW s, NEW r \in Renames, Move(s, r[1], r[2])
          PROVE  Careful
      <4>1. CASE ~Exists(r[1])
        BY <1>2, <3>1, <4>1 DEF Move, OnDisk
      <4>2. CASE Exists(r[1])
        <5>1. files' = Over(Only(r[2], "renamed"), [q \in DOMAIN files \ {r[1]} |-> files[q]])
          BY <3>1, <4>2 DEF Move
        <5>2. /\ r[2] \in DOMAIN files' /\ files'[r[2]] = "renamed"
              /\ \A q \in DOMAIN files \ {r[1], r[2]} : q \in DOMAIN files' /\ files'[q] = files[q]
          BY <5>1 DEF Over, Only
        <5>3. Renamed(r[1])'
          BY <3>1, <5>2 DEF Renamed, Content, Exists, Move, Pass, commandVars
        <5>4. "renamed" \in MayBe(r[2])
          BY <3>1 DEF MayBe
        <5>5. agreed' = agreed
          BY <3>1 DEF Move, OnDisk
        <5>6. QED
          BY <5>2, <5>3, <5>4, <5>5 DEF Careful
      <4>3. QED
        BY <4>1, <4>2
    <3>2. <<"remix-env", "env">> \in Renames /\ <<".eslintrc.js", ".eslintrc.cjs">> \in Renames
      BY DEF Renames
    <3>3. RenameEnv => Careful
      BY <3>1, <3>2 DEF RenameEnv
    <3>4. RenameEslint => Careful
      BY <3>1, <3>2 DEF RenameEslint
    <3>5. QED
      BY <3>3, <3>4
  <2>1c. RewriteEnv => Careful
    <3>1. {"merged", "renamed"} \subseteq MayBe("env")
      BY DEF MayBe, Preserved, Renames
    <3>2. QED
      BY <1>2, <1>3, <3>1 DEF RewriteEnv, Replace, Step, OnDisk, Quiet
  <2>2. UnlinkProject => Careful
    <3>1. At("unlink") /\ Content("project") # "user" => Free("project") \/ ~Exists("project")
      BY DEF At, MayReplace, Free, Content, Exists
    <3>2. QED
      BY <1>2, <1>3, <3>1 DEF UnlinkProject, Exists, OnDisk
  <2>3. ExtractArchive \/ MarkCache \/ WriteImports => Careful
    BY <1>3 DEF ExtractArchive, MarkCache, WriteImports, Replace, OnDisk, Allowed, OwnFiles
  <2>4. RemoveCache \/ DropRemix => Careful
    BY <1>4 DEF RemoveCache, DropRemix, At, OnDisk, Allowed, OwnFiles, MayReplace
  <2>5. InstallCache => Careful
    BY DEF InstallCache, Over, Only, OnDisk, Careful, Allowed, OwnFiles
  <2>6. ConfirmReplace => Careful
    BY DEF ConfirmReplace, Careful
  <2>7. WriteRoute => Careful
    BY <1>3 DEF WriteRoute, MayWrite, Exists, Free
  <2>8. CopyLocaleRoute => Careful
    BY <1>2, <1>3 DEF CopyLocaleRoute, Exists, Replace, Step, OnDisk, Quiet
  <2>9. WriteI18n \/ WriteStylesheet \/ NewVite => Careful
    BY <1>3 DEF WriteI18n, WriteStylesheet, NewVite, Replace, At, OnDisk, MayReplace
  <2>10. AddAlias => Careful
    <3>1. "cut" \in MayBe("zsh")
      BY DEF MayBe, WrittenInPlace
    <3>2. "zsh" \in DOMAIN files => Free("zsh") \/ (Added("zsh") \in Preserved /\ "rebuilt" \in Preserved)
      BY DEF Added, Free, Preserved
    <3>3. Truncate("shells", "zsh") => Careful
      BY <1>3, <3>1 DEF Truncate, OnDisk
    <3>4. ASSUME NEW c \in {"rebuilt", Added("zsh")}, Fill("shells", "zsh", c)
          PROVE  Careful
      BY <1>3, <3>2, <3>4 DEF Fill, Replace, OnDisk
    <3>5. QED
      BY <1>2, <3>3, <3>4 DEF AddAlias, Step, Quiet
  <2>11. HydrogenSteps =>
          \/ LinkProject \/ IgnoreShopify \/ WriteContext \/ MergePackage \/ WriteVite \/ WriteRoot
          \/ RenameEnv \/ RewriteEnv \/ RenameEslint \/ RewriteServer \/ RewriteImports \/ UnlinkProject
          \/ ExtractArchive \/ MarkCache \/ WriteImports \/ RemoveCache \/ DropRemix \/ InstallCache
          \/ ConfirmReplace \/ WriteRoute \/ CopyLocaleRoute \/ WriteI18n \/ WriteStylesheet \/ NewVite
          \/ AddAlias
          \/ UNCHANGED <<files, agreed>>
    BY DEF HydrogenSteps, ReadProject, CheckLinked, ListStorefronts, SelectStorefront, CreateStorefront,
         PollJob, ResolveSource, DownloadArchive, ProjectDirectories, RouteNames, RoutesDone,
         ChooseStrategy, FindContext, CheckI18n, RewriteContext, FindVite, CheckStylesheet,
       InjectPlugin,
         FindRoot, CheckNoVite, FindRemix, DiscoverTool, RunTool, Step, Quiet
  <2>12. QED
    BY <1>2, <2>1, <2>1a, <2>1b, <2>1c, <2>2, <2>3, <2>4, <2>5, <2>6, <2>7, <2>8, <2>9, <2>10, <2>11
<1>9. ToolsSteps => Careful
  <2>1. ReplaceExecutable \/ WriteVersion \/ WriteUpdateCache \/ WriteDocument \/ CreateArchive
        \/ FinishArchive => Careful
    BY <1>2, <1>3 DEF ReplaceExecutable, WriteVersion, WriteUpdateCache, WriteDocument, CreateArchive,
         FinishArchive, Replace, OnDisk, Allowed, OwnFiles
  <2>2. WriteSettings => Careful
    BY <1>2, <1>3 DEF WriteSettings, Exists, OnDisk, Preserved
  <2>3. ClearDocuments \/ ClearBuilds => Careful
    BY <1>4 DEF ClearDocuments, ClearBuilds, OnDisk, Allowed, OwnFiles
  <2>4. KeepDocument => Careful
    BY DEF KeepDocument, Over, Only, OnDisk, Careful, Allowed, OwnFiles
  <2>5. ToolsSteps =>
          \/ ReplaceExecutable \/ WriteVersion \/ WriteUpdateCache \/ WriteDocument \/ CreateArchive
          \/ FinishArchive \/ WriteSettings \/ ClearDocuments \/ ClearBuilds \/ KeepDocument
          \/ UNCHANGED <<files, agreed>>
    BY DEF ToolsSteps, PluginNames, InstalledPlugins, NpmWorks, NpmFails, LoadRegistry, RecordPlugin,
         FindPlugin, DropPlugin, RemoveArtifacts, ClearRegistry, RemoveAllArtifacts, PluginExits,
         InspectPlugins, DetectInstall, ExecuteUpgrade, FindRelease, DownloadRelease, VerifyChecksum,
         ExtractBinary, SetMode, NotifyAndRefresh, FetchLatest, ReadCachedDocument, FetchDocument,
         PruneDocuments, CollectFiles, Step, Quiet, OnServer
  <2>6. QED
    BY <1>2, <2>1, <2>2, <2>3, <2>4, <2>5
<1>10. StoreSteps => Careful
  <2>1. InstanceId => Careful
    <3>1. At("instance") /\ Content("instance") # "user" => Free("instance") \/ ~Exists("instance")
      BY DEF At, MayReplace, Free, Content, Exists
    <3>2. QED
      BY <1>2, <1>3, <3>1 DEF InstanceId, Exists, OnDisk
  <2>2. StoreSteps => InstanceId \/ UNCHANGED <<files, agreed>>
    BY DEF StoreSteps, LoadEntry, LoadCredential, DropEntry, Refresh, KeepRefreshed, KeepIndex,
         MergeScopes, BindCallback, AwaitApproval, ExchangeCode, CreateStore, KeepCredential, LoadIndex,
         KeepEntry, ListEntries, PruneIndex, ReadInfo, ExecuteAnyDocument, CheckStoreKind,
         StoreOrganization, OrganizationStores, Confirmed, Endpoint, RemoveStore, StoreOperation,
       LoadPage,
         SkipDenied, Step, Mutation, Quiet, OnServer
  <2>3. QED
    BY <1>2, <2>1, <2>2
<1>11. World => Careful
  <2>1. Edit => Careful
    BY <1>0 DEF Edit, OnDisk, Careful, Preserved
  <2>2. SomebodyMakes => Careful
    BY <1>3 DEF SomebodyMakes, OnDisk, Preserved
  <2>3. OtherReplacesCache => Careful
    BY <1>3, <1>4 DEF OtherReplacesCache, OnDisk, Allowed, OwnFiles
  <2>4. OtherWritesDocument => Careful
    BY <1>3 DEF OtherWritesDocument, OnDisk, Allowed, OwnFiles
  <2>5. World =>
          \/ Edit \/ SomebodyMakes \/ OtherReplacesCache \/ OtherWritesDocument
          \/ UNCHANGED <<files, agreed>>
    BY DEF World, AdminWorld, OperationRuns, PlanChanges, AppLogs, SubscriptionExpires, InterruptLogs,
         HydrogenWorld, JobRuns, ToolsWorld, OtherPlugins, OtherStores, OtherChangesTree, Another, StoreWorld, OtherSavesIndex, OtherRefreshes,
         OnServer, Quiet
  <2>6. QED
    BY <1>2, <2>1, <2>2, <2>3, <2>4, <2>5
<1>12. QED
  BY <1>2, <1>5, <1>6, <1>7, <1>8, <1>9, <1>10, <1>11 DEF Steps, StepFails, Killed, Quiet

(* The steps that look before another replaces a file, and those that go   *)
(* by what the file was; each is one action.                               *)
Checks == {"validate-app", "clone-theme", "i18n", "stylesheet", "no-vite", "unlink", "instance"}
Looking ==
  ValidateApp \/ CloneTheme \/ CheckI18n \/ CheckStylesheet \/ CheckNoVite \/ UnlinkProject \/ InstanceId

(* Where a check is next, no step but the check is taken.                  *)
LEMMA ChecksLook ==
  ASSUME Head(todo) \in Checks
  PROVE  Steps => Looking
<1> USE DEF Checks
<1>1. ~AdminSteps
  <2>1. ~(GraphiqlServes \/ Bind \/ PollLogs \/ Subscribe \/ Resubscribe)
    <3>1. ASSUME NEW c \in Connections, TakeClient(c) PROVE Serving(c, "client")
      BY <3>1, Zenon DEF TakeClient
    <3>2. ASSUME NEW c \in Connections, MakeClient(c) PROVE Serving(c, "exchange")
      BY <3>2, Zenon DEF MakeClient
    <3>3. ASSUME NEW c \in Connections, CheckPolicy(c) PROVE Serving(c, "policy")
      BY <3>3, Zenon DEF CheckPolicy
    <3>4. QED
      BY <3>1, <3>2, <3>3 DEF GraphiqlServes, ReadRequest, ServeDocument, StopServing, Bind, PollLogs,
           Subscribe, Resubscribe, Serving, Streaming, At
  <2>2. QED
    BY <2>1 DEF AdminSteps, ReadDocument, ReadVariables, AppSecret, ExchangeCredentials, ResolveVersion,
         CheckPlan, CheckKind, StageUpload, UploadVariables, RunOperation, Poll, Download,
       ReportOperation,
         ReportResult, ReadStatus, CancelOperation, ExecuteDocument, CheckTerminal, CheckSources,
       CheckStores,
         StopLogs, ChooseApiVersion, ChooseTopic, ResolveDelivery, Trigger, DeliverLocally, Step,
       Replace,
         Mutation, At
<1>2. ~ConfigurationSteps
  BY DEF ConfigurationSteps, ReadEnvironment, ClearState, SaveState, MapLocal, WriteConfig, MergeEnv,
       ReadSession, ManagementToken, ReadApp, ParseApp, DiscoverExtensions,
       DiscoverWebs, FindDuplicates, ReportValidity, LoadConfigs, LoadState, ChooseNamed, AskForConfig,
       ChooseValidated, ChoosePulled, Delegate, ListOrganizations, ChooseOrganization, CreateApp,
       ChooseApp, ListVersions, Diagnoses, Chooses, Step, Replace, Mutation, At
<1>3. ScaffoldSteps => ValidateApp \/ CloneTheme
  BY DEF ScaffoldSteps, ChooseTemplate, CheckInputs, BusinessToken, FindApp, PickOrganization, PickApp,
       CloneApp, MakeDirectory, CopyTemplate, UpdatePackage, UpdateWorkspace, InstallDependencies,
     InitGit,
       Unstage, RollBack, CreateInitApp, FetchApp, LinkDirectory, ValidateTheme, DescribeTag,
     CheckoutTag,
       ListRemotes, RemoveOrigin, CleanSkeleton, Step, Replace, At, Undone
<1>4. HydrogenSteps => CheckI18n \/ CheckStylesheet \/ CheckNoVite \/ UnlinkProject
  BY DEF HydrogenSteps, ReadProject, CheckLinked, ListStorefronts, SelectStorefront, CreateStorefront,
       PollJob, ResolveSource, DownloadArchive, ProjectDirectories, RouteNames, RoutesDone,
       ChooseStrategy, FindContext, RewriteContext, FindVite, InjectPlugin, FindRoot, FindRemix,
       RenameEslint, DiscoverTool, RunTool, LinkProject, IgnoreShopify, WriteContext, MergePackage,
       WriteVite, WriteRoot, RenameEnv, RewriteEnv, Move, Truncate, Fill, RewriteServer, RewriteImports, ExtractArchive,
       MarkCache, WriteImports, RemoveCache, DropRemix, InstallCache, ConfirmReplace, WriteRoute,
       CopyLocaleRoute, WriteI18n, WriteStylesheet, NewVite, AddAlias, Generating, Step, Replace, At
<1>5. ~ToolsSteps
  BY DEF ToolsSteps, PluginNames, InstalledPlugins, NpmWorks, NpmFails, LoadRegistry, RecordPlugin,
       FindPlugin, DropPlugin, RemoveArtifacts, ClearRegistry, RemoveAllArtifacts, PluginExits,
       InspectPlugins, DetectInstall, ExecuteUpgrade, FindRelease, DownloadRelease, VerifyChecksum,
       ExtractBinary, ReplaceExecutable, SetMode, WriteVersion, NotifyAndRefresh, FetchLatest,
       WriteUpdateCache, WriteSettings, ClearDocuments, ClearBuilds, ReadCachedDocument, FetchDocument,
       WriteDocument, KeepDocument, PruneDocuments, CreateArchive, CollectFiles, FinishArchive, Step,
       Replace, At
<1>6. StoreSteps => InstanceId
  BY DEF StoreSteps, LoadEntry, LoadCredential, DropEntry, Refresh, KeepRefreshed, KeepIndex,
       MergeScopes, BindCallback, AwaitApproval, ExchangeCode, CreateStore, KeepCredential,
       LoadIndex, KeepEntry, ListEntries, PruneIndex, ReadInfo, ExecuteAnyDocument, CheckStoreKind,
       StoreOrganization, OrganizationStores, Confirmed, Endpoint, RemoveStore, StoreOperation,
     LoadPage,
       SkipDenied, Step, Mutation, At
<1>7. QED
  BY <1>1, <1>2, <1>3, <1>4, <1>5, <1>6 DEF Steps, Looking

(* Where a step of the upgrade to Vite is next, no other part's is taken.  *)
LEMMA ViteAlone ==
  ASSUME Head(todo) \in ViteSteps
  PROVE  ~AdminSteps /\ ~ConfigurationSteps /\ ~ScaffoldSteps /\ ~ToolsSteps /\ ~StoreSteps
<1> USE DEF ViteSteps
<1>1. ~AdminSteps
  <2>1. ~(GraphiqlServes \/ Bind \/ PollLogs \/ Subscribe \/ Resubscribe)
    <3>1. ASSUME NEW c \in Connections, TakeClient(c) PROVE Serving(c, "client")
      BY <3>1, Zenon DEF TakeClient
    <3>2. ASSUME NEW c \in Connections, MakeClient(c) PROVE Serving(c, "exchange")
      BY <3>2, Zenon DEF MakeClient
    <3>3. ASSUME NEW c \in Connections, CheckPolicy(c) PROVE Serving(c, "policy")
      BY <3>3, Zenon DEF CheckPolicy
    <3>4. QED
      BY <3>1, <3>2, <3>3 DEF GraphiqlServes, ReadRequest, ServeDocument, StopServing, Bind, PollLogs,
           Subscribe, Resubscribe, Serving, Streaming, At
  <2>2. QED
    BY <2>1 DEF AdminSteps, ReadDocument, ReadVariables, AppSecret, ExchangeCredentials, ResolveVersion,
         CheckPlan, CheckKind, StageUpload, UploadVariables, RunOperation, Poll, Download,
       ReportOperation,
         ReportResult, ReadStatus, CancelOperation, ExecuteDocument, CheckTerminal, CheckSources,
       CheckStores,
         StopLogs, ChooseApiVersion, ChooseTopic, ResolveDelivery, Trigger, DeliverLocally, Step,
       Replace,
         Mutation, At
<1>2. ~ConfigurationSteps
  BY DEF ConfigurationSteps, ReadEnvironment, ClearState, SaveState, MapLocal, WriteConfig, MergeEnv,
       ReadSession, ManagementToken, ReadApp, ParseApp, DiscoverExtensions,
       DiscoverWebs, FindDuplicates, ReportValidity, LoadConfigs, LoadState, ChooseNamed, AskForConfig,
       ChooseValidated, ChoosePulled, Delegate, ListOrganizations, ChooseOrganization, CreateApp,
       ChooseApp, ListVersions, Diagnoses, Chooses, Step, Replace, Mutation, At
<1>3. ~ScaffoldSteps
  BY DEF ScaffoldSteps, ValidateApp, CloneTheme, ValidateTheme, ChooseTemplate, CheckInputs, BusinessToken, FindApp, PickOrganization, PickApp,
       CloneApp, MakeDirectory, CopyTemplate, UpdatePackage, UpdateWorkspace, InstallDependencies,
     InitGit,
       Unstage, RollBack, CreateInitApp, FetchApp, LinkDirectory, ValidateTheme, DescribeTag,
     CheckoutTag,
       ListRemotes, RemoveOrigin, CleanSkeleton, Step, Replace, At, Undone
<1>5. ~ToolsSteps
  BY DEF ToolsSteps, PluginNames, InstalledPlugins, NpmWorks, NpmFails, LoadRegistry, RecordPlugin,
       FindPlugin, DropPlugin, RemoveArtifacts, ClearRegistry, RemoveAllArtifacts, PluginExits,
       InspectPlugins, DetectInstall, ExecuteUpgrade, FindRelease, DownloadRelease, VerifyChecksum,
       ExtractBinary, ReplaceExecutable, SetMode, WriteVersion, NotifyAndRefresh, FetchLatest,
       WriteUpdateCache, WriteSettings, ClearDocuments, ClearBuilds, ReadCachedDocument, FetchDocument,
       WriteDocument, KeepDocument, PruneDocuments, CreateArchive, CollectFiles, FinishArchive, Step,
       Replace, At
<1>6. ~StoreSteps
  BY DEF StoreSteps, InstanceId, LoadEntry, LoadCredential, DropEntry, Refresh, KeepRefreshed, KeepIndex,
       MergeScopes, BindCallback, AwaitApproval, ExchangeCode, CreateStore, KeepCredential,
       LoadIndex, KeepEntry, ListEntries, PruneIndex, ReadInfo, ExecuteAnyDocument, CheckStoreKind,
       StoreOrganization, OrganizationStores, Confirmed, Endpoint, RemoveStore, StoreOperation,
     LoadPage,
       SkipDenied, Step, Mutation, At
<1>7. QED
  BY <1>1, <1>2, <1>3, <1>5, <1>6

(* Others replace a file or two, but not the plan.                         *)
LEMMA OthersStay ==
  World => todo' = todo /\ (files' = files \/ Edit \/ SomebodyMakes \/ OtherReplacesCache \/ OtherWritesDocument)
BY DEF World, AdminWorld, OperationRuns, PlanChanges, AppLogs, SubscriptionExpires, InterruptLogs,
   Edit, SomebodyMakes, HydrogenWorld, JobRuns, OtherReplacesCache, ToolsWorld, OtherPlugins, OtherStores, OtherChangesTree, Another,
   OtherWritesDocument, StoreWorld, OtherSavesIndex, OtherRefreshes, Stay, OnServer, Quiet

(* What comes before the steps there were still does when harmless ones    *)
(* are put in front.                                                       *)
LEMMA StillPrecedes ==
  ASSUME NEW s, NEW p, Sequence(s), Sequence(p), NEW early, NEW late, Precedes(early, s, late),
         \A i \in DOMAIN p : p[i] \notin late
  PROVE  Precedes(early, p \o s, late) /\ Names(p \o s) \subseteq Names(p) \union Names(s)
<1> DEFINE m == Len(p)  n == Len(s)  t == p \o s
<1>1. m \in Nat /\ n \in Nat /\ DOMAIN s = 1..n /\ DOMAIN p = 1..m
  BY DEF Sequence
<1>2. DOMAIN t = 1..(m + n) /\ (\A i \in 1..m : t[i] = p[i]) /\ (\A i \in 1..n : t[m + i] = s[i])
  BY DEF Sequence
<1> HIDE DEF m, n, t
<1>3. ASSUME NEW i \in DOMAIN t, t[i] \in late
      PROVE  \E j \in 1..(i - 1) : t[j] \in early
  <2>1. i \notin 1..m
    BY <1>1, <1>2, <1>3
  <2>2. i - m \in 1..n /\ t[m + (i - m)] = s[i - m] /\ m + (i - m) = i
    BY <1>1, <1>2, <1>3, <2>1
  <2>3. PICK j \in 1..(i - m - 1) : s[j] \in early
    BY <1>1, <1>3, <2>2 DEF Precedes
  <2>4. i \in Int /\ j \in Int /\ 1 <= j /\ j <= i - m - 1 /\ i - m <= n
    BY <1>1, <1>2, <2>2, <2>3
  <2>5. m + j \in 1..(i - 1) /\ j \in 1..n
    BY <1>1, <2>4
  <2>6. t[m + j] = s[j]
    BY <1>2, <2>5
  <2>7. QED
    BY <2>3, <2>5, <2>6
<1>4. ASSUME NEW i \in DOMAIN t
      PROVE  t[i] \in Names(p) \union Names(s)
  <2>1. CASE i \in 1..m
    BY <1>1, <1>2, <2>1 DEF Names
  <2>2. CASE i \notin 1..m
    <3>1. i - m \in 1..n /\ t[m + (i - m)] = s[i - m] /\ m + (i - m) = i
      BY <1>1, <1>2, <1>4, <2>2
    <3>2. QED
      BY <1>1, <3>1 DEF Names
  <2>3. QED
    BY <2>1, <2>2
<1>5. QED
  BY <1>3, <1>4 DEF Precedes, Names, t

(* So what the next step may replace is free.                              *)
LEMMA NextMayReplace ==
  ASSUME FilesInv, Sequence(todo), todo # <<>>
  PROVE  MayReplace
<1>1. Head(todo) = todo[1] /\ 1 \in DOMAIN todo
  BY DEF Sequence
<1>2. ASSUME NEW p, NEW early, NEW late, LooksFirst(p, early, late), Head(todo) \in late
      PROVE  Free(p)
  BY <1>1, <1>2 DEF LooksFirst, Precedes
<1>3. Head(todo) \in {"unlink", "instance"} => files = found
  BY <1>1 DEF FilesInv, Untouched
<1>4. QED
  BY <1>2, <1>3 DEF FilesInv, Looks, MayReplace

(* What the upgrade to Vite has renamed keeps its new name: no other       *)
(* command's step is taken, and none of its own but the renaming and the   *)
(* rewriting of env.d.ts touches those names.                              *)
LEMMA RenamedStay ==
  ASSUME ViteOnly, Steps \/ World \/ StepFails(Handled) \/ Killed(Listening),
         todo # <<>>, Head(todo) = todo[1], 1 \in DOMAIN todo
  PROVE  \A p : Renamed(p) => Renamed(p)'
<1> SUFFICES ASSUME command = "hydrogen-setup-vite"
             PROVE  \A q \in {"env", ".eslintrc.cjs"} : Content(q) = "renamed" => Content(q)' = "renamed"
  <2>1. command' = command
    BY AnyStep DEF Taken, Same
  <2>2. QED
    BY <2>1 DEF Renamed, Renames
<1>1. Head(todo) \in ViteSteps
  BY DEF ViteOnly, Names
<1>2. ASSUME NEW q \in {"env", ".eslintrc.cjs"}, Content(q) = "renamed", files' = files
      PROVE  Content(q)' = "renamed"
  BY <1>2 DEF Content, Exists
<1>3. ASSUME NEW q \in {"env", ".eslintrc.cjs"}, Content(q) = "renamed", NEW p, NEW c, Set(p, c),
             q # p \/ c = "renamed"
      PROVE  Content(q)' = "renamed"
  BY <1>3 DEF Content, Exists, Set, Over, Only
<1>4. ASSUME NEW q \in {"env", ".eslintrc.cjs"}, Content(q) = "renamed", NEW p, Gone(p), q # p
      PROVE  Content(q)' = "renamed"
  BY <1>4 DEF Content, Exists, Gone
<1>5. ~AdminSteps /\ ~ConfigurationSteps /\ ~ScaffoldSteps /\ ~ToolsSteps /\ ~StoreSteps
  BY <1>1, ViteAlone
<1>6. HydrogenSteps =>
        \/ MergePackage \/ WriteRoot \/ RewriteServer \/ RewriteImports \/ NewVite
        \/ ExtractArchive \/ MarkCache \/ RemoveCache \/ DropRemix \/ InstallCache
        \/ RenameEnv \/ RewriteEnv \/ RenameEslint \/ files' = files
  BY <1>1 DEF HydrogenSteps, ReadProject, CheckLinked, ListStorefronts, SelectStorefront, CreateStorefront,
       PollJob, ResolveSource, DownloadArchive, ProjectDirectories, RouteNames, RoutesDone,
       ChooseStrategy, FindContext, RewriteContext, FindVite, InjectPlugin, FindRoot, FindRemix,
       DiscoverTool, RunTool, LinkProject, IgnoreShopify, WriteContext, CheckI18n, CheckStylesheet,
       CheckNoVite, UnlinkProject, WriteVite, WriteImports, ConfirmReplace, WriteRoute,
       CopyLocaleRoute, WriteI18n, WriteStylesheet, AddAlias, Generating, Truncate, Fill, Step, Replace,
       At, Quiet, ViteSteps
<1> TAKE q \in {"env", ".eslintrc.cjs"}
<1> HAVE Content(q) = "renamed"
<1>7. CASE MergePackage \/ WriteRoot \/ RewriteServer \/ RewriteImports \/ NewVite \/ ExtractArchive \/ MarkCache
  BY <1>2, <1>3, <1>7 DEF MergePackage, WriteRoot, RewriteServer, RewriteImports, NewVite, ExtractArchive,
     MarkCache, Replace, Step, Quiet
<1>8. CASE RemoveCache \/ DropRemix
  BY <1>4, <1>8 DEF RemoveCache, DropRemix
<1>9. CASE InstallCache
  BY <1>9 DEF InstallCache, Over, Only, Content, Exists
<1>10. CASE RenameEnv \/ RenameEslint
  <2>1. ASSUME NEW s, NEW from \in {"remix-env", ".eslintrc.js"}, NEW to, Move(s, from, to)
        PROVE  Content(q)' = "renamed"
    BY <2>1 DEF Move, Over, Only, Content, Exists
  <2>2. QED
    BY <1>10, <2>1 DEF RenameEnv, RenameEslint
<1>11. CASE RewriteEnv
  <2>1. CASE Exists("env") /\ Content("env") = "renamed"
    BY <1>3, <1>11, <2>1 DEF RewriteEnv, Replace, Content
  <2>2. CASE Exists("env") /\ Content("env") # "renamed"
    BY <1>3, <1>11, <2>2 DEF RewriteEnv, Replace
  <2>3. CASE ~Exists("env")
    BY <1>2, <1>11, <2>3 DEF RewriteEnv, Step, Quiet
  <2>4. QED
    BY <2>1, <2>2, <2>3
<1>12. CASE World
  <2>1. Edit \/ SomebodyMakes => FALSE
    BY DEF Edit, SomebodyMakes
  <2>2. OtherReplacesCache => Content(q)' = "renamed"
    BY <1>3, <1>4 DEF OtherReplacesCache
  <2>3. OtherWritesDocument => Content(q)' = "renamed"
    BY <1>3 DEF OtherWritesDocument
  <2>4. QED
    BY <1>2, <1>12, <2>1, <2>2, <2>3, OthersStay
<1>13. CASE StepFails(Handled) \/ Killed(Listening)
  BY <1>2, <1>13 DEF StepFails, Killed, Quiet
<1>14. CASE HydrogenSteps
  BY <1>2, <1>6, <1>7, <1>8, <1>9, <1>10, <1>11, <1>14
<1>15. QED
  BY <1>5, <1>12, <1>13, <1>14 DEF Steps

(* FilesInv is kept by every step.                                         *)
LEMMA FilesInvGoesOn ==
  ASSUME PlanIsSound, FilesInv, Steps \/ World \/ StepFails(Handled) \/ Killed(Listening)
  PROVE  FilesInv'
<1>1. Taken /\ todo # <<>> /\ Sequence(todo) /\ Same
  BY AnyStep DEF PlanIsSound, Taken, Planned
<1>2. Shifted /\ Sequence(todo') /\ (Alters \/ todo' \in {todo, <<>>, Tail(todo)})
  BY <1>1, PlanGoesOn DEF Shifted
<1>3. Head(todo) = todo[1] /\ 1 \in DOMAIN todo
  BY <1>1 DEF Sequence
<1>4. Careful
  BY <1>1, NextMayReplace, StepsAreCareful DEF FilesInv
<1>20. ViteOnly'
  <2> SUFFICES ASSUME command = "hydrogen-setup-vite" PROVE Names(todo') \subseteq ViteSteps
    BY <1>1 DEF ViteOnly, Same
  <2>1. Names(todo) \subseteq ViteSteps
    BY DEF FilesInv, ViteOnly
  <2>2. Names(Tail(todo)) \subseteq Names(todo) /\ Names(<<>>) = {}
    BY <1>1 DEF Names, Sequence
  <2>3. Head(todo) \in ViteSteps
    BY <1>3, <2>1 DEF Names
  <2>4. Alters => ResolveSource
    BY <2>3 DEF Alters, LoadCredential, PluginNames, InstalledPlugins, NpmFails, DropPlugin, DetectInstall,
       NotifyAndRefresh, At, ViteSteps
  <2>5. ResolveSource => todo' \in {Tail(todo), Fetching \o Tail(todo)}
    BY DEF ResolveSource, Pass, At
  <2>6. Names(Fetching \o Tail(todo)) \subseteq Names(Fetching) \union Names(Tail(todo))
    <3>1. Sequence(Tail(todo))
      BY <1>1, Shifts
    <3>2. Sequence(Fetching)
      BY DEF Sequence, Fetching
    <3>3. Precedes({}, Tail(todo), {}) /\ \A k \in DOMAIN Fetching : Fetching[k] \notin {}
      BY DEF Precedes
    <3>4. QED
      BY <3>1, <3>2, <3>3, StillPrecedes
  <2>7. Names(Fetching) \subseteq ViteSteps
    BY DEF Names, Fetching, ViteSteps
  <2>8. QED
    BY <1>2, <2>1, <2>2, <2>4, <2>5, <2>6, <2>7
<1>21. \A p : Renamed(p) => Renamed(p)'
  BY <1>1, <1>3, RenamedStay DEF FilesInv
<1>5. UserFilesKept'
  BY <1>1, <1>4, <1>21 DEF FilesInv, UserFilesKept, Careful, Same, Free
<1>6. ASSUME NEW p, Free(p) PROVE Free(p)'
  BY <1>1, <1>4, <1>6 DEF Free, Careful, Same
<1>7. Allowed'
  BY <1>1, <1>6 DEF FilesInv, Allowed, Same
<1>8. ASSUME Head(todo) \in Checks, todo' \notin {todo, <<>>}
      PROVE  Looking
  <2>1. ~World /\ ~StepFails(Handled) /\ ~Killed(Listening)
    BY <1>8, OthersStay DEF StepFails, Killed, Return
  <2>2. QED
    BY <1>8, <2>1, ChecksLook
<1>9. \A p : Free(p) \/ (p \in DOMAIN files /\ files[p] \in MayBe(p)) \/ Renamed(p)
  BY DEF FilesInv, UserFilesKept, Free
<1>10. ASSUME todo' \notin {todo, <<>>}
       PROVE  /\ Head(todo) \in {"validate-app", "clone-theme"} => Free("directory")
              /\ Head(todo) = "i18n" => Free("i18n")
              /\ Head(todo) = "stylesheet" => Free("stylesheet")
              /\ Head(todo) = "no-vite" => Free("vite")
  <2>1. Content("directory") \in {"none", "empty"} => Free("directory")
    BY <1>9 DEF Content, Exists, MayBe, Preserved, WrittenInPlace, Renames, Renamed
  <2>2. \A p : ~Exists(p) /\ p \notin {"remix-env", ".eslintrc.js"} => Free(p)
    BY <1>9 DEF Exists, Renamed, Renames
  <2>3. "force" \in given => Free("stylesheet")
    BY DEF FilesInv, Allowed
  <2>4. QED
    BY <1>8, <1>10, <2>1, <2>2, <2>3 DEF Checks, Looking, ValidateApp, CloneTheme, CheckI18n,
       CheckStylesheet, CheckNoVite, UnlinkProject, InstanceId, Step, Replace, At
<1>11. Alters => Head(todo) \in Rewriting
  BY DEF Alters, LoadCredential, ResolveSource, PluginNames, InstalledPlugins, NpmFails, DropPlugin,
     DetectInstall, NotifyAndRefresh, At, Rewriting
<1>12. Alters => ResolveSource \/ (Head(todo) # "source" /\ \A i \in DOMAIN todo' : todo'[i] \notin Replacing)
  <2>1. Alters => ResolveSource \/ Head(todo) # "source"
    BY DEF Alters, LoadCredential, PluginNames, InstalledPlugins, NpmFails, DropPlugin, DetectInstall,
       NotifyAndRefresh, At
  <2>2. Alters /\ Head(todo) # "source" => \A j \in DOMAIN todo : todo[j] \notin Replacing
    BY <1>3, <1>11 DEF FilesInv, Apart
  <2>3. QED
    BY <1>2, <2>1, <2>2, ShiftedNames DEF Names, Special
<1>13. ResolveSource => todo' \in {Tail(todo), Fetching \o Tail(todo)} /\ Head(todo) = "source"
  BY DEF ResolveSource, Pass, At
<1>14. /\ Sequence(Fetching) /\ Sequence(Tail(todo))
       /\ \A i \in DOMAIN Fetching : Fetching[i] \notin Replacing \union Rewriting
  <2>1. Sequence(Tail(todo))
    BY <1>1, Shifts
  <2>2. Sequence(Fetching) /\ \A i \in DOMAIN Fetching : Fetching[i] \notin Replacing \union Rewriting
    BY DEF Sequence, Fetching, Replacing, Undone, Rewriting
  <2>3. QED
    BY <2>1, <2>2
<1>15. ASSUME NEW p, NEW early, NEW late, early \subseteq Checks, late \subseteq Replacing,
              LooksFirst(p, early, late), Head(todo) \in early /\ todo' \notin {todo, <<>>} => Free(p)
       PROVE  Free(p)' \/ Precedes(early, todo', late)
  <2>1. CASE Free(p)
    BY <1>6, <2>1
  <2>2. CASE ~Free(p)
    <3>1. Precedes(early, todo, late)
      BY <1>15, <2>2 DEF LooksFirst
    <3>2. CASE todo' \in {todo, <<>>}
      BY <3>1, <3>2 DEF Precedes
    <3>3. Head(todo) \notin early => Precedes(early, Tail(todo), late)
      BY <1>1, <3>1, TailPrecedes
    <3>4. CASE todo' = Tail(todo) /\ todo' \notin {todo, <<>>}
      BY <1>15, <2>2, <3>3, <3>4
    <3>5. CASE ResolveSource
      <4>1. Head(todo) \notin early
        BY <1>13, <1>15, <3>5 DEF Checks
      <4>2. \A i \in DOMAIN Fetching : Fetching[i] \notin late
        BY <1>14, <1>15
      <4>3. Precedes(early, Fetching \o Tail(todo), late)
        BY <1>14, <3>3, <4>1, <4>2, StillPrecedes
      <4>4. QED
        BY <1>13, <3>3, <3>5, <4>1, <4>3
    <3>6. CASE Alters /\ ~ResolveSource
      BY <1>12, <1>15, <3>6 DEF Precedes
    <3>7. QED
      BY <1>2, <3>2, <3>4, <3>5, <3>6
  <2>3. QED
    BY <2>1, <2>2
<1>16. Looks'
  <2>1. Free("directory")' \/ Precedes({"validate-app", "clone-theme"}, todo', Undone \union {"origin"})
    BY <1>10, <1>15 DEF FilesInv, Looks, Checks, Replacing
  <2>2. Free("i18n")' \/ Precedes({"i18n"}, todo', {"write-i18n"})
    BY <1>10, <1>15 DEF FilesInv, Looks, Checks, Replacing
  <2>3. Free("stylesheet")' \/ Precedes({"stylesheet"}, todo', {"write-stylesheet"})
    BY <1>10, <1>15 DEF FilesInv, Looks, Checks, Replacing
  <2>4. Free("vite")' \/ Precedes({"no-vite"}, todo', {"new-vite"})
    BY <1>10, <1>15 DEF FilesInv, Looks, Checks, Replacing
  <2>5. Free("state")' \/ Precedes({}, todo', {"clear", "save"})
    BY <1>15 DEF FilesInv, Looks, Replacing
  <2>6. Free("remix")' \/ Precedes({}, todo', {"drop-remix"})
    BY <1>15 DEF FilesInv, Looks, Replacing
  <2>7. QED
    BY <2>1, <2>2, <2>3, <2>4, <2>5, <2>6 DEF Looks, LooksFirst
<1>17. Untouched'
  <2> SUFFICES ASSUME NEW i \in DOMAIN todo', todo'[i] \in {"unlink", "instance"}
               PROVE  i = 1 /\ files' = found' /\ command' \in {"hydrogen-unlink", "store-create"}
    BY DEF Untouched
  <2>1. todo'[i] \in Names(todo)
    BY <1>2, ShiftedNames DEF Special, Replacing
  <2>2. Head(todo) = todo'[i] /\ files = found /\ command \in {"hydrogen-unlink", "store-create"}
    BY <1>3, <2>1 DEF Names, FilesInv, Untouched
  <2>3. ~Alters
    BY <1>11, <2>2 DEF Rewriting
  <2>4. todo' # Tail(todo) /\ todo' # <<>>
    BY <1>1, <2>2 DEF FilesInv, Untouched, Sequence
  <2>5. todo' = todo
    BY <1>2, <2>3, <2>4
  <2>6. i = 1
    BY <2>5 DEF FilesInv, Untouched
  <2>7. ~Steps /\ ~StepFails(Handled) /\ ~Killed(Listening)
    <3>1. ~(UnlinkProject \/ InstanceId)
      BY <2>4 DEF UnlinkProject, InstanceId, Pass, Return
    <3>2. ~Looking
      BY <2>2, <3>1 DEF Looking, ValidateApp, CloneTheme, CheckI18n, CheckStylesheet, CheckNoVite, Step,
         Replace, At
    <3>3. QED
      BY <2>2, <2>4, <3>2, ChecksLook DEF Checks, StepFails, Killed, Return
  <2>8. files' = files
    BY <2>2, <2>7, OthersStay DEF Edit, SomebodyMakes, OtherReplacesCache, OtherWritesDocument
  <2>9. QED
    BY <1>1, <2>2, <2>6, <2>8 DEF Same
<1>18. Apart'
  <2> SUFFICES ASSUME NEW i \in DOMAIN todo', NEW j \in DOMAIN todo',
                      todo'[i] \in Rewriting \ {"source"}, todo'[j] \in Replacing
               PROVE  FALSE
    BY DEF Apart
  <2>1. todo'[j] \in Names(todo)
    BY <1>2, ShiftedNames DEF Special
  <2>2. todo'[i] \notin Names(todo)
    BY <2>1 DEF FilesInv, Apart, Names
  <2>3. Alters
    <3>1. Names(Tail(todo)) \subseteq Names(todo)
      BY <1>1 DEF Names, Sequence
    <3>2. i \notin DOMAIN <<>>
      OBVIOUS
    <3>3. QED
      BY <1>2, <2>2, <3>1, <3>2 DEF Names
  <2>4. ResolveSource
    BY <1>12, <2>3
  <2>5. Names(todo') \subseteq Names(Fetching) \union Names(Tail(todo))
    <3>1. Precedes({}, Tail(todo), {}) /\ \A k \in DOMAIN Fetching : Fetching[k] \notin {}
      BY DEF Precedes
    <3>2. Names(Fetching \o Tail(todo)) \subseteq Names(Fetching) \union Names(Tail(todo))
      BY <1>14, <3>1, StillPrecedes
    <3>3. QED
      BY <1>13, <2>4, <3>2
  <2>6. Names(Tail(todo)) \subseteq Names(todo)
    BY <1>1 DEF Names, Sequence
  <2>7. QED
    BY <1>14, <2>2, <2>5, <2>6 DEF Names
<1>19. QED
  BY <1>5, <1>7, <1>16, <1>17, <1>18, <1>20 DEF FilesInv

(* A plan that begins with the files as they were is in order.             *)
LEMMA OrderKeepsFiles ==
  ASSUME files = found, Allowed, Orderly, ViteOnly
  PROVE  FilesInv
<1>1. UserFilesKept
  BY DEF UserFilesKept, MayBe, Preserved
<1>2. Looks
  BY DEF Orderly, Looks, LooksFirst, Precedes, Free
<1>3. QED
  BY <1>1, <1>2 DEF FilesInv, Untouched, Orderly

(* The upgrade to Vite begins with its own steps.                          *)
LEMMA ViteStarts == Begins => ViteOnly
<1>1. \A c, o, d, s : Begin(c, o, d, s) => command = c
  BY DEF Begin
<1>2. SetupVite => ViteOnly
  BY DEF SetupVite, ViteOnly, Names, ViteSteps
<1>3. AdminBegins \/ ConfigurationBegins \/ ScaffoldBegins \/ ToolsBegin \/ StoreBegins =>
        command # "hydrogen-setup-vite"
  BY <1>1 DEF AdminBegins, BulkExecute, BulkStatus, BulkCancel, Execute, Graphiql, Logs, WebhookTrigger,
     ConfigurationBegins, ConfigUse, ConfigValidate, ConfigPull, ConfigLink, AppInfo, EnvShow, EnvPull,
     VersionsList, ScaffoldBegins, AppInit, ThemeInit, ToolsBegin, PluginsAdd, PluginsLink, PluginsRemove,
     PluginsUpdate, PluginsReset, PluginsInspect, Upgrade, UpdateCheck, Settings, ClearCaches, DocFetch,
     ThemePackage, StoreBegins, StoreInfo, StoreExecute, StoreGraphiql, StoreBulkExecute, StoreBulkStatus,
     StoreBulkCancel, StoreAuth, CreatePreview, ListSessions, ListStores, DeleteStore, OpenStore,
     ImportDefinitions
<1>4. HydrogenBegins => SetupVite \/ command # "hydrogen-setup-vite"
  BY <1>1 DEF HydrogenBegins, HydrogenLink, HydrogenList, HydrogenUnlink, GenerateRoutes, SetupMarkets,
     SetupCss, Shortcut, HydrogenOther
<1>5. QED
  BY <1>2, <1>3, <1>4 DEF Begins, ViteOnly

(* The files of the user's that a hydrogen setup finds: those of the       *)
(* project, none of the template's.                                        *)
LEMMA Caching ==
  ASSUME NEW paths, found \in With(paths, Caches), NEW p \in DOMAIN found, found[p] = "user"
  PROVE  p \in paths
<1>1. PICK f \in Caches : found = Over([q \in paths |-> "user"], f)
  BY DEF With
<1>2. \A q \in DOMAIN f : f[q] # "user"
  BY DEF Caches
<1>3. QED
  BY <1>1, <1>2 DEF Over

(* No command begins with a file of the user's that it would take for its  *)
(* own, and an option that names a file to replace is agreed to.           *)
LEMMA FilesStart == Begins => files = found /\ Allowed
<1> USE FilesAssumption DEF Allowed, Free, OwnFiles, Begin
<1>1. AdminBegins => files = found /\ Allowed
  <2>1. BulkExecute => files = found /\ Allowed
    BY DEF BulkExecute, Only
  <2>2. BulkStatus => files = found /\ Allowed
    BY DEF BulkStatus
  <2>3. BulkCancel => files = found /\ Allowed
    BY DEF BulkCancel
  <2>4. Execute => files = found /\ Allowed
    BY DEF Execute, Only
  <2>5. Graphiql => files = found /\ Allowed
    BY DEF Graphiql
  <2>6. Logs => files = found /\ Allowed
    BY DEF Logs
  <2>7. WebhookTrigger => files = found /\ Allowed
    BY DEF WebhookTrigger
  <2>8. QED
    BY <2>1, <2>2, <2>3, <2>4, <2>5, <2>6, <2>7 DEF AdminBegins
<1>2. ConfigurationBegins => files = found /\ Allowed
  <2>0. \A others : given \in OptionsWith(others) => given \subseteq ConfigOptions \union others \union Spellings
    BY DEF OptionsWith
  <2>1. ConfigUse => files = found /\ Allowed
    BY <2>0 DEF ConfigUse, Unpreferred, Projects, ConfigOptions, Spellings
  <2>2. ConfigValidate => files = found /\ Allowed
    BY <2>0 DEF ConfigValidate, Unpreferred, Projects, ConfigOptions, Spellings, Choosing
  <2>3. ConfigPull => files = found /\ Allowed
    BY <2>0 DEF ConfigPull, Unpreferred, Projects, ConfigOptions, Spellings, Choosing
  <2>4. ConfigLink => files = found /\ Allowed
    <3>1. ConfigLink => \A p \in DOMAIN found : p = Flagged
      BY DEF ConfigLink, Only
    <3>2. ConfigLink => "reset" \notin given /\ "output" \notin given
      BY DEF ConfigLink
    <3>3. QED
      BY <3>1, <3>2 DEF ConfigLink
  <2>5. AppInfo => files = found /\ Allowed
    <3> SUFFICES ASSUME AppInfo PROVE files = found /\ Allowed
      OBVIOUS
    <3>1. given \in OptionsWith({"web-env", "CFY_CONFIG"})
      BY DEF AppInfo
    <3>2. given \subseteq ConfigOptions \union {"web-env", "CFY_CONFIG"} \union Spellings
      BY <2>0, <3>1
    <3>3. QED
      BY <3>2 DEF AppInfo, Projects, ConfigOptions, Spellings
  <2>6. EnvShow => files = found /\ Allowed
    BY <2>0 DEF EnvShow, Projects, ConfigOptions, Spellings, Choosing
  <2>7. EnvPull => files = found /\ Allowed
    <3> SUFFICES ASSUME EnvPull PROVE files = found /\ Allowed
      OBVIOUS
    <3>1. PICK e \in {<<>>} \union [{".env"} -> {"user", "unreadable"}] :
            found = Over(Only("default", "user"), e)
      BY DEF EnvPull
    <3>2. DOMAIN e \subseteq {".env"}
      OBVIOUS
    <3>3. DOMAIN found \subseteq {"default", ".env"}
      BY <3>1, <3>2 DEF Only, Over
    <3>4. QED
      BY <3>3 DEF EnvPull
  <2>8. VersionsList => files = found /\ Allowed
    BY DEF VersionsList, Only
  <2>9. QED
    BY <2>1, <2>2, <2>3, <2>4, <2>5, <2>6, <2>7, <2>8 DEF ConfigurationBegins
<1>3. ScaffoldBegins => files = found /\ Allowed
  <2>1. AppInit => files = found /\ Allowed
    BY DEF AppInit, Directories
  <2>2. ThemeInit => files = found /\ Allowed
    BY DEF ThemeInit, Directories
  <2>3. QED
    BY <2>1, <2>2 DEF ScaffoldBegins
<1>4. HydrogenBegins => files = found /\ Allowed
  <2>0. ASSUME NEW contents, found \in Linkable(contents)
        PROVE  DOMAIN found \subseteq {".gitignore", "project"}
    <3>1. PICK g \in SUBSET {".gitignore"}, f \in {<<>>} \union [{"project"} -> contents] :
            found = Over([p \in g |-> "user"], f)
      BY <2>0 DEF Linkable, With
    <3>2. DOMAIN f \subseteq {"project"}
      OBVIOUS
    <3>3. QED
      BY <3>1, <3>2 DEF Over
  <2>1. HydrogenLink => files = found /\ Allowed
    <3> SUFFICES ASSUME HydrogenLink PROVE files = found /\ Allowed
      OBVIOUS
    <3>1. DOMAIN found \subseteq {".gitignore", "project"}
      BY <2>0 DEF HydrogenLink
    <3>2. QED
      BY <3>1 DEF HydrogenLink
  <2>2. HydrogenList => files = found /\ Allowed
    BY DEF HydrogenList
  <2>3. HydrogenUnlink => files = found /\ Allowed
    <3> SUFFICES ASSUME HydrogenUnlink PROVE files = found /\ Allowed
      OBVIOUS
    <3>1. DOMAIN found \subseteq {".gitignore", "project"}
      BY <2>0 DEF HydrogenUnlink
    <3>2. QED
      BY <3>1 DEF HydrogenUnlink
  <2>4. GenerateRoutes => files = found /\ Allowed
    BY Caching DEF GenerateRoutes
  <2>5. SetupMarkets => files = found /\ Allowed
    <3> SUFFICES ASSUME SetupMarkets PROVE files = found /\ Allowed
      OBVIOUS
    <3>1. PICK o \in SUBSET {"i18n"} : found \in With({"context"} \union o, Caches)
      BY DEF SetupMarkets
    <3>2. \A p \in DOMAIN found : found[p] = "user" => p \in {"context"} \union o
      BY <3>1, Caching
    <3>3. QED
      BY <3>2 DEF SetupMarkets
  <2>6. SetupCss => files = found /\ Allowed
    <3> SUFFICES ASSUME SetupCss PROVE files = found /\ Allowed
      OBVIOUS
    <3>1. PICK o \in SUBSET {"stylesheet"} : found \in With({"vite", "package", "root"} \union o, Caches)
      BY DEF SetupCss
    <3>2. \A p \in DOMAIN found : found[p] = "user" => p \in {"vite", "package", "root"} \union o
      BY <3>1, Caching
    <3>3. QED
      BY <3>2 DEF SetupCss
  <2>7. SetupVite => files = found /\ Allowed
    <3> SUFFICES ASSUME SetupVite PROVE files = found /\ Allowed
      OBVIOUS
    <3>1. PICK o \in ViteProjects :
            found \in With({"package", "server"} \union o, Caches)
      BY DEF SetupVite
    <3>2. \A p \in DOMAIN found : found[p] = "user" => p \in {"package", "server"} \union o
      BY <3>1, Caching
    <3>3. o \subseteq {"vite", "remix", "env", "root", "route1", "remix-env", ".eslintrc.js", ".eslintrc.cjs"}
      BY DEF ViteProjects
    <3>4. QED
      BY <3>2, <3>3 DEF SetupVite
  <2>8. Shortcut => files = found /\ Allowed
    BY DEF Shortcut
  <2>9. HydrogenOther => files = found /\ Allowed
    BY DEF HydrogenOther
  <2>10. QED
    BY <2>1, <2>2, <2>3, <2>4, <2>5, <2>6, <2>7, <2>8, <2>9 DEF HydrogenBegins
<1>5. ToolsBegin => files = found /\ Allowed
  <2>1. PluginsAdd => files = found /\ Allowed
    BY DEF PluginsAdd
  <2>2. PluginsLink => files = found /\ Allowed
    BY DEF PluginsLink
  <2>3. PluginsRemove => files = found /\ Allowed
    BY DEF PluginsRemove
  <2>4. PluginsUpdate => files = found /\ Allowed
    BY DEF PluginsUpdate
  <2>5. PluginsReset => files = found /\ Allowed
    BY DEF PluginsReset
  <2>6. PluginsInspect => files = found /\ Allowed
    BY DEF PluginsInspect
  <2>7. Upgrade => files = found /\ Allowed
    BY DEF Upgrade
  <2>8. UpdateCheck => files = found /\ Allowed
    BY DEF UpdateCheck
  <2>9. Settings => files = found /\ Allowed
    BY DEF Settings
  <2>10. ClearCaches => files = found /\ Allowed
    BY DEF ClearCaches
  <2>11. DocFetch => files = found /\ Allowed
    BY DEF DocFetch
  <2>12. ThemePackage => files = found /\ Allowed
    BY DEF ThemePackage
  <2>13. QED
    BY <2>1, <2>2, <2>3, <2>4, <2>5, <2>6, <2>7, <2>8, <2>9, <2>10, <2>11, <2>12 DEF ToolsBegin
<1>6. StoreBegins => files = found /\ Allowed
  <2>1. StoreInfo => files = found /\ Allowed
    BY DEF StoreInfo
  <2>2. StoreExecute => files = found /\ Allowed
    BY DEF StoreExecute
  <2>3. StoreGraphiql => files = found /\ Allowed
    BY DEF StoreGraphiql
  <2>4. StoreBulkExecute => files = found /\ Allowed
    BY DEF StoreBulkExecute, Only
  <2>5. StoreBulkStatus => files = found /\ Allowed
    BY DEF StoreBulkStatus
  <2>6. StoreBulkCancel => files = found /\ Allowed
    BY DEF StoreBulkCancel
  <2>7. StoreAuth => files = found /\ Allowed
    BY DEF StoreAuth
  <2>8. CreatePreview => files = found /\ Allowed
    BY DEF CreatePreview
  <2>9. ListSessions => files = found /\ Allowed
    BY DEF ListSessions
  <2>10. ListStores => files = found /\ Allowed
    BY DEF ListStores
  <2>11. DeleteStore => files = found /\ Allowed
    BY DEF DeleteStore
  <2>12. OpenStore => files = found /\ Allowed
    BY DEF OpenStore
  <2>13. ImportDefinitions => files = found /\ Allowed
    BY DEF ImportDefinitions
  <2>14. QED
    BY <2>1, <2>2, <2>3, <2>4, <2>5, <2>6, <2>7, <2>8, <2>9, <2>10, <2>11, <2>12, <2>13 DEF StoreBegins
<1>7. QED
  BY <1>1, <1>2, <1>3, <1>4, <1>5, <1>6 DEF Begins

(* UserFilesKept holds for any configurations and any files: whatever step *)
(* fails, whenever the command is stopped, and whatever the user and other *)
(* processes do to the files meanwhile.                                    *)
THEOREM UserFilesAreKept == Spec => []UserFilesKept
<1>1. Init => FilesInv
  <2> SUFFICES ASSUME Init PROVE FilesInv
    OBVIOUS
  <2>1. CASE Begins
    BY <2>1, PlansStart, FilesStart, ViteStarts, OrderKeepsFiles DEF Started
  <2>2. CASE Unplanned
    BY <2>2 DEF Unplanned, FilesInv, UserFilesKept, Allowed, Free, Looks, LooksFirst, Precedes,
       Untouched, Apart, ViteOnly, Names
  <2>3. QED
    BY <2>1, <2>2 DEF Init
<1>2. PlanInv /\ FilesInv /\ [Next]_vars => FilesInv'
  <2> SUFFICES ASSUME PlanInv, FilesInv, [Next]_vars PROVE FilesInv'
    OBVIOUS
  <2>1. CASE Steps \/ World \/ StepFails(Handled) \/ Killed(Listening)
    BY <2>1, FilesInvGoesOn DEF PlanInv
  <2>2. CASE UNCHANGED <<command, plannedVars>>
    <3>1. UNCHANGED <<command, given, todo, files, found, agreed>>
      BY <2>2 DEF plannedVars
    <3>2. UserFilesKept' /\ Allowed'
      BY <3>1 DEF FilesInv, UserFilesKept, Allowed, Free, Renamed, Content, Exists
    <3>3. Looks' /\ Untouched' /\ Apart' /\ ViteOnly'
      BY <3>1 DEF FilesInv, Looks, LooksFirst, Precedes, Free, Untouched, Apart, ViteOnly
    <3>4. QED
      BY <3>2, <3>3 DEF FilesInv
  <2>3. Next => (Steps \/ World \/ StepFails(Handled) \/ Killed(Listening)) \/ UNCHANGED <<command, plannedVars>>
    BY DeploymentsAlone DEF Next, commandVars
  <2>4. QED
    BY <2>1, <2>2, <2>3 DEF vars, commandVars
<1>3. FilesInv => UserFilesKept
  BY DEF FilesInv
<1>4. QED
  BY <1>1, <1>2, <1>3, PlanInvHolds, PTL DEF Spec

-----------------------------------------------------------------------------
(* The configuration of a command.                                         *)

(* env, config validate and config pull resolve the same file, where no    *)
(* variable and no preference is in play: what is flagged, or else what    *)
(* was saved and is still there, or else the default.  Where the two rules *)
(* for --config differ, the last two resolve none.                         *)
LEMMA OneChoice == SameChoice
<1> SUFFICES ASSUME Present # {}, "CFY_CONFIG" \notin given, Preferred = None,
                    Saved \in Present \union {None}
             PROVE  /\ ValidateChoice = PullChoice
                    /\ ValidateChoice # None => ValidateChoice = EnvironmentChoice
                    /\ EnvironmentChoice # None /\ ValidateChoice = None =>
                         \/ "config-path" \in given
                         \/ "config-default" \in given /\ NamedDefault \notin Present
  BY DEF SameChoice
<1> DEFINE later == First(Option("client-id", Flagged), Remembered)
<1>1. None \notin Present /\ Unknown \notin Present
  BY ConfigurationAssumption DEF Present
<1>2. EnvironmentChoice = Select(First(ByName, later))
  BY DEF EnvironmentChoice, First, Option
<1>3. ValidateChoice = Select(First(ByFileName, later))
  BY DEF ValidateChoice
<1>4. ValidateChoice = PullChoice
  <2> DEFINE explicit == First(ByFileName, Option("client-id", Flagged))
  <2>1. CASE explicit # None
    BY <2>1 DEF ValidateChoice, PullChoice, First
  <2>2. CASE explicit = None
    <3>1. ValidateChoice = Select(Remembered)
      BY <2>2 DEF ValidateChoice, First
    <3>2. Remembered \in Present \union {None}
      BY DEF Remembered
    <3>3. PullChoice = IF Remembered \in Present THEN Remembered ELSE Default
      BY <2>2 DEF PullChoice
    <3>4. QED
      BY <1>1, <3>1, <3>2, <3>3 DEF Select
  <2>3. QED
    BY <2>1, <2>2
<1>5. CASE "config-path" \in given
  <2>1. ByFileName = Unknown /\ ByName = Flagged /\ Unknown # None
    BY <1>5 DEF ByFileName, ByName, Unknown, None
  <2>2. ValidateChoice = None
    BY <1>1, <1>3, <2>1 DEF First, Select
  <2>3. QED
    BY <1>4, <1>5, <2>2
<1>6. CASE "config-path" \notin given /\ "config" \notin given /\ "config-default" \in given
           /\ NamedDefault \notin Present
  <2>1. ByFileName = NamedDefault
    BY <1>6 DEF ByFileName, Option
  <2>2. ValidateChoice = None
    BY <1>1, <1>3, <2>1, <1>6, ConfigurationAssumption DEF First, Select
  <2>3. QED
    BY <1>4, <1>6, <2>2
<1>7. CASE /\ "config-path" \notin given
           /\ "config" \in given \/ "config-default" \notin given \/ NamedDefault \in Present
  <2>1. ByFileName = ByName
    BY <1>7 DEF ByFileName, ByName, Option
  <2>2. QED
    BY <1>2, <1>3, <1>4, <2>1
<1>8. QED
  BY <1>5, <1>6, <1>7

(* SameChoice holds for any files, and any that is flagged or remembered.  *)
THEOREM CommandsAgree == Spec => []SameChoice
<1>1. SameChoice
  BY OneChoice
<1>2. QED
  BY <1>1, PTL

-----------------------------------------------------------------------------
(* What a command says when it ends.                                       *)

(* t is what is left of a plan.                                            *)
LeftOf(t, plan) ==
  /\ Sequence(t) /\ Len(t) <= Len(plan)
  /\ \A i \in DOMAIN t : t[i] = plan[Len(plan) - Len(t) + i]

(* The command goes on, or has succeeded.                                  *)
Well == result \in {"none", "ok"}

(* A configuration is written to a path that was chosen, a route to one of *)
(* the template's.                                                         *)
LinkSteps ==
  {"state", "clear", "configs", "choose", "session", "management", "app", "write-config", "delegate",
   "organizations", "organization", "create-app", "choose-app", "mapping"}
RouteSteps ==
  {"directories", "source", "route-names", "routes", "locale-route", "fetch-template", "extract",
   "remove-cache", "install-cache", "mark-cache"}
Pathways ==
  /\ command \in {"config-pull", "config-link"} =>
       /\ Names(todo) \subseteq LinkSteps
       /\ Knows("config") => held["config"] \in Configs \union {Flagged}
       /\ Knows("config") \/ Precedes({"choose", "mapping"}, todo, {"write-config"})
  /\ command = "hydrogen-generate" =>
       /\ Names(todo) \subseteq RouteSteps
       /\ Knows("routes") => Sequence(held.routes) /\ Names(held.routes) \subseteq RouteFiles
       /\ Knows("routes") \/ Precedes({"route-names"}, todo, {"routes"})

(* What replaces the executable has been verified.                         *)
Executable ==
  IF command # "upgrade" THEN Content("executable") = "none"
  ELSE /\ Content("executable") \in {"old", "released"}
       /\ \/ LeftOf(todo, <<"detect">>)
          \/ LeftOf(todo, <<"package-manager">>)
          \/ /\ LeftOf(todo, Standalone)
             /\ Len(todo) \in 1..5 => Knows("archive")
             /\ Len(todo) \in 1..4 => held.archive = "released"

(* The plugins recorded as installed have their files.                     *)
PluginCommands ==
  {"plugins-install", "plugins-link", "plugins-remove", "plugins-uninstall", "plugins-unlink",
   "plugins-update", "plugins-reset", "plugins-inspect"}
Installs == command \in {"plugins-install", "plugins-reset"}
(* The plugins whose files are there, or that another process has changed. *)
Accounted == server.artifacts \union server.raced
Backed(records) == \A p \in Plugins : <<p, "installed">> \in records => p \in Accounted

(* Steps come in pairs and triples: a record is changed right after the    *)
(* registry was loaded, and that after npm, where it installs.             *)
Firsts == {"named-plugins", "installed-plugins", "inspect"}
Follows(s, before) ==
  /\ s \in {"record-plugin", "drop-plugin"} => before = "load-registry"
  /\ s = "load-registry" /\ Installs => before = "npm"
  /\ s = "remove-artifacts" => before = "drop-plugin"
  /\ s = "remove-all" => before = "clear-registry"
InTurn(t) ==
  \A i \in DOMAIN t :
    /\ t[i] \in Firsts => Len(t) = 1
    /\ t[i] = "named-plugins" => command \notin {"plugins-reset", "plugins-update"}
    /\ t[i] = "installed-plugins" => command \in {"plugins-reset", "plugins-update"}
    /\ i > 1 => Follows(t[i], t[i - 1])
    /\ t[i] = "npm" /\ command = "plugins-reset" => i + 2 \in DOMAIN t /\ t[i + 2] = "record-plugin"
    /\ t[i] = "drop-plugin" => i + 1 \in DOMAIN t /\ t[i + 1] = "remove-artifacts"
    /\ t[i] = "record-plugin" => Installs \/ command = "plugins-link"

(* What is true where a step is next.                                      *)
Ready(s) ==
  /\ s \notin Firsts => Knows("plugins")
  /\ s \in {"record-plugin", "drop-plugin"} => Knows("registry") /\ Backed(held.registry)
  /\ s \in {"load-registry", "record-plugin"} /\ Installs => Plugin \in Accounted
  /\ s = "remove-artifacts" => (<<Plugin, "installed">> \in server.records => Plugin \in server.raced)
  /\ s = "remove-all" => \A p \in Plugins : <<p, "installed">> \in server.records => p \in server.raced

PluginSteps ==
  {"named-plugins", "installed-plugins", "inspect", "npm", "load-registry", "record-plugin",
   "find-plugin", "drop-plugin", "remove-artifacts", "clear-registry", "remove-all", "exits"}
RegistryKept ==
  /\ "records" \in DOMAIN server => command \in PluginCommands
  /\ command \in PluginCommands =>
       /\ Sequence(todo) /\ Names(todo) \subseteq PluginSteps
       /\ {"records", "artifacts", "raced"} \subseteq DOMAIN server
       /\ Backed(server.records)
       /\ InTurn(todo)
       /\ todo # <<>> => Ready(Head(todo))

(* The archive of a theme is closed by the last step.                      *)
Archived ==
  command = "theme-package" =>
    /\ LeftOf(todo, <<"create-archive", "collect-files", "finish-archive">>)
    /\ result = "ok" => Content("archive") = "complete"

(* app init has something to take back from the clone on, and takes it.    *)
InitSteps ==
  {"template", "inputs", "session", "business", "management", "organizations", "find-app",
   "pick-organization", "pick-app", "validate-app"}
Late == (Undone \union {"unstage"}) \ {"clone-app"}
InitPlan(t) ==
  /\ Sequence(t)
  /\ Len(t) > 0 => t[Len(t)] = "link"
  /\ \/ Names(t) \subseteq Late
     \/ \E c \in DOMAIN t :
          /\ t[c] = "clone-app"
          /\ \A i \in DOMAIN t : (i < c => t[i] \in InitSteps) /\ (i > c => t[i] \in Late)
          /\ \E i \in DOMAIN t : i > c /\ t[i] = "unstage"
Clean == Content("staging") = "none" /\ Content("directory") \in {"none", "user", "empty"}
Initialised ==
  command = "app-init" =>
    /\ InitPlan(todo)
    /\ "clone-app" \in Names(todo) \/ result = "error" => Clean
    /\ result = "none" => "unstage" \in Names(todo) \/ Content("staging") = "none"
    /\ result = "ok" => Content("staging") = "none" /\ Content("directory") = "linked"

(* What is wrong with a project is known once its part has been looked at. *)
Found(f) == f \in server.flaws => Knows("wrong") /\ f \in held.wrong
LookedAt ==
  /\ Len(todo) <= 4 => Found("app")
  /\ Len(todo) <= 3 => Found("extension")
  /\ Len(todo) <= 2 => Found("web")
  /\ Len(todo) <= 1 => Found("duplicate")
Validated ==
  command = "config-validate" =>
    /\ \/ LeftOf(todo, <<"state", "clear", "choose", "app-table", "extensions", "webs", "duplicates", "report">>)
       \/ LeftOf(todo, <<"state", "choose", "app-table", "extensions", "webs", "duplicates", "report">>)
    /\ "flaws" \in DOMAIN server /\ server.flaws \subseteq {"app", "extension", "web", "duplicate"}
    /\ result = "none" => LookedAt
    /\ result = "ok" => server.flaws = {}

(* Once a bulk operation is seen to have ended it stays as it is.          *)
BulkSteps ==
  {"document", "environment", "session", "management", "secret", "exchange", "version", "kind", "plan",
   "store-kind", "stage", "upload", "run", "poll", "download", "report"}
Completed ==
  command \in {"bulk-execute", "store-bulk-execute"} =>
    /\ Names(todo) \subseteq BulkSteps
    /\ \A i, j \in DOMAIN todo : i < j /\ todo[i] = "poll" => todo[j] # "run"
    /\ "operation" \in DOMAIN server
    /\ IF Knows("operation") THEN "run" \notin Names(todo) ELSE Precedes({"poll"}, todo, {"download"})
    /\ Knows("operation") /\ held.operation \in Ended => server.operation = held.operation
    /\ Content("results") = "results" => Knows("operation") /\ held.operation = "completed"
    /\ Well /\ "watch" \in given =>
         "poll" \in Names(todo) \/ (Knows("operation") /\ held.operation \in Ended)

(* What a store has granted is kept two steps later.                       *)
Tokens ==
  /\ {"stored", "issued", "index", "scopes"} \subseteq DOMAIN server
  /\ server.stored \in Nat /\ server.issued \in Nat
  /\ Knows("granted") => held.granted \in Nat
InfoPlan == <<"entry", "credential", "refresh", "keep-refreshed", "keep-index", "info">>
AuthPlan ==
  <<"terminal", "scopes", "callback-port", "approval", "exchange-code", "keep-credential", "index", "keep-entry">>
CreatePlan == <<"instance", "create-store", "keep-credential", "index", "keep-entry">>
Granted ==
  /\ Knows("granted") => command \in {"store-info", "store-auth", "store-create"}
  /\ command = "store-info" =>
       /\ LeftOf(todo, InfoPlan)
       /\ Tokens
       /\ result = "none" /\ Len(todo) = 3 => Knows("granted")
       /\ Well /\ Knows("granted") => (result = "none" /\ Len(todo) = 3) \/ server.stored >= held.granted
  /\ command \in {"store-auth", "store-create"} =>
       /\ LeftOf(todo, AuthPlan) \/ LeftOf(todo, CreatePlan)
       /\ Tokens
       /\ Well /\ Len(todo) <= 6 /\ command = "store-auth" => Knows("requested")
       /\ Well /\ Len(todo) <= 3 =>
            {"granted", "requested", "scopes"} \subseteq DOMAIN held /\ held.requested \subseteq Expanded(held.scopes)
       /\ Well /\ Len(todo) <= 2 => server.stored >= held.granted
       /\ result = "ok" => "s" \in server.index /\ held.requested \subseteq Expanded(server.scopes)

(* A kind of definitions is passed with its last page.                     *)
AllFields == Knows("denied") \/ (Knows("metafields") /\ held["metafields"] = server.pages["metafields"])
AllObjects == Knows("metaobjects") /\ held["metaobjects"] = server.pages["metaobjects"]
Imported ==
  command = "import-custom-data" =>
    /\ LeftOf(todo, <<"environment", "session", "management", "secret", "exchange", "metafields",
                      "metaobjects", "report">>)
    /\ "pages" \in DOMAIN server
    /\ Well /\ Len(todo) <= 2 => AllFields
    /\ Well /\ Len(todo) <= 1 => AllObjects

(* A command that has ended has nothing left to do; some have no plan.     *)
Silent == {"deploy", "release", "dev-clean", "build"}
Finished == result # "none" \/ command \in Silent => todo = <<>>

EndInv ==
  /\ Finished
  /\ Pathways /\ Executable /\ RegistryKept /\ Archived
  /\ Initialised /\ Validated /\ Completed /\ Granted /\ Imported

-----------------------------------------------------------------------------
(* The steps that matter to what is said at the end.                       *)

(* g says what f does of the names in K.                                   *)
Keeps(f, g, K) ==
  \A k \in K : (k \in DOMAIN g <=> k \in DOMAIN f) /\ (k \in DOMAIN f => g[k] = f[k])

Places == {"executable", "archive", "staging", "directory", "results"}
Services == {"records", "artifacts", "raced", "flaws", "operation", "stored", "issued", "pages"}
Lessons ==
  {"plugins", "registry", "archive", "wrong", "operation", "granted", "requested", "scopes", "config",
   "routes", "metafields", "metaobjects", "denied"}

(* Steps that a command passes only by an action that matters.             *)
Turns ==
  {"named-plugins", "installed-plugins", "npm", "load-registry", "record-plugin", "drop-plugin",
   "remove-artifacts", "clear-registry", "remove-all", "detect", "fetch-release", "verify", "finish-archive",
   "clone-app", "unstage", "link", "app-table", "extensions", "webs", "duplicates", "poll", "choose", "mapping",
   "route-names", "refresh", "keep-refreshed", "keep-credential", "scopes", "exchange-code", "create-store",
   "keep-entry", "metafields", "metaobjects"}

(* Steps at which a command may be done before its plan is.                *)
Quits == {"stream", "read-document", "notify", "unlink", "store-organizations", "exits", "releases"}

(* The step is done, with the command where it was the last.               *)
Advances ==
  \/ todo' = Tail(todo) /\ result' = result
  \/ Len(todo) = 1 /\ todo' = <<>> /\ result' = "ok"
Passes ==
  /\ Advances
  /\ Head(todo) \notin Turns
  /\ command = "config-validate" => Head(todo) # "report"
GoesOn ==
  \/ todo' = todo /\ result' = result
  \/ Passes
  \/ todo' = <<>> /\ result' = "ok" /\ Head(todo) \in Quits
  \/ todo' = <<>> /\ result' = "killed"
  \/ todo' = <<>> /\ result' = "error" /\ (command = "app-init" => Head(todo) \notin Undone \union {"unstage"})

(* A step of no account.                                                   *)
Plain ==
  /\ GoesOn
  /\ Keeps(files, files', Places) /\ Keeps(server, server', Services) /\ Keeps(held, held', Lessons)
  /\ DOMAIN server \intersect {"index", "scopes"} \subseteq DOMAIN server'

ToolsTell ==
  \/ Head(todo) = "named-plugins" /\ PluginNames
  \/ Head(todo) = "installed-plugins" /\ InstalledPlugins
  \/ Head(todo) = "npm" /\ (NpmWorks \/ NpmFails)
  \/ Head(todo) = "load-registry" /\ LoadRegistry
  \/ Head(todo) = "record-plugin" /\ RecordPlugin
  \/ Head(todo) = "drop-plugin" /\ DropPlugin
  \/ Head(todo) = "remove-artifacts" /\ RemoveArtifacts
  \/ Head(todo) = "clear-registry" /\ ClearRegistry
  \/ Head(todo) = "remove-all" /\ RemoveAllArtifacts
  \/ Head(todo) = "detect" /\ DetectInstall
  \/ Head(todo) = "fetch-release" /\ DownloadRelease
  \/ Head(todo) = "verify" /\ VerifyChecksum
  \/ Head(todo) = "replace-executable" /\ ReplaceExecutable
  \/ Head(todo) = "notify" /\ NotifyAndRefresh
  \/ Head(todo) = "create-archive" /\ CreateArchive
  \/ Head(todo) = "finish-archive" /\ FinishArchive

ConfigurationTells ==
  \/ Head(todo) = "environment" /\ ReadEnvironment
  \/ Head(todo) = "app-table" /\ ParseApp
  \/ Head(todo) = "extensions" /\ DiscoverExtensions
  \/ Head(todo) = "webs" /\ DiscoverWebs
  \/ Head(todo) = "duplicates" /\ FindDuplicates
  \/ Head(todo) = "report" /\ ReportValidity
  \/ Head(todo) = "choose" /\ (ChooseNamed \/ AskForConfig \/ ChooseValidated \/ ChoosePulled)
  \/ Head(todo) = "mapping" /\ MapLocal
  \/ Head(todo) = "write-config" /\ WriteConfig

AdminTells ==
  \/ Head(todo) = "run" /\ RunOperation
  \/ Head(todo) = "poll" /\ Poll
  \/ Head(todo) = "download" /\ Download
  \/ Head(todo) = "cancel" /\ CancelOperation
  \/ Head(todo) = "report" /\ ReportResult
  \/ Head(todo) = "bind" /\ Bind
  \/ Head(todo) = "serve" /\ GraphiqlServes

ScaffoldTells ==
  \/ Head(todo) = "clone-app" /\ CloneApp
  \/ Head(todo) = "make" /\ MakeDirectory
  \/ Head(todo) = "git-init" /\ InitGit
  \/ Head(todo) = "unstage" /\ Unstage
  \/ Head(todo) \in Undone /\ RollBack
  \/ Head(todo) = "create" /\ CreateInitApp
  \/ Head(todo) = "link" /\ LinkDirectory
  \/ Head(todo) = "clone-theme" /\ CloneTheme
  \/ Head(todo) = "origin" /\ RemoveOrigin

HydrogenTells ==
  \/ Head(todo) = "storefront" /\ CreateStorefront
  \/ Head(todo) = "source" /\ ResolveSource
  \/ Head(todo) = "route-names" /\ RouteNames
  \/ Head(todo) = "routes" /\ (ConfirmReplace \/ WriteImports \/ WriteRoute)

StoresTell ==
  \/ Head(todo) = "credential" /\ LoadCredential
  \/ Head(todo) = "refresh" /\ Refresh
  \/ Head(todo) = "keep-refreshed" /\ KeepRefreshed
  \/ Head(todo) = "scopes" /\ MergeScopes
  \/ Head(todo) = "exchange-code" /\ ExchangeCode
  \/ Head(todo) = "create-store" /\ CreateStore
  \/ Head(todo) = "keep-credential" /\ KeepCredential
  \/ Head(todo) = "keep-entry" /\ KeepEntry
  \/ Head(todo) = "metafields" /\ (LoadPage("metafields") \/ SkipDenied)
  \/ Head(todo) = "metaobjects" /\ LoadPage("metaobjects")

OthersTell == OperationRuns \/ OtherPlugins \/ OtherRefreshes \/ SomebodyMakes \/ Edit

Telling ==
  \/ ToolsTell \/ ConfigurationTells \/ AdminTells \/ ScaffoldTells \/ HydrogenTells \/ StoresTell
  \/ OthersTell
Tells == Planned /\ Same /\ (Plain \/ Telling)

(* Every step goes on, and keeps what matters, or is one that tells.       *)
LEMMA StepsTell ==
  Steps \/ World \/ StepFails(Handled) \/ Killed(Listening) => Tells
<1> DEFINE Still == Keeps(files, files', Places)
           Unserved == Keeps(server, server', Services)
                       /\ DOMAIN server \intersect {"index", "scopes"} \subseteq DOMAIN server'
           Unlearnt == Keeps(held, held', Lessons)
<1>0. Then => UNCHANGED <<command, at, given, found>> /\ Advances
  BY DEF Then, Return, Pass, Advances, commandVars
<1>1. /\ files' = files => Still
      /\ server' = server => Unserved
      /\ held' = held => Unlearnt
  BY DEF Keeps
<1>2. ASSUME NEW k, NEW v, Learn(k, v), k \notin Lessons
      PROVE  Unlearnt
  BY <1>2 DEF Keeps, Learn, Over, Only
<1>3. ASSUME NEW p, NEW c, Set(p, c), p \notin Places
      PROVE  Still
  BY <1>3 DEF Keeps, Set, Over, Only
<1>4. ASSUME NEW p, Gone(p), p \notin Places
      PROVE  Still
  BY <1>4 DEF Keeps, Gone
<1>5. ASSUME NEW change, server' = Over(change, server), DOMAIN change \intersect Services = {}
      PROVE  Unserved
  BY <1>5 DEF Keeps, Over
<1>6. ASSUME NEW s, Step(s), s \notin Turns, command = "config-validate" => s # "report"
      PROVE  Plain
  BY <1>0, <1>1, <1>6 DEF Step, At, Planned, Return, Pass, Quiet, Plain, GoesOn, Passes, Advances, commandVars
<1>7. ASSUME NEW s, NEW change, Mutation(s, change), s \notin Turns \union Undone \union {"report"},
             DOMAIN change \intersect Services = {}
      PROVE  Plain
  <2>1. Still /\ Unserved /\ Unlearnt
    BY <1>1, <1>5, <1>7 DEF Mutation, OnServer
  <2>2. GoesOn
    BY <1>0, <1>7 DEF Mutation, At, Planned, Return, Pass, GoesOn, Passes, Advances, commandVars, Turns
  <2>3. QED
    BY <2>1, <2>2 DEF Plain
<1>8. ASSUME NEW s, NEW p, NEW c, Replace(s, p, c), s \notin Turns \union {"report"}, p \notin Places
      PROVE  Plain
  <2>1. Still /\ Unserved /\ Unlearnt
    BY <1>1, <1>3, <1>8 DEF Replace, OnDisk
  <2>2. GoesOn
    BY <1>0, <1>8 DEF Replace, At, Planned, Return, Pass, GoesOn, Passes, Advances, commandVars
  <2>3. QED
    BY <2>1, <2>2 DEF Plain
<1> HIDE DEF Still, Unserved, Unlearnt
<1>9. ASSUME Still, Unserved, Unlearnt, GoesOn PROVE Plain
  BY <1>9 DEF Plain, Still, Unserved, Unlearnt
<1>10. AdminSteps => Plain \/ AdminTells
  <2>1. CheckPlan => Plain
    <3>1. CheckPlan => Still /\ Unserved /\ Unlearnt
      BY <1>1, <1>2 DEF CheckPlan, Quiet, Lessons
    <3>2. CheckPlan => GoesOn
      BY DEF CheckPlan, At, Pass, GoesOn, Passes, Advances, Turns, commandVars
    <3>3. QED
      BY <1>9, <3>1, <3>2
  <2>2. StageUpload \/ UploadVariables \/ ExecuteDocument \/ Trigger \/ DeliverLocally => Plain
    BY <1>7 DEF StageUpload, UploadVariables, ExecuteDocument, Trigger, DeliverLocally, Only, Turns, Undone,
         Services
  <2>3. Subscribe => Plain
    <3>1. Subscribe => Still /\ Unserved
      BY <1>1 DEF Subscribe, Unserved, Keeps, Services
    <3>2. Subscribe => Unlearnt
      BY DEF Subscribe, Unlearnt, Keeps, Over, Lessons
    <3>3. Subscribe => GoesOn
      BY DEF Subscribe, At, Pass, GoesOn, Passes, Advances, Turns, commandVars
    <3>4. QED
      BY <1>9, <3>1, <3>2, <3>3
  <2>4. PollLogs \/ Resubscribe => Plain
    <3>1. PollLogs \/ Resubscribe => Still /\ Unserved /\ Unlearnt
      BY <1>1 DEF PollLogs, Resubscribe, Quiet, Unserved, Unlearnt, Keeps, Services, Lessons
    <3>2. PollLogs \/ Resubscribe => GoesOn
      BY DEF PollLogs, Resubscribe, Stay, GoesOn, commandVars
    <3>3. QED
      BY <1>9, <3>1, <3>2
  <2>5. StopLogs => Plain
    <3>1. StopLogs => Still /\ Unserved /\ Unlearnt
      BY <1>1 DEF StopLogs, Quiet
    <3>2. StopLogs => GoesOn
      BY DEF StopLogs, At, Return, GoesOn, Quits
    <3>3. QED
      BY <1>9, <3>1, <3>2
  <2>6. ReadDocument \/ ReadVariables \/ AppSecret \/ ExchangeCredentials \/ ResolveVersion \/ CheckKind
        \/ ReportOperation \/ ReadStatus \/ CheckTerminal \/ CheckSources \/ CheckStores \/ ChooseApiVersion
        \/ ChooseTopic \/ ResolveDelivery => Plain
    BY <1>6 DEF ReadDocument, ReadVariables, AppSecret, ExchangeCredentials, ResolveVersion, CheckKind,
         ReportOperation, ReadStatus, CheckTerminal, CheckSources, CheckStores, ChooseApiVersion,
         ChooseTopic, ResolveDelivery, Turns
  <2>7. RunOperation => Head(todo) = "run"
    BY DEF RunOperation, Mutation, At
  <2>8. CancelOperation => Head(todo) = "cancel"
    BY DEF CancelOperation, Mutation, At
  <2>9. Poll => Head(todo) = "poll"
    BY DEF Poll, At
  <2>10. Download => Head(todo) = "download"
    BY DEF Download, At
  <2>11. ReportResult => Head(todo) = "report"
    BY DEF ReportResult, Replace, Step, At
  <2>12. Bind => Head(todo) = "bind"
    BY DEF Bind, At
  <2>13. GraphiqlServes => Head(todo) = "serve"
    <3>1. ASSUME NEW c \in Connections, TakeClient(c) PROVE Serving(c, "client")
      BY <3>1, Zenon DEF TakeClient
    <3>2. ASSUME NEW c \in Connections, MakeClient(c) PROVE Serving(c, "exchange")
      BY <3>2, Zenon DEF MakeClient
    <3>3. ASSUME NEW c \in Connections, CheckPolicy(c) PROVE Serving(c, "policy")
      BY <3>3, Zenon DEF CheckPolicy
    <3>4. QED
      BY <3>1, <3>2, <3>3 DEF GraphiqlServes, ReadRequest, ServeDocument, StopServing, Serving, At
  <2>14. QED
    BY <2>1, <2>2, <2>3, <2>4, <2>5, <2>6, <2>7, <2>8, <2>9, <2>10, <2>11, <2>12, <2>13
       DEF AdminSteps, AdminTells
<1>11. ConfigurationSteps => Plain \/ ConfigurationTells
  <2>1. ReadSession \/ ManagementToken \/ ReadApp \/ LoadConfigs \/ LoadState \/ Delegate \/ ListOrganizations
        \/ ChooseOrganization \/ ChooseApp \/ ListVersions => Plain
    BY <1>6 DEF ReadSession, ManagementToken, ReadApp, LoadConfigs, LoadState, Delegate, ListOrganizations,
         ChooseOrganization, ChooseApp, ListVersions, Turns
  <2>2. ClearState => Plain
    <3>1. ClearState => Still /\ Unserved /\ Unlearnt
      BY <1>1, <1>4 DEF ClearState, OnDisk, Places
    <3>2. ClearState => GoesOn
      BY <1>0 DEF ClearState, At, Planned, Return, Pass, GoesOn, Passes, Advances, Turns, commandVars
    <3>3. QED
      BY <1>9, <3>1, <3>2
  <2>3. SaveState \/ MergeEnv => Plain
    BY <1>8 DEF SaveState, MergeEnv, Turns, Places
  <2>4. CreateApp => Plain
    BY <1>7 DEF CreateApp, Only, Turns, Undone, Services
  <2>5. ReadEnvironment => Head(todo) = "environment"
    BY DEF ReadEnvironment, At
  <2>6. /\ ParseApp => Head(todo) = "app-table"
        /\ DiscoverExtensions => Head(todo) = "extensions"
        /\ DiscoverWebs => Head(todo) = "webs"
        /\ FindDuplicates => Head(todo) = "duplicates"
    BY DEF ParseApp, DiscoverExtensions, DiscoverWebs, FindDuplicates, Diagnoses, At
  <2>7. ReportValidity => Head(todo) = "report"
    BY DEF ReportValidity, At
  <2>8. ChooseNamed \/ AskForConfig \/ ChooseValidated \/ ChoosePulled => Head(todo) = "choose"
    BY DEF ChooseNamed, AskForConfig, ChooseValidated, ChoosePulled, Chooses, At
  <2>9. MapLocal => Head(todo) = "mapping"
    BY DEF MapLocal, At
  <2>10. WriteConfig => Head(todo) = "write-config"
    BY DEF WriteConfig, At
  <2>11. QED
    BY <2>1, <2>2, <2>3, <2>4, <2>5, <2>6, <2>7, <2>8, <2>9, <2>10
       DEF ConfigurationSteps, ConfigurationTells
<1>12. ScaffoldSteps => Plain \/ ScaffoldTells
  <2>1. ChooseTemplate \/ CheckInputs \/ BusinessToken \/ FindApp \/ PickOrganization \/ PickApp \/ ValidateApp
        \/ CopyTemplate \/ UpdatePackage \/ UpdateWorkspace \/ InstallDependencies \/ FetchApp
        \/ ValidateTheme \/ DescribeTag \/ CheckoutTag \/ ListRemotes \/ CleanSkeleton => Plain
    BY <1>6 DEF ChooseTemplate, CheckInputs, BusinessToken, FindApp, PickOrganization, PickApp, ValidateApp,
         CopyTemplate, UpdatePackage, UpdateWorkspace, InstallDependencies, FetchApp, ValidateTheme,
         DescribeTag, CheckoutTag, ListRemotes, CleanSkeleton, Turns
  <2>2. CloneApp \/ MakeDirectory \/ InitGit \/ Unstage \/ RollBack \/ CreateInitApp \/ LinkDirectory
        \/ CloneTheme \/ RemoveOrigin => ScaffoldTells
    BY DEF CloneApp, MakeDirectory, InitGit, Unstage, RollBack, CreateInitApp, LinkDirectory, CloneTheme,
         RemoveOrigin, Replace, At, ScaffoldTells
  <2>3. QED
    BY <2>1, <2>2 DEF ScaffoldSteps
<1>13. HydrogenSteps => Plain \/ HydrogenTells
  <2>1. ReadProject \/ CheckLinked \/ ListStorefronts \/ DownloadArchive \/ ProjectDirectories
        \/ ChooseStrategy \/ FindContext \/ CheckI18n \/ RewriteContext \/ FindVite \/ CheckStylesheet
        \/ InjectPlugin \/ FindRoot \/ CheckNoVite \/ FindRemix \/ DiscoverTool
        \/ RunTool => Plain
    BY <1>6 DEF ReadProject, CheckLinked, ListStorefronts, DownloadArchive, ProjectDirectories,
         ChooseStrategy, FindContext, CheckI18n, RewriteContext, FindVite, CheckStylesheet, InjectPlugin,
         FindRoot, CheckNoVite, FindRemix, DiscoverTool, RunTool, Turns
  <2>2. LinkProject \/ ExtractArchive \/ MarkCache \/ CopyLocaleRoute \/ WriteI18n
        \/ WriteContext \/ MergePackage \/ WriteStylesheet \/ WriteVite \/ WriteRoot \/ RewriteEnv
        \/ RewriteServer \/ RewriteImports \/ NewVite => Plain
    BY <1>6, <1>8 DEF LinkProject, ExtractArchive, MarkCache, CopyLocaleRoute, WriteI18n,
         WriteContext, MergePackage, WriteStylesheet, WriteVite, WriteRoot, RewriteEnv, RewriteServer,
         RewriteImports, NewVite, Turns, Places
  <2>2a. ASSUME NEW s, NEW p, Truncate(s, p), p \notin Places
         PROVE  Plain
    <3>1. Still /\ Unserved /\ Unlearnt
      BY <1>1, <1>3, <2>2a DEF Truncate, OnDisk
    <3>2. GoesOn
      BY <2>2a DEF Truncate, Stay, GoesOn, commandVars
    <3>3. QED
      BY <1>9, <3>1, <3>2
  <2>2b. RenameEnv \/ RenameEslint => Plain
    <3>1. ASSUME NEW s, NEW from \in {"remix-env", ".eslintrc.js"}, NEW to \in {"env", ".eslintrc.cjs"},
                 Move(s, from, to), s \notin Turns
          PROVE  Plain
      <4>1. Keeps(files, files', Places)
        BY <3>1 DEF Move, Keeps, Over, Only, Places
      <4>2. Still /\ Unserved /\ Unlearnt
        BY <1>1, <3>1, <4>1 DEF Move, OnDisk, Still
      <4>3. GoesOn
        BY <3>1 DEF Move, At, Pass, GoesOn, Passes, Advances, commandVars
      <4>4. QED
        BY <1>9, <4>2, <4>3
    <3>2. QED
      BY <3>1 DEF RenameEnv, RenameEslint, Turns
  <2>2c. IgnoreShopify => Plain
    BY <1>6, <1>8, <2>2a DEF IgnoreShopify, Fill, Turns, Places
  <2>3. SelectStorefront \/ PollJob => Plain
    <3>1. SelectStorefront \/ PollJob => Still /\ Unserved /\ Unlearnt
      BY <1>1, <1>2 DEF SelectStorefront, PollJob, Quiet, Lessons
    <3>2. SelectStorefront \/ PollJob => GoesOn
      BY DEF SelectStorefront, PollJob, At, Return, Stay, Pass, GoesOn, Passes, Advances, Turns, Undone, commandVars
    <3>3. QED
      BY <1>9, <3>1, <3>2
  <2>4. UnlinkProject => Plain
    <3>1. UnlinkProject => Still /\ Unserved /\ Unlearnt
      BY <1>1, <1>3 DEF UnlinkProject, OnDisk, Places
    <3>2. UnlinkProject => GoesOn
      BY DEF UnlinkProject, At, Return, Pass, GoesOn, Passes, Advances, Turns, Quits, commandVars
    <3>3. QED
      BY <1>9, <3>1, <3>2
  <2>5. RemoveCache \/ DropRemix => Plain
    <3>1. RemoveCache \/ DropRemix => Still /\ Unserved /\ Unlearnt
      BY <1>1, <1>4 DEF RemoveCache, DropRemix, OnDisk, Places
    <3>2. RemoveCache \/ DropRemix => GoesOn
      BY <1>0 DEF RemoveCache, DropRemix, At, Planned, Return, Pass, GoesOn, Passes, Advances, Turns, commandVars
    <3>3. QED
      BY <1>9, <3>1, <3>2
  <2>6. InstallCache => Plain
    <3>1. InstallCache => Still
      BY DEF InstallCache, Still, Keeps, Over, Only, Places
    <3>2. InstallCache => Unserved /\ Unlearnt /\ GoesOn
      BY <1>1 DEF InstallCache, OnDisk, At, Pass, GoesOn, Passes, Advances, Turns, commandVars
    <3>3. QED
      BY <1>9, <3>1, <3>2
  <2>7. RoutesDone => Plain
    <3>1. RoutesDone => Still /\ Unserved /\ Unlearnt
      BY <1>1 DEF RoutesDone, Quiet
    <3>2. RoutesDone => GoesOn
      BY <1>0 DEF RoutesDone, At, Planned, Return, Pass, GoesOn, Passes, Advances, Turns, commandVars
    <3>3. QED
      BY <1>9, <3>1, <3>2
  <2>8. AddAlias => Plain
    <3>1. Truncate("shells", "zsh") \/ Step("shells") => Plain
      BY <1>6, <2>2a DEF Turns, Places
    <3>2. ASSUME NEW c, Fill("shells", "zsh", c) PROVE Plain
      BY <1>8, <3>2 DEF Fill, Turns, Places
    <3>3. QED
      BY <3>1, <3>2 DEF AddAlias
  <2>9. CreateStorefront \/ ResolveSource \/ RouteNames \/ ConfirmReplace \/ WriteImports \/ WriteRoute
          => HydrogenTells
    BY DEF CreateStorefront, ResolveSource, RouteNames, ConfirmReplace, WriteImports, WriteRoute,
         Generating, At, HydrogenTells
  <2>10. QED
    BY <2>1, <2>2, <2>2b, <2>2c, <2>3, <2>4, <2>5, <2>6, <2>7, <2>8, <2>9 DEF HydrogenSteps
<1>14. ToolsSteps => Plain \/ ToolsTell
  <2>1. InspectPlugins \/ ExecuteUpgrade \/ ExtractBinary \/ SetMode \/ FetchDocument \/ PruneDocuments
        \/ CollectFiles => Plain
    BY <1>6 DEF InspectPlugins, ExecuteUpgrade, ExtractBinary, SetMode, FetchDocument, PruneDocuments,
         CollectFiles, Turns
  <2>2. WriteVersion \/ WriteDocument => Plain
    BY <1>8 DEF WriteVersion, WriteDocument, Turns, Places
  <2>3. FindPlugin \/ FetchLatest => Plain
    <3>1. FindPlugin \/ FetchLatest => Still /\ Unserved /\ Unlearnt
      BY <1>1, <1>2 DEF FindPlugin, FetchLatest, Quiet, Lessons
    <3>2. FindPlugin \/ FetchLatest => GoesOn
      BY DEF FindPlugin, FetchLatest, At, Pass, GoesOn, Passes, Advances, Turns, commandVars
    <3>3. QED
      BY <1>9, <3>1, <3>2
  <2>4. PluginExits \/ FindRelease \/ ReadCachedDocument => Plain
    <3>1. PluginExits \/ FindRelease \/ ReadCachedDocument => Still /\ Unserved /\ Unlearnt
      BY <1>1 DEF PluginExits, FindRelease, ReadCachedDocument, Quiet
    <3>2. PluginExits \/ FindRelease \/ ReadCachedDocument => GoesOn
      BY DEF PluginExits, FindRelease, ReadCachedDocument, At, Return, Pass, GoesOn, Passes, Advances, Turns, Quits,
           Undone, commandVars
    <3>3. QED
      BY <1>9, <3>1, <3>2
  <2>5. WriteUpdateCache \/ WriteSettings \/ ClearDocuments \/ ClearBuilds => Plain
    <3>1. WriteUpdateCache \/ WriteSettings \/ ClearDocuments \/ ClearBuilds => Still /\ Unserved /\ Unlearnt
      BY <1>1, <1>3, <1>4 DEF WriteUpdateCache, WriteSettings, ClearDocuments, ClearBuilds, OnDisk, Places
    <3>2. WriteUpdateCache \/ WriteSettings \/ ClearDocuments \/ ClearBuilds => GoesOn
      BY <1>0 DEF WriteUpdateCache, WriteSettings, ClearDocuments, ClearBuilds, At, Planned, Return, Pass,
           GoesOn, Passes, Advances, Turns, commandVars
    <3>3. QED
      BY <1>9, <3>1, <3>2
  <2>6. KeepDocument => Plain
    <3>1. KeepDocument => Still
      BY DEF KeepDocument, Still, Keeps, Over, Only, Places
    <3>2. KeepDocument => Unserved /\ Unlearnt /\ GoesOn
      BY <1>1 DEF KeepDocument, OnDisk, At, Pass, GoesOn, Passes, Advances, Turns, commandVars
    <3>3. QED
      BY <1>9, <3>1, <3>2
  <2>7. PluginNames \/ InstalledPlugins \/ NpmWorks \/ NpmFails \/ LoadRegistry \/ RecordPlugin
        \/ DropPlugin \/ RemoveArtifacts \/ ClearRegistry \/ RemoveAllArtifacts => ToolsTell
    BY DEF PluginNames, InstalledPlugins, NpmWorks, NpmFails, LoadRegistry, RecordPlugin, DropPlugin,
         RemoveArtifacts, ClearRegistry, RemoveAllArtifacts, At, ToolsTell
  <2>8. DetectInstall \/ DownloadRelease \/ VerifyChecksum \/ ReplaceExecutable \/ NotifyAndRefresh
        \/ CreateArchive \/ FinishArchive => ToolsTell
    BY DEF DetectInstall, DownloadRelease, VerifyChecksum, ReplaceExecutable, NotifyAndRefresh,
         CreateArchive, FinishArchive, Replace, At, ToolsTell
  <2>9. QED
    BY <2>1, <2>2, <2>3, <2>4, <2>5, <2>6, <2>7, <2>8 DEF ToolsSteps
<1>15. StoreSteps => Plain \/ StoresTell
  <2>1. BindCallback \/ AwaitApproval \/ ReadInfo \/ CheckStoreKind \/ OrganizationStores \/ Confirmed
        \/ Endpoint \/ StoreOperation => Plain
    BY <1>6 DEF BindCallback, AwaitApproval, ReadInfo, CheckStoreKind, OrganizationStores, Confirmed,
         Endpoint, StoreOperation, Turns
  <2>2. LoadEntry \/ LoadIndex => Plain
    <3>1. LoadEntry \/ LoadIndex => Still /\ Unserved /\ Unlearnt
      BY <1>1, <1>2 DEF LoadEntry, LoadIndex, Quiet, Lessons
    <3>2. LoadEntry \/ LoadIndex => GoesOn
      BY DEF LoadEntry, LoadIndex, At, Return, Pass, GoesOn, Passes, Advances, Turns, Undone, commandVars
    <3>3. QED
      BY <1>9, <3>1, <3>2
  <2>3. DropEntry \/ KeepIndex \/ PruneIndex => Plain
    <3>1. DropEntry \/ KeepIndex \/ PruneIndex => Still /\ Unlearnt
      BY <1>1 DEF DropEntry, KeepIndex, PruneIndex
    <3>2. DropEntry \/ KeepIndex \/ PruneIndex => Unserved
      BY DEF DropEntry, KeepIndex, PruneIndex, Unserved, Keeps, Services
    <3>3. DropEntry \/ KeepIndex \/ PruneIndex => GoesOn
      BY <1>0 DEF DropEntry, KeepIndex, PruneIndex, At, Planned, Return, Pass, GoesOn, Passes, Advances, Turns, Undone,
           commandVars
    <3>4. QED
      BY <1>9, <3>1, <3>2, <3>3
  <2>4. InstanceId => Plain
    <3>1. InstanceId => Still /\ Unserved /\ Unlearnt
      BY <1>1, <1>3 DEF InstanceId, OnDisk, Places
    <3>2. InstanceId => GoesOn
      BY DEF InstanceId, At, Pass, GoesOn, Passes, Advances, Turns, commandVars
    <3>3. QED
      BY <1>9, <3>1, <3>2
  <2>5. ListEntries => Plain
    <3>1. ListEntries => Still /\ Unserved
      BY <1>1 DEF ListEntries, Quiet
    <3>2. ListEntries => Unlearnt
      BY DEF ListEntries, Unlearnt, Keeps, Over, Lessons
    <3>3. ListEntries => GoesOn
      BY DEF ListEntries, At, Pass, GoesOn, Passes, Advances, Turns, commandVars
    <3>4. QED
      BY <1>9, <3>1, <3>2, <3>3
  <2>6. ExecuteAnyDocument => Plain
    <3>1. ExecuteAnyDocument => Still /\ Unlearnt
      BY <1>1 DEF ExecuteAnyDocument, OnServer
    <3>2. ExecuteAnyDocument => Unserved
      BY DEF ExecuteAnyDocument, Unserved, Keeps, Services
    <3>3. ExecuteAnyDocument => GoesOn
      BY <1>0 DEF ExecuteAnyDocument, At, Planned, Return, Pass, Stay, GoesOn, Passes, Advances, Turns, Undone,
           commandVars
    <3>4. QED
      BY <1>9, <3>1, <3>2, <3>3
  <2>7. StoreOrganization => Plain
    <3>1. StoreOrganization => Still /\ Unserved /\ Unlearnt
      BY <1>1 DEF StoreOrganization, Quiet
    <3>2. StoreOrganization => GoesOn
      BY DEF StoreOrganization, At, Return, Pass, GoesOn, Passes, Advances, Turns, Quits, commandVars
    <3>3. QED
      BY <1>9, <3>1, <3>2
  <2>8. RemoveStore => Plain
    BY <1>7 DEF RemoveStore, Only, Turns, Undone, Services
  <2>9. LoadCredential \/ Refresh \/ KeepRefreshed \/ MergeScopes \/ ExchangeCode \/ CreateStore
        \/ KeepCredential \/ KeepEntry \/ LoadPage("metafields") \/ SkipDenied \/ LoadPage("metaobjects")
          => StoresTell
    BY DEF LoadCredential, Refresh, KeepRefreshed, MergeScopes, ExchangeCode, CreateStore, KeepCredential,
         KeepEntry, LoadPage, SkipDenied, At, StoresTell
  <2>10. QED
    BY <2>1, <2>2, <2>3, <2>4, <2>5, <2>6, <2>7, <2>8, <2>9 DEF StoreSteps
<1>16. World => Plain \/ OthersTell
  <2>1. PlanChanges \/ AppLogs \/ SubscriptionExpires \/ JobRuns \/ OtherSavesIndex => Plain
    <3>1. PlanChanges \/ AppLogs \/ SubscriptionExpires \/ JobRuns \/ OtherSavesIndex => Still /\ Unlearnt
      BY <1>1 DEF PlanChanges, AppLogs, SubscriptionExpires, JobRuns, OtherSavesIndex
    <3>2. PlanChanges \/ AppLogs \/ SubscriptionExpires \/ JobRuns \/ OtherSavesIndex => Unserved
      BY DEF PlanChanges, AppLogs, SubscriptionExpires, JobRuns, OtherSavesIndex, Unserved, Keeps, Services
    <3>3. PlanChanges \/ AppLogs \/ SubscriptionExpires \/ JobRuns \/ OtherSavesIndex => GoesOn
      BY DEF PlanChanges, AppLogs, SubscriptionExpires, JobRuns, OtherSavesIndex, Stay, GoesOn, commandVars
    <3>4. QED
      BY <1>9, <3>1, <3>2, <3>3
  <2>2. InterruptLogs \/ OtherReplacesCache \/ OtherWritesDocument => Plain
    <3>1. InterruptLogs \/ OtherReplacesCache \/ OtherWritesDocument => Still /\ Unserved
      BY <1>1, <1>3, <1>4 DEF InterruptLogs, OtherReplacesCache, OtherWritesDocument, OnDisk, Quiet, Places
    <3>2. InterruptLogs \/ OtherReplacesCache \/ OtherWritesDocument => Unlearnt
      BY <1>1 DEF InterruptLogs, OtherReplacesCache, OtherWritesDocument, OnDisk, Unlearnt, Keeps, Lessons
    <3>3. InterruptLogs \/ OtherReplacesCache \/ OtherWritesDocument => GoesOn
      BY DEF InterruptLogs, OtherReplacesCache, OtherWritesDocument, Stay, GoesOn, commandVars
    <3>4. QED
      BY <1>9, <3>1, <3>2, <3>3
  <2>3. QED
    BY <2>1, <2>2 DEF World, AdminWorld, HydrogenWorld, ToolsWorld, StoreWorld, OthersTell
<1>17. StepFails(Handled) \/ Killed(Listening) => Plain
  <2>1. StepFails(Handled) \/ Killed(Listening) => Still /\ Unserved /\ Unlearnt
    BY <1>1 DEF StepFails, Killed, Quiet
  <2>2. StepFails(Handled) \/ Killed(Listening) => GoesOn
    BY DEF StepFails, Killed, Handled, Return, GoesOn
  <2>3. QED
    BY <1>9, <2>1, <2>2
<1>18. QED
  BY <1>10, <1>11, <1>12, <1>13, <1>14, <1>15, <1>16, <1>17, OnlyPlanned DEF Steps, Tells, Telling

-----------------------------------------------------------------------------
(* What a step makes of a plan.                                            *)

(* The first step of a plan, and what is left without it.                  *)
LEMMA FrontOfPlan ==
  ASSUME NEW s, Sequence(s), s # <<>>
  PROVE  /\ Head(s) = s[1] /\ 1 \in DOMAIN s /\ Len(s) \in Nat \ {0}
         /\ Sequence(Tail(s)) /\ Len(Tail(s)) = Len(s) - 1
         /\ \A i \in 1..(Len(s) - 1) : i + 1 \in DOMAIN s /\ Tail(s)[i] = s[i + 1]
         /\ Names(Tail(s)) \subseteq Names(s) /\ Head(s) \in Names(s)
         /\ \A x \in Names(s) : x = Head(s) \/ x \in Names(Tail(s))
<1>1. Len(s) \in Nat \ {0} /\ Head(s) = s[1] /\ 1 \in DOMAIN s
  BY DEF Sequence
<1>2. Sequence(Tail(s)) /\ Len(Tail(s)) = Len(s) - 1
  BY DEF Sequence
<1>3. \A i \in 1..(Len(s) - 1) : i + 1 \in DOMAIN s /\ Tail(s)[i] = s[i + 1]
  BY DEF Sequence
<1>4. Names(Tail(s)) \subseteq Names(s)
  BY <1>2, <1>3 DEF Sequence, Names
<1>5. ASSUME NEW i \in DOMAIN s, i # 1
      PROVE  s[i] \in Names(Tail(s))
  <2>1. i - 1 \in 1..(Len(s) - 1) /\ (i - 1) + 1 = i
    BY <1>5 DEF Sequence
  <2>2. Tail(s)[i - 1] = s[i] /\ i - 1 \in DOMAIN Tail(s)
    BY <1>2, <1>3, <2>1 DEF Sequence
  <2>3. QED
    BY <2>2 DEF Names
<1>6. \A x \in Names(s) : x = Head(s) \/ x \in Names(Tail(s))
  BY <1>1, <1>5 DEF Names
<1>7. QED
  BY <1>1, <1>2, <1>3, <1>4, <1>6 DEF Names

(* A straight command stays, passes or ends.                               *)
LEMMA StraightOn ==
  ASSUME PlanIsSound, Taken, Straight
  PROVE  Sequence(todo) /\ todo # <<>> /\ result = "none" /\ UNCHANGED <<command, given>>
         /\ todo' \in {todo, <<>>, Tail(todo)}
BY PlanGoesOn, AltersShifts DEF PlanIsSound, Taken, Planned, Same

(* What is left of a plan stays that.                                      *)
LEMMA LeftGoesOn ==
  ASSUME NEW s, NEW t, NEW plan, Sequence(plan), LeftOf(s, plan), s # <<>>, t \in {s, <<>>, Tail(s)}
  PROVE  LeftOf(t, plan) /\ \E i \in 1..Len(plan) : Head(s) = plan[i] /\ Len(s) = Len(plan) - i + 1
<1>1. Sequence(s) /\ Len(plan) \in Nat /\ Len(s) <= Len(plan)
  BY DEF Sequence, LeftOf
<1>2. /\ Head(s) = s[1] /\ 1 \in DOMAIN s /\ Len(s) \in Nat \ {0}
      /\ Sequence(Tail(s)) /\ Len(Tail(s)) = Len(s) - 1
      /\ \A i \in 1..(Len(s) - 1) : i + 1 \in DOMAIN s /\ Tail(s)[i] = s[i + 1]
  BY <1>1 DEF Sequence
<1>3. Head(s) = plan[Len(plan) - Len(s) + 1]
  BY <1>1, <1>2 DEF LeftOf
<1>4. \E i \in 1..Len(plan) : Head(s) = plan[i] /\ Len(s) = Len(plan) - i + 1
  <2> DEFINE i == Len(plan) - Len(s) + 1
  <2>1. i \in 1..Len(plan) /\ Len(s) = Len(plan) - i + 1
    BY <1>1, <1>2
  <2>2. QED
    BY <1>3, <2>1
<1>5. CASE t = Tail(s)
  <2>1. Len(t) = Len(s) - 1 /\ DOMAIN t = 1..(Len(s) - 1)
    BY <1>2, <1>5 DEF Sequence
  <2>2. ASSUME NEW i \in 1..(Len(s) - 1)
        PROVE  t[i] = plan[Len(plan) - (Len(s) - 1) + i]
    <3>1. t[i] = s[i + 1] /\ i + 1 \in DOMAIN s
      BY <1>2, <1>5, <2>2
    <3>2. s[i + 1] = plan[Len(plan) - Len(s) + (i + 1)]
      BY <3>1 DEF LeftOf
    <3>3. Len(plan) - Len(s) + (i + 1) = Len(plan) - (Len(s) - 1) + i
      BY <1>1, <2>2
    <3>4. QED
      BY <3>1, <3>2, <3>3
  <2>3. QED
    BY <1>1, <1>2, <1>3, <1>4, <1>5, <2>1, <2>2 DEF LeftOf, Sequence
<1>6. CASE t = <<>>
  BY <1>1, <1>3, <1>4, <1>6 DEF LeftOf, Sequence
<1>7. CASE t = s
  BY <1>3, <1>4, <1>7
<1>8. QED
  BY <1>5, <1>6, <1>7

(* What is left of the plan of a straight command.                         *)
LEMMA StraightPlan ==
  ASSUME PlanIsSound, Taken, Straight, NEW plan, Sequence(plan), LeftOf(todo, plan)
  PROVE  /\ LeftOf(todo', plan) /\ result = "none" /\ UNCHANGED <<command, given>>
         /\ todo # <<>> /\ todo' \in {todo, <<>>, Tail(todo)}
         /\ Len(todo) \in Nat \ {0} /\ Len(Tail(todo)) = Len(todo) - 1 /\ Len(<<>>) = 0
         /\ \E i \in 1..Len(plan) : Head(todo) = plan[i] /\ Len(todo) = Len(plan) - i + 1
BY StraightOn, LeftGoesOn, FrontOfPlan

(* Another process changes what is recorded of plugins, and their files.   *)
LEMMA OnlyPlugins ==
  OtherPlugins =>
    /\ UNCHANGED <<todo, result, held, files>>
    /\ DOMAIN server' = DOMAIN server
    /\ \A k \in DOMAIN server \ {"records", "artifacts", "raced", "others"} : server'[k] = server[k]
<1>1. ASSUME NEW records, NEW artifacts, NEW changed, Another(records, artifacts, changed)
      PROVE  /\ UNCHANGED <<todo, result, held, files>>
             /\ DOMAIN server' = DOMAIN server
             /\ \A k \in DOMAIN server \ {"records", "artifacts", "raced", "others"} : server'[k] = server[k]
  <2>1. UNCHANGED <<todo, result, held, files>>
    BY <1>1 DEF Another, Stay, OnServer, commandVars
  <2>2. QED
    BY <1>1, <2>1 DEF Another
<1>2. CASE OtherStores
  BY <1>1, <1>2 DEF OtherStores
<1>3. CASE OtherChangesTree
  BY <1>1, <1>3 DEF OtherChangesTree
<1>4. QED
  BY <1>2, <1>3 DEF OtherPlugins

(* What others do that tells.                                              *)
LEMMA OthersTellLittle ==
  OthersTell =>
    /\ UNCHANGED <<todo, result, held>>
    /\ files' = files \/ (command = "app-init" /\ SomebodyMakes) \/ (command \in {"config-pull", "config-link"} /\ Edit)
    /\ server' = server \/ OperationRuns \/ OtherPlugins \/ OtherRefreshes
BY OnlyPlugins DEF OthersTell, OperationRuns, OtherRefreshes, SomebodyMakes, Edit, Stay, OnServer, OnDisk,
   commandVars

(* What has been learnt is known.                                          *)
LEMMA Learning ==
  ASSUME NEW k, NEW v, Learn(k, v)
  PROVE  /\ DOMAIN held' = DOMAIN held \union {k} /\ held'[k] = v
         /\ \A x \in DOMAIN held \ {k} : held'[x] = held[x]
BY DEF Learn, Over, Only

(* A place keeps its content where it is not written to.                   *)
LEMMA KeptPlaces ==
  ASSUME NEW K, Keeps(files, files', K), NEW p \in K
  PROVE  Content(p)' = Content(p)
BY DEF Keeps, Content, Exists

(* Archived is kept by every step.                                         *)
LEMMA ArchivedGoesOn ==
  ASSUME PlanIsSound, Archived, Taken, Tells
  PROVE  Archived'
<1> DEFINE plan == <<"create-archive", "collect-files", "finish-archive">>
<1> SUFFICES ASSUME command = "theme-package" PROVE Archived'
  BY DEF Archived, Tells, Same
<1>1. /\ LeftOf(todo', plan) /\ result = "none" /\ UNCHANGED <<command, given>>
      /\ \E i \in 1..3 : Head(todo) = plan[i] /\ Len(todo) = 3 - i + 1
  <2>1. Sequence(plan) /\ LeftOf(todo, plan) /\ Straight /\ Len(plan) = 3
    BY DEF Archived, Sequence, Straight
  <2> HIDE DEF plan
  <2>2. QED
    BY <2>1, StraightPlan
<1>3. /\ Head(todo) \in {"create-archive", "collect-files", "finish-archive"}
      /\ Len(todo) = 1 => Head(todo) = "finish-archive"
  BY <1>1
<1>4. result' = "ok" => Content("archive")' = "complete"
  <2>1. CASE Plain
    BY <2>1, <1>1, <1>3 DEF Plain, GoesOn, Passes, Advances, Turns, Quits
  <2>2. CASE CreateArchive
    BY <2>2, <1>1, <1>3 DEF CreateArchive, Replace, At, Then, Pass, Return, commandVars
  <2>3. CASE FinishArchive
    BY <2>3 DEF FinishArchive, Replace, Set, Over, Only, Content, Exists
  <2>4. CASE OthersTell
    BY <2>4, <1>1, OthersTellLittle
  <2>5. QED
    BY <1>3, <2>1, <2>2, <2>3, <2>4 DEF Tells, Telling, ToolsTell, ConfigurationTells, AdminTells,
       ScaffoldTells, HydrogenTells, StoresTell, Undone
<1>5. QED
  BY <1>1, <1>4 DEF Archived

(* Imported is kept by every step.                                         *)
LEMMA ImportedGoesOn ==
  ASSUME PlanIsSound, Imported, Taken, Tells
  PROVE  Imported'
<1> DEFINE plan == <<"environment", "session", "management", "secret", "exchange", "metafields",
                     "metaobjects", "report">>
<1> SUFFICES ASSUME command = "import-custom-data" PROVE Imported'
  BY DEF Imported, Tells, Same
<1>1. /\ LeftOf(todo', plan) /\ result = "none" /\ UNCHANGED <<command, given>>
      /\ todo' \in {todo, <<>>, Tail(todo)}
      /\ Len(todo) \in Nat \ {0} /\ Len(Tail(todo)) = Len(todo) - 1 /\ Len(<<>>) = 0
      /\ \E i \in 1..8 : Head(todo) = plan[i] /\ Len(todo) = 8 - i + 1
  <2>1. Sequence(plan) /\ LeftOf(todo, plan) /\ Straight /\ Len(plan) = 8
    BY DEF Imported, Sequence, Straight
  <2> HIDE DEF plan
  <2>2. QED
    BY <2>1, StraightPlan
<1>2. \/ Len(todo) \in 4..8 /\ Head(todo) \in {"environment", "session", "management", "secret", "exchange"}
      \/ Len(todo) = 3 /\ Head(todo) = "metafields"
      \/ Len(todo) = 2 /\ Head(todo) = "metaobjects"
      \/ Len(todo) = 1 /\ Head(todo) = "report"
  BY <1>1
<1>3. /\ "pages" \in DOMAIN server
      /\ Len(todo) <= 2 => AllFields
      /\ Len(todo) <= 1 => AllObjects
  BY <1>1 DEF Imported, Well
<1>4. Imported' <=> /\ "pages" \in DOMAIN server'
                    /\ Well' /\ Len(todo') <= 2 => AllFields'
                    /\ Well' /\ Len(todo') <= 1 => AllObjects'
  BY <1>1 DEF Imported
<1>5. CASE Plain
  <2>1. "pages" \in DOMAIN server' /\ (AllFields => AllFields') /\ (AllObjects => AllObjects')
    BY <1>3, <1>5 DEF Plain, Keeps, Services, Lessons, AllFields, AllObjects, Knows
  <2>2. Well' => Len(todo') = Len(todo) \/ (Len(todo) \in {1} \union 4..8 /\ Len(todo') = Len(todo) - 1)
    BY <1>1, <1>2, <1>5 DEF Plain, GoesOn, Passes, Advances, Turns, Quits, Well
  <2>3. QED
    BY <1>1, <1>2, <1>3, <1>4, <2>1, <2>2
<1>6. CASE Head(todo) = "environment" /\ ReadEnvironment
  <2>1. server' = server /\ Len(todo') >= 7
    BY <1>1, <1>2, <1>6 DEF ReadEnvironment, Then, Return, Pass, commandVars
  <2>2. QED
    BY <1>1, <1>3, <1>4, <2>1
<1>7. CASE Head(todo) = "metafields" /\ LoadPage("metafields")
  <2>1. Len(todo) = 3 /\ UNCHANGED <<result, server>>
    BY <1>2, <1>7 DEF LoadPage, Quiet, Pass, Stay, commandVars
  <2>2. PICK page : Learn("metafields", page) /\ IF page = server.pages["metafields"] THEN Pass ELSE Stay
    BY <1>7 DEF LoadPage
  <2>3. CASE todo' = todo
    BY <1>3, <1>4, <2>1, <2>3
  <2>4. CASE todo' # todo
    <3>1. Len(todo') = 2 /\ page = server.pages["metafields"]
      <4>1. todo' = Tail(todo) /\ page = server.pages["metafields"]
        BY <2>2, <2>4 DEF Pass, Stay
      <4>2. QED
        BY <1>1, <2>1, <4>1
    <3>2. AllFields'
      BY <2>1, <2>2, <3>1, Learning DEF AllFields, Knows
    <3>3. QED
      BY <1>3, <1>4, <2>1, <3>1, <3>2
  <2>5. QED
    BY <2>3, <2>4
<1>8. CASE Head(todo) = "metafields" /\ SkipDenied
  <2>1. Len(todo) = 3 /\ server' = server /\ todo' = Tail(todo)
    BY <1>2, <1>8 DEF SkipDenied, Quiet, Pass
  <2>2. AllFields'
    <3>1. "denied" \in DOMAIN held'
      BY <1>8 DEF SkipDenied, Learn, Over, Only
    <3>2. QED
      BY <3>1 DEF AllFields, Knows
  <2>3. Len(todo') = 2
    BY <1>1, <2>1
  <2>4. QED
    BY <1>3, <1>4, <2>1, <2>2, <2>3
<1>9. CASE Head(todo) = "metaobjects" /\ LoadPage("metaobjects")
  <2>1. Len(todo) = 2 /\ UNCHANGED <<result, server>>
    BY <1>2, <1>9 DEF LoadPage, Quiet, Pass, Stay, commandVars
  <2>2. PICK page : Learn("metaobjects", page) /\ IF page = server.pages["metaobjects"] THEN Pass ELSE Stay
    BY <1>9 DEF LoadPage
  <2>3. AllFields'
    BY <1>3, <2>1, <2>2 DEF AllFields, Knows, Learn, Over, Only
  <2>4. CASE todo' = todo
    BY <1>3, <1>4, <2>1, <2>3, <2>4
  <2>5. CASE todo' # todo
    <3>1. Len(todo') = 1 /\ page = server.pages["metaobjects"]
      <4>1. todo' = Tail(todo) /\ page = server.pages["metaobjects"]
        BY <2>2, <2>5 DEF Pass, Stay
      <4>2. QED
        BY <1>1, <2>1, <4>1
    <3>2. AllObjects'
      BY <2>1, <2>2, <3>1, Learning DEF AllObjects, Knows
    <3>3. QED
      BY <1>3, <1>4, <2>1, <2>3, <3>1, <3>2
  <2>6. QED
    BY <2>4, <2>5
<1>10. CASE OthersTell
  <2>1. UNCHANGED <<todo, result, held>> /\ "pages" \in DOMAIN server' /\ server'.pages = server.pages
    BY <1>3, <1>10, OthersTellLittle, OnlyPlugins DEF OperationRuns, OtherRefreshes
  <2>2. (AllFields => AllFields') /\ (AllObjects => AllObjects') /\ Well'
    BY <1>1, <2>1 DEF AllFields, AllObjects, Knows, Well
  <2>3. QED
    BY <1>1, <1>3, <1>4, <2>1, <2>2
<1>11. QED
  BY <1>2, <1>5, <1>6, <1>7, <1>8, <1>9, <1>10 DEF Tells, Telling, ToolsTell, ConfigurationTells,
     AdminTells, ScaffoldTells, HydrogenTells, StoresTell, Undone, ReportValidity, ReportResult

(* What a look at a part of the project finds is known from then on.       *)
LEMMA Finding ==
  ASSUME NEW s, NEW flaw, Diagnoses(s, flaw), NEW f
  PROVE  UNCHANGED <<command, server>> /\ Found(flaw)' /\ (Found(f) => Found(f)')
BY DEF Diagnoses, Found, Learn, Knows, Over, Only, Then, Return, Pass, Quiet, commandVars

(* Validated is kept by every step.                                        *)
LEMMA ValidatedGoesOn ==
  ASSUME PlanIsSound, Validated, Taken, Tells
  PROVE  Validated'
<1> DEFINE long == <<"state", "clear", "choose", "app-table", "extensions", "webs", "duplicates", "report">>
           short == <<"state", "choose", "app-table", "extensions", "webs", "duplicates", "report">>
           Fine == "flaws" \in DOMAIN server /\ server.flaws \subseteq {"app", "extension", "web", "duplicate"}
<1> SUFFICES ASSUME command = "config-validate" PROVE Validated'
  BY DEF Validated, Tells, Same
<1>1. /\ (LeftOf(todo', long) \/ LeftOf(todo', short))
      /\ result = "none" /\ UNCHANGED <<command, given>>
      /\ todo' \in {todo, <<>>, Tail(todo)}
      /\ Len(todo) \in Nat \ {0} /\ Len(Tail(todo)) = Len(todo) - 1 /\ Len(<<>>) = 0
      /\ \/ \E i \in 1..8 : Head(todo) = long[i] /\ Len(todo) = 8 - i + 1
         \/ \E i \in 1..7 : Head(todo) = short[i] /\ Len(todo) = 7 - i + 1
  <2>1. Sequence(long) /\ Sequence(short) /\ Straight /\ Len(long) = 8 /\ Len(short) = 7
    BY DEF Sequence, Straight
  <2>2. LeftOf(todo, long) \/ LeftOf(todo, short)
    BY DEF Validated
  <2> HIDE DEF long, short
  <2>3. QED
    BY <2>1, <2>2, StraightPlan
<1>2. \/ Len(todo) >= 7 /\ Head(todo) \in {"state", "clear"}
      \/ Len(todo) = 6 /\ Head(todo) = "choose"
      \/ Len(todo) = 5 /\ Head(todo) = "app-table"
      \/ Len(todo) = 4 /\ Head(todo) = "extensions"
      \/ Len(todo) = 3 /\ Head(todo) = "webs"
      \/ Len(todo) = 2 /\ Head(todo) = "duplicates"
      \/ Len(todo) = 1 /\ Head(todo) = "report"
  BY <1>1
<1>3. Fine /\ LookedAt
  BY <1>1 DEF Validated
<1>4. Fine' /\ (result' = "none" => LookedAt') /\ (result' = "ok" => server'.flaws = {}) => Validated'
  BY <1>1 DEF Validated
<1>5. CASE Plain
  <2>1. Fine' /\ \A f : Found(f) => Found(f)'
    BY <1>3, <1>5 DEF Plain, Keeps, Services, Lessons, Found, Knows
  <2>2. result' # "ok"
        /\ (result' = "none" => Len(todo') = Len(todo) \/ (Len(todo) >= 7 /\ Len(todo') = Len(todo) - 1))
    <3>1. Head(todo) \notin Quits /\ (Passes => Len(todo) >= 7)
      BY <1>2 DEF Passes, Turns, Quits
    <3>2. GoesOn
      BY <1>5 DEF Plain
    <3>3. Passes => todo' = Tail(todo) /\ result' = result
      BY <1>1, <3>1 DEF Passes, Advances
    <3>4. \/ result' \in {"killed", "error"}
          \/ todo' = todo /\ result' = result
          \/ todo' = Tail(todo) /\ result' = result /\ Len(todo) >= 7
      BY <3>1, <3>2, <3>3 DEF GoesOn
    <3>5. result = "none" /\ Len(Tail(todo)) = Len(todo) - 1
      BY <1>1
    <3>6. QED
      BY <3>4, <3>5
  <2>3. result' = "none" => LookedAt'
    <3>1. CASE Len(todo') = Len(todo)
      BY <1>3, <2>1, <3>1 DEF LookedAt
    <3>2. CASE Len(todo) >= 7 /\ Len(todo') = Len(todo) - 1
      <4>1. Len(todo') >= 6
        BY <1>1, <3>2
      <4>2. QED
        BY <4>1 DEF LookedAt
    <3>3. QED
      BY <2>2, <3>1, <3>2
  <2>4. QED
    BY <1>4, <2>1, <2>2, <2>3
<1>6. CASE \/ Head(todo) = "app-table" /\ ParseApp
           \/ Head(todo) = "extensions" /\ DiscoverExtensions
           \/ Head(todo) = "webs" /\ DiscoverWebs
           \/ Head(todo) = "duplicates" /\ FindDuplicates
  <2>1. \E s, flaw :
          /\ Diagnoses(s, flaw)
          /\ \/ Len(todo) = 5 /\ flaw = "app"
             \/ Len(todo) = 4 /\ flaw = "extension"
             \/ Len(todo) = 3 /\ flaw = "web"
             \/ Len(todo) = 2 /\ flaw = "duplicate"
    BY <1>2, <1>6 DEF ParseApp, DiscoverExtensions, DiscoverWebs, FindDuplicates
  <2>2. PICK s, flaw :
          /\ Diagnoses(s, flaw)
          /\ \/ Len(todo) = 5 /\ flaw = "app"
             \/ Len(todo) = 4 /\ flaw = "extension"
             \/ Len(todo) = 3 /\ flaw = "web"
             \/ Len(todo) = 2 /\ flaw = "duplicate"
    BY <2>1
  <2>3. server' = server /\ Found(flaw)' /\ \A f : Found(f) => Found(f)'
    BY <2>2, Finding
  <2>4. result' = "none" /\ Len(todo') = Len(todo) - 1
    <3>1. Len(todo) # 1 /\ Then
      BY <2>2 DEF Diagnoses
    <3>2. todo' = Tail(todo) /\ result' = result
      BY <3>1 DEF Then, Pass, commandVars
    <3>3. QED
      BY <1>1, <3>2
  <2>5. LookedAt'
    <3>1. Len(todo) \in 2..5 /\ Len(todo') = Len(todo) - 1
      BY <2>2, <2>4
    <3>2. CASE Len(todo) = 5
      BY <1>3, <2>2, <2>3, <3>1, <3>2 DEF LookedAt
    <3>3. CASE Len(todo) = 4
      BY <1>3, <2>2, <2>3, <3>1, <3>3 DEF LookedAt
    <3>4. CASE Len(todo) = 3
      BY <1>3, <2>2, <2>3, <3>1, <3>4 DEF LookedAt
    <3>5. CASE Len(todo) = 2
      BY <1>3, <2>2, <2>3, <3>1, <3>5 DEF LookedAt
    <3>6. QED
      BY <3>1, <3>2, <3>3, <3>4, <3>5
  <2>6. QED
    BY <1>3, <1>4, <2>3, <2>4, <2>5
<1>7. CASE Head(todo) = "choose" /\ (ChooseNamed \/ AskForConfig \/ ChooseValidated \/ ChoosePulled)
  <2>1. Len(todo') = 5 /\ UNCHANGED <<result, server>>
    BY <1>1, <1>2, <1>7 DEF ChooseNamed, AskForConfig, ChooseValidated, ChoosePulled, Chooses, Pass,
       Quiet, commandVars
  <2>2. QED
    BY <1>1, <1>3, <1>4, <2>1 DEF LookedAt
<1>8. CASE Head(todo) = "report" /\ ReportValidity
  <2>1. Len(todo) = 1 /\ server' = server /\ result' \in {"ok", "error"} /\ (result' = "ok" => held["wrong"] = {})
    BY <1>2, <1>8 DEF ReportValidity, Return, Quiet
  <2>2. QED
    BY <1>3, <1>4, <2>1 DEF LookedAt, Found
<1>9. CASE OthersTell
  <2>1. UNCHANGED <<todo, result, held>> /\ Fine' /\ server'.flaws = server.flaws
    BY <1>3, <1>9, OthersTellLittle, OnlyPlugins DEF OperationRuns, OtherRefreshes
  <2>2. LookedAt'
    BY <1>3, <2>1 DEF LookedAt, Found, Knows
  <2>3. QED
    BY <1>1, <1>4, <2>1, <2>2
<1>10. QED
  BY <1>2, <1>5, <1>6, <1>7, <1>8, <1>9 DEF Tells, Telling, ToolsTell, ConfigurationTells,
     AdminTells, ScaffoldTells, HydrogenTells, StoresTell, Undone, ReportResult

(* What is left of the plan of app init.                                   *)
LEMMA InitPlanGoesOn ==
  ASSUME NEW s, InitPlan(s), s # <<>>
  PROVE  /\ InitPlan(Tail(s)) /\ InitPlan(<<>>) /\ Names(<<>>) = {}
         /\ Head(s) \in InitSteps \union Late \union {"clone-app"}
         /\ \A x \in Names(s) : x = Head(s) \/ x \in Names(Tail(s))
         /\ Names(Tail(s)) \subseteq Names(s)
         /\ Head(s) \in Late => "clone-app" \notin Names(s)
         /\ Head(s) = "clone-app" => "unstage" \in Names(Tail(s)) /\ "clone-app" \notin Names(Tail(s))
         /\ Head(s) \in InitSteps => "clone-app" \in Names(Tail(s))
         /\ Len(s) = 1 => Head(s) = "link"
<1> DEFINE n == Len(s)  t == Tail(s)
<1>1. n \in Nat \ {0} /\ DOMAIN s = 1..n /\ Head(s) = s[1]
  BY DEF InitPlan, Sequence
<1>2. Sequence(t) /\ Len(t) = n - 1 /\ DOMAIN t = 1..(n - 1) /\ \A i \in 1..(n - 1) : t[i] = s[i + 1]
  BY DEF InitPlan, Sequence
<1>3. /\ Len(s) > 0 => s[Len(s)] = "link"
      /\ \/ Names(s) \subseteq Late
         \/ \E c \in DOMAIN s :
              /\ s[c] = "clone-app"
              /\ \A i \in DOMAIN s : (i < c => s[i] \in InitSteps) /\ (i > c => s[i] \in Late)
              /\ \E i \in DOMAIN s : i > c /\ s[i] = "unstage"
  BY DEF InitPlan
<1> HIDE DEF n, t
<1>4. InitPlan(<<>>) /\ Names(<<>>) = {}
  BY DEF InitPlan, Sequence, Names
<1>5. \A x \in Names(s) : x = Head(s) \/ x \in Names(t)
  <2> SUFFICES ASSUME NEW i \in DOMAIN s, i # 1 PROVE s[i] \in Names(t)
    BY <1>1 DEF Names
  <2>1. i - 1 \in 1..(n - 1) /\ t[i - 1] = s[i]
    BY <1>1, <1>2
  <2>2. QED
    BY <1>2, <2>1 DEF Names
<1>6. Names(t) \subseteq Names(s)
  <2> SUFFICES ASSUME NEW i \in DOMAIN t PROVE t[i] \in Names(s)
    BY DEF Names
  <2>1. i + 1 \in DOMAIN s /\ t[i] = s[i + 1]
    BY <1>1, <1>2
  <2>2. QED
    BY <2>1 DEF Names
<1>7. Len(t) > 0 => t[Len(t)] = "link"
  BY <1>1, <1>2, <1>3 DEF n
<1>8. n = 1 => Head(s) = "link"
  BY <1>1, <1>3 DEF n
<1>9. "clone-app" \notin Late /\ "clone-app" \notin InitSteps /\ InitSteps \intersect Late = {} /\ "link" \in Late
  BY DEF Late, InitSteps, Undone
<1>10. CASE Names(s) \subseteq Late
  <2>1. InitPlan(t)
    BY <1>2, <1>6, <1>7, <1>10 DEF InitPlan
  <2>2. Head(s) \in Names(s)
    BY <1>1 DEF Names
  <2>3. QED
    BY <1>4, <1>5, <1>6, <1>8, <1>9, <1>10, <2>1, <2>2 DEF n, t
<1>11. ASSUME NEW c \in DOMAIN s, s[c] = "clone-app",
              \A i \in DOMAIN s : (i < c => s[i] \in InitSteps) /\ (i > c => s[i] \in Late),
              NEW u \in DOMAIN s, u > c, s[u] = "unstage"
       PROVE  /\ InitPlan(t)
              /\ Head(s) \in InitSteps \union {"clone-app"}
              /\ Head(s) = "clone-app" => "unstage" \in Names(t) /\ "clone-app" \notin Names(t)
              /\ Head(s) \in InitSteps => "clone-app" \in Names(t)
  <2>1. CASE c = 1
    <3>1. \A i \in DOMAIN t : t[i] \in Late
      BY <1>1, <1>2, <1>11, <2>1
    <3>2. u - 1 \in DOMAIN t /\ t[u - 1] = "unstage"
      BY <1>1, <1>2, <1>11, <2>1
    <3>3. Names(t) \subseteq Late /\ "unstage" \in Names(t)
      BY <3>1, <3>2 DEF Names
    <3>4. InitPlan(t)
      BY <1>2, <1>7, <3>3 DEF InitPlan
    <3>5. QED
      BY <1>1, <1>9, <1>11, <2>1, <3>3, <3>4
  <2>2. CASE c # 1
    <3>1. c - 1 \in DOMAIN t /\ t[c - 1] = "clone-app" /\ Head(s) \in InitSteps
      <4>1. c \in 1..n /\ c > 1
        BY <1>1, <2>2
      <4>2. c - 1 \in 1..(n - 1) /\ (c - 1) + 1 = c
        BY <1>1, <4>1
      <4>3. 1 \in DOMAIN s /\ s[1] \in InitSteps
        BY <1>1, <1>11, <4>1
      <4>4. t[c - 1] = s[c]
        BY <1>2, <4>2
      <4>5. QED
        BY <1>1, <1>2, <1>11, <4>2, <4>3, <4>4
    <3>2. ASSUME NEW i \in DOMAIN t
          PROVE  (i < c - 1 => t[i] \in InitSteps) /\ (i > c - 1 => t[i] \in Late)
      <4>1. i + 1 \in DOMAIN s /\ t[i] = s[i + 1]
        BY <1>1, <1>2
      <4>2. (i < c - 1 => i + 1 < c) /\ (i > c - 1 => i + 1 > c)
        BY <1>1, <1>2
      <4>3. QED
        BY <1>11, <4>1, <4>2
    <3>3. u - 1 \in DOMAIN t /\ u - 1 > c - 1 /\ t[u - 1] = "unstage"
      BY <1>1, <1>2, <1>11
    <3>4. InitPlan(t)
      BY <1>2, <1>7, <3>1, <3>2, <3>3 DEF InitPlan
    <3>5. QED
      BY <1>9, <3>1, <3>4 DEF Names
  <2>3. QED
    BY <2>1, <2>2
<1>12. CASE ~(Names(s) \subseteq Late)
  <2>1. /\ InitPlan(t)
        /\ Head(s) \in InitSteps \union {"clone-app"}
        /\ Head(s) = "clone-app" => "unstage" \in Names(t) /\ "clone-app" \notin Names(t)
        /\ Head(s) \in InitSteps => "clone-app" \in Names(t)
    BY <1>3, <1>11, <1>12
  <2>2. QED
    BY <1>4, <1>5, <1>6, <1>8, <1>9, <2>1 DEF n, t
<1>13. QED
  BY <1>10, <1>12

(* Initialised is kept by every step.                                      *)
LEMMA InitialisedGoesOn ==
  ASSUME PlanIsSound, Initialised, Taken, Tells
  PROVE  Initialised'
<1> SUFFICES ASSUME command = "app-init" PROVE Initialised'
  BY DEF Initialised, Tells, Same
<1>1. /\ Sequence(todo) /\ todo # <<>> /\ result = "none" /\ UNCHANGED <<command, given>>
      /\ todo' \in {todo, <<>>, Tail(todo)}
  BY StraightOn DEF Straight
<1>2. /\ InitPlan(todo) /\ InitPlan(Tail(todo)) /\ InitPlan(<<>>) /\ Names(<<>>) = {}
      /\ Head(todo) \in InitSteps \union Late \union {"clone-app"}
      /\ \A x \in Names(todo) : x = Head(todo) \/ x \in Names(Tail(todo))
      /\ Names(Tail(todo)) \subseteq Names(todo)
      /\ Head(todo) \in Late => "clone-app" \notin Names(todo)
      /\ Head(todo) = "clone-app" => "unstage" \in Names(Tail(todo)) /\ "clone-app" \notin Names(Tail(todo))
      /\ Head(todo) \in InitSteps => "clone-app" \in Names(Tail(todo))
      /\ Len(todo) = 1 => Head(todo) = "link"
  BY <1>1, InitPlanGoesOn DEF Initialised
<1>3. /\ "clone-app" \in Names(todo) => Clean
      /\ "unstage" \in Names(todo) \/ Content("staging") = "none"
  BY <1>1 DEF Initialised
<1>4. /\ InitPlan(todo')
      /\ (/\ "clone-app" \in Names(todo') \/ result' = "error" => Clean'
          /\ result' = "none" => "unstage" \in Names(todo') \/ Content("staging")' = "none"
          /\ result' = "ok" => Content("staging")' = "none" /\ Content("directory")' = "linked") => Initialised'
  BY <1>1, <1>2 DEF Initialised
<1>5. "link" \in Late /\ "unstage" \in Late /\ Late \intersect InitSteps = {}
  BY DEF Late, InitSteps, Undone
<1>6. CASE Plain
  <2>1. Content("staging")' = Content("staging") /\ (Clean => Clean')
    BY <1>6, KeptPlaces DEF Plain, Places, Clean
  <2>2. \/ result' = "killed" /\ todo' = <<>>
        \/ result' = "error" /\ todo' = <<>> /\ Head(todo) \in InitSteps
        \/ result' = "none" /\ todo' = todo
        \/ result' = "none" /\ todo' = Tail(todo) /\ Head(todo) # "unstage"
    BY <1>1, <1>2, <1>6 DEF Plain, GoesOn, Passes, Advances, Turns, Quits, InitSteps, Late, Undone
  <2>3. QED
    BY <1>2, <1>3, <1>4, <2>1, <2>2
<1>7. CASE Head(todo) = "clone-app" /\ CloneApp
  <2>1. Len(todo) # 1 /\ Then
    BY <1>2, <1>7 DEF CloneApp, Replace
  <2>2. result' = "none" /\ todo' = Tail(todo)
    BY <1>1, <2>1 DEF Then, Pass, commandVars
  <2>3. QED
    BY <1>2, <1>4, <1>7, <2>2
<1>8. CASE Head(todo) \in {"make", "git-init"} /\ (MakeDirectory \/ InitGit)
  <2>1. result' = "none" /\ todo' = Tail(todo) /\ Content("staging")' = Content("staging")
    BY <1>1, <1>2, <1>8 DEF MakeDirectory, InitGit, Replace, Then, Pass, commandVars, Set, Over, Only, Content,
       Exists
  <2>2. "clone-app" \notin Names(todo') /\ Head(todo) # "unstage"
    BY <1>2, <1>8, <2>1 DEF Late, Undone
  <2>3. QED
    BY <1>2, <1>3, <1>4, <2>1, <2>2
<1>9. CASE Head(todo) = "unstage" /\ Unstage
  <2>1. result' = "none" /\ todo' = Tail(todo) /\ Content("staging")' = "none"
    BY <1>1, <1>2, <1>9 DEF Unstage, Then, Pass, commandVars, Gone, Content, Exists
  <2>2. "clone-app" \notin Names(todo')
    BY <1>2, <1>5, <1>9, <2>1
  <2>3. QED
    BY <1>4, <2>1, <2>2
<1>10. CASE Removed /\ Return("error")
  <2>1. Clean' /\ result' = "error" /\ todo' = <<>>
    BY <1>10 DEF Removed, Return, Clean, Content, Exists
  <2>2. QED
    BY <1>4, <2>1
<1>11. CASE Head(todo) = "create" /\ CreateInitApp
  <2>1. CASE Pass /\ UNCHANGED files
    <3>1. result' = "none" /\ todo' = Tail(todo) /\ Content("staging")' = Content("staging")
      BY <1>1, <2>1 DEF Pass, commandVars, Content, Exists
    <3>2. "clone-app" \notin Names(todo') /\ Head(todo) # "unstage"
      BY <1>2, <1>11, <3>1 DEF Late, Undone
    <3>3. QED
      BY <1>2, <1>3, <1>4, <3>1, <3>2
  <2>2. QED
    BY <1>10, <1>11, <2>1 DEF CreateInitApp
<1>12. CASE Head(todo) = "link" /\ LinkDirectory
  <2>1. /\ Content("staging")' = Content("staging") /\ Content("directory")' = "linked"
        /\ \/ result' = "none" /\ todo' = Tail(todo)
           \/ result' = "ok" /\ todo' = <<>> /\ Len(todo) = 1
    BY <1>1, <1>12 DEF LinkDirectory, Replace, Then, Pass, Return, commandVars, Set, Over, Only, Content,
       Exists
  <2>2. "clone-app" \notin Names(todo') /\ Head(todo) # "unstage"
    BY <1>2, <1>5, <1>12, <2>1
  <2>3. Len(todo) = 1 => "unstage" \notin Names(todo)
    BY <1>1, <1>12, <2>2 DEF Names, Sequence
  <2>4. QED
    BY <1>2, <1>3, <1>4, <2>1, <2>2, <2>3
<1>13. CASE OthersTell
  <2>1. UNCHANGED <<todo, result>> /\ (files' = files \/ SomebodyMakes)
    BY <1>13, OthersTellLittle
  <2>2. Content("staging")' = Content("staging") /\ (Clean => Clean')
    BY <2>1 DEF SomebodyMakes, Set, Over, Only, Clean, Content, Exists
  <2>3. QED
    BY <1>1, <1>3, <1>4, <2>1, <2>2
<1>14. QED
  <2>1. Tells => \/ Plain
                 \/ Head(todo) = "clone-app" /\ CloneApp
                 \/ Head(todo) \in {"make", "git-init"} /\ (MakeDirectory \/ InitGit)
                 \/ Head(todo) = "unstage" /\ Unstage
                 \/ RollBack
                 \/ Head(todo) = "create" /\ CreateInitApp
                 \/ Head(todo) = "link" /\ LinkDirectory
                 \/ OthersTell
    BY <1>2 DEF Tells, Telling, ToolsTell, ConfigurationTells, AdminTells, ScaffoldTells, HydrogenTells,
       StoresTell, Undone, InitSteps, Late
  <2>2. QED
    BY <1>6, <1>7, <1>8, <1>9, <1>10, <1>11, <1>12, <1>13, <2>1 DEF RollBack

(* Pathways is kept by every step.                                         *)
LEMMA PathwaysGoesOn ==
  ASSUME PlanIsSound, Pathways, Taken, Tells
  PROVE  Pathways'
<1>1. Sequence(todo) /\ todo # <<>> /\ UNCHANGED command
  BY DEF PlanIsSound, Taken, Planned, Same
<1>2. /\ Head(todo) = todo[1] /\ 1 \in DOMAIN todo /\ Len(todo) \in Nat \ {0}
      /\ Sequence(Tail(todo)) /\ Names(Tail(todo)) \subseteq Names(todo) /\ Head(todo) \in Names(todo)
  BY <1>1, FrontOfPlan
<1>3. /\ Names(<<>>) = {}
      /\ \A early, late : Precedes(early, <<>>, late)
  BY DEF Names, Precedes
<1>4. \A early, late : Precedes(early, todo, late) /\ Head(todo) \notin early => Precedes(early, Tail(todo), late)
  BY <1>1, TailPrecedes
<1>5. CASE command \in {"config-pull", "config-link"}
  <2> DEFINE InPlace(k) == "config" \in DOMAIN k /\ k["config"] \in Configs \union {Flagged}
  <2>1. todo' \in {todo, <<>>, Tail(todo)}
    BY <1>5, StraightOn DEF Straight
  <2>2. Names(todo') \subseteq LinkSteps
    BY <1>2, <1>3, <1>5, <2>1 DEF Pathways
  <2>3. InPlace(held') => Pathways'
    BY <1>1, <1>5, <2>2 DEF Pathways, Knows
  <2>4. CASE UNCHANGED <<todo, result, held>> \/ Plain
    <3>1. Knows("config")' <=> Knows("config")
      BY <2>4 DEF Plain, Keeps, Lessons, Knows
    <3>2. Knows("config") => held'["config"] = held["config"]
      BY <2>4 DEF Plain, Keeps, Lessons, Knows
    <3>3. CASE Knows("config")
      BY <1>5, <2>3, <3>1, <3>2, <3>3 DEF Pathways, Knows
    <3>4. CASE ~Knows("config")
      <4>1. Precedes({"choose", "mapping"}, todo, {"write-config"})
        BY <1>5, <3>4 DEF Pathways
      <4>2. todo' \in {todo, <<>>} \/ (todo' = Tail(todo) /\ Head(todo) \notin {"choose", "mapping"})
        BY <2>4 DEF Plain, GoesOn, Passes, Advances, Turns
      <4>3. Precedes({"choose", "mapping"}, todo', {"write-config"})
        BY <1>3, <1>4, <4>1, <4>2
      <4>4. QED
        BY <1>1, <1>5, <2>2, <3>1, <3>4, <4>3 DEF Pathways, Knows
    <3>5. QED
      BY <3>3, <3>4
  <2>5. CASE ChooseNamed \/ AskForConfig \/ ChooseValidated \/ ChoosePulled
    <3>1. PICK choice \in Present : Learn("config", choice)
      BY <2>5 DEF ChooseNamed, AskForConfig, ChooseValidated, ChoosePulled, Chooses
    <3>2. choice \in Configs
      BY DEF Present
    <3>3. QED
      BY <2>3, <3>1, <3>2, Learning
  <2>6. CASE MapLocal
    <3>1. PICK local \in Present \union {None} :
            held' = Over([config |-> IF local = None THEN Flagged ELSE local,
                          force |-> "force" \in given \/ local # None], held)
      BY <2>6 DEF MapLocal
    <3>2. InPlace(held')
      BY <3>1 DEF Over, Present
    <3>3. QED
      BY <2>3, <3>2
  <2>7. CASE Head(todo) = "write-config" /\ WriteConfig
    <3>1. held' = held /\ 1 \in DOMAIN todo /\ todo[1] = "write-config"
      BY <1>2, <2>7 DEF WriteConfig, Replace, OnDisk
    <3>2. InPlace(held)
      BY <1>5, <3>1 DEF Pathways, Precedes, Knows
    <3>3. QED
      BY <2>3, <3>1, <3>2
  <2>8. QED
    <3>1. Head(todo) \in LinkSteps
      BY <1>2, <1>5 DEF Pathways
    <3>2. ~RollBack
      BY <3>1 DEF RollBack, LinkSteps, Undone
    <3>3. QED
      BY <2>4, <2>5, <2>6, <2>7, <3>1, <3>2, OthersTellLittle DEF LinkSteps, Tells, Telling, ToolsTell,
         ConfigurationTells, AdminTells, ScaffoldTells, HydrogenTells, StoresTell
<1>6. CASE command = "hydrogen-generate"
  <2> DEFINE OnRoutes(k) == "routes" \in DOMAIN k /\ Sequence(k.routes) /\ Names(k.routes) \subseteq RouteFiles
  <2>1. Head(todo) \in RouteSteps /\ Names(todo) \subseteq RouteSteps
    BY <1>2, <1>6 DEF Pathways
  <2>2. CASE Head(todo) = "source" /\ ResolveSource /\ todo' = Fetching \o Tail(todo)
    <3>1. held' = held /\ Head(todo) \notin {"route-names"}
      BY <2>2 DEF ResolveSource, Quiet
    <3>2. Sequence(Fetching) /\ \A i \in DOMAIN Fetching : Fetching[i] \in RouteSteps \ {"routes"}
      BY DEF Fetching, Sequence, RouteSteps
    <3>3. Names(Fetching) \subseteq RouteSteps
      BY <3>2 DEF Names
    <3>4. ASSUME Precedes({"route-names"}, Tail(todo), {"routes"})
          PROVE  Precedes({"route-names"}, todo', {"routes"})
      BY <1>2, <2>2, <3>2, <3>4, StillPrecedes
    <3>5. Names(todo') \subseteq Names(Fetching) \union Names(Tail(todo))
      <4>1. Precedes({}, Tail(todo), {})
        BY DEF Precedes
      <4>2. QED
        BY <1>2, <2>2, <3>2, <4>1, StillPrecedes
    <3>6. Names(todo') \subseteq RouteSteps
      BY <1>2, <2>1, <3>3, <3>5
    <3>7. QED
      BY <1>1, <1>4, <1>6, <3>1, <3>4, <3>6 DEF Pathways, Knows
  <2>3. CASE todo' \in {todo, <<>>, Tail(todo)}
    <3>1. Names(todo') \subseteq RouteSteps
      BY <1>2, <1>3, <2>1, <2>3
    <3>2. OnRoutes(held') => Pathways'
      BY <1>1, <1>6, <3>1 DEF Pathways, Knows
    <3>3. CASE UNCHANGED <<todo, result, held>> \/ Plain \/ ResolveSource
      <4>1. (Knows("routes")' <=> Knows("routes")) /\ (Knows("routes") => held'.routes = held.routes)
        BY <3>3 DEF Plain, Keeps, Lessons, Knows, ResolveSource, Quiet
      <4>2. CASE Knows("routes")
        BY <1>6, <3>2, <4>1, <4>2 DEF Pathways, Knows
      <4>3. CASE ~Knows("routes")
        <5>1. Precedes({"route-names"}, todo, {"routes"})
          BY <1>6, <4>3 DEF Pathways
        <5>2. todo' \in {todo, <<>>} \/ (todo' = Tail(todo) /\ Head(todo) \notin {"route-names"})
          BY <2>3, <3>3 DEF Plain, GoesOn, Passes, Advances, Turns, ResolveSource, At
        <5>3. Precedes({"route-names"}, todo', {"routes"})
          BY <1>3, <1>4, <5>1, <5>2
        <5>4. QED
          BY <1>1, <1>6, <3>1, <4>1, <4>3, <5>3 DEF Pathways, Knows
      <4>4. QED
        BY <4>2, <4>3
    <3>4. CASE RouteNames
      <4>1. PICK r \in {<<"route1">>, <<"route1", "route2">>} :
              held' = Over([routes |-> r, imported |-> FALSE], held)
        BY <3>4 DEF RouteNames
      <4>2. Sequence(r) /\ Names(r) \subseteq RouteFiles
        BY DEF Sequence, Names, RouteFiles
      <4>3. "routes" \in DOMAIN held' /\ held'.routes = r
        BY <4>1 DEF Over
      <4>4. QED
        BY <3>2, <4>2, <4>3
    <3>5. CASE Head(todo) = "routes" /\ (ConfirmReplace \/ WriteImports \/ WriteRoute)
      <4>1. OnRoutes(held) /\ held.routes # <<>>
        BY <1>2, <1>6, <3>5 DEF Pathways, Precedes, Knows, ConfirmReplace, WriteImports, WriteRoute, Generating
      <4>2. "routes" \in DOMAIN held' /\ held'.routes \in {held.routes, Tail(held.routes)}
        BY <3>5, <4>1 DEF ConfirmReplace, WriteImports, WriteRoute, NextRoute
      <4>3. Sequence(Tail(held.routes)) /\ Names(Tail(held.routes)) \subseteq Names(held.routes)
        BY <4>1, FrontOfPlan
      <4>4. QED
        BY <3>2, <4>1, <4>2, <4>3
    <3>6. QED
      <4>1. ~RollBack
        BY <2>1 DEF RollBack, RouteSteps, Undone
      <4>2. QED
        BY <2>1, <3>3, <3>4, <3>5, <4>1, OthersTellLittle DEF RouteSteps, Tells, Telling, ToolsTell,
           ConfigurationTells, AdminTells, ScaffoldTells, HydrogenTells, StoresTell
  <2>4. QED
    <3>1. todo' \in {todo, <<>>, Tail(todo)} \/ Alters
      BY PlanGoesOn
    <3>2. Alters => ResolveSource
      BY <2>1 DEF RouteSteps, Alters, LoadCredential, PluginNames, InstalledPlugins, NpmFails, DropPlugin,
         DetectInstall, NotifyAndRefresh, At
    <3>3. ResolveSource => Head(todo) = "source" /\ todo' \in {Tail(todo), Fetching \o Tail(todo)}
      BY DEF ResolveSource, At, Pass
    <3>4. QED
      BY <2>2, <2>3, <3>1, <3>2, <3>3
<1>7. CASE command \notin {"config-pull", "config-link", "hydrogen-generate"}
  BY <1>1, <1>7 DEF Pathways
<1>8. QED
  BY <1>5, <1>6, <1>7

(* Nothing but the upgrade touches the executable.                         *)
LEMMA ExecutableStays ==
  ASSUME PlanIsSound, Pathways, Taken, Tells, ~ReplaceExecutable
  PROVE  Content("executable")' = Content("executable")
<1>1. /\ 1 \in DOMAIN todo /\ Head(todo) = todo[1]
      /\ Head(todo) = "write-config" => command \in {"config-pull", "config-link"}
      /\ Head(todo) = "routes" => command = "hydrogen-generate"
  BY FrontOfPlan DEF PlanIsSound, Taken, Planned
<1>2. "executable" \notin Configs \union {Flagged} /\ "executable" \notin RouteFiles
  BY FilesAssumption DEF RouteFiles
<1>3. CASE files' = files
  BY <1>3 DEF Content, Exists
<1>4. CASE Plain
  BY <1>4, KeptPlaces DEF Plain, Places
<1>5. ASSUME NEW p, NEW c, Set(p, c), p # "executable"
      PROVE  Content("executable")' = Content("executable")
  BY <1>5 DEF Set, Over, Only, Content, Exists
<1>6. ASSUME NEW p, Gone(p), p # "executable"
      PROVE  Content("executable")' = Content("executable")
  BY <1>6 DEF Gone, Content, Exists
<1>7. ASSUME NEW s, NEW p, NEW c, Replace(s, p, c), p # "executable"
      PROVE  Content("executable")' = Content("executable")
  BY <1>5, <1>7 DEF Replace
<1>8. CASE ToolsTell
  BY <1>3, <1>7, <1>8 DEF ToolsTell, PluginNames, InstalledPlugins, NpmWorks, NpmFails, LoadRegistry,
     RecordPlugin, DropPlugin, RemoveArtifacts, ClearRegistry, RemoveAllArtifacts, DetectInstall,
     DownloadRelease, VerifyChecksum, NotifyAndRefresh, CreateArchive, FinishArchive, Step, Quiet, OnServer
<1>9. CASE ConfigurationTells
  <2>1. CASE Head(todo) = "write-config" /\ WriteConfig
    <3>1. Knows("config") /\ held["config"] \in Configs \union {Flagged}
      BY <1>1, <2>1 DEF Pathways, Precedes
    <3>2. QED
      BY <1>2, <1>7, <2>1, <3>1 DEF WriteConfig
  <2>2. CASE ReadEnvironment
    BY <1>3, <1>6, <2>2 DEF ReadEnvironment
  <2>3. QED
    BY <1>3, <1>9, <2>1, <2>2 DEF ConfigurationTells, ParseApp, DiscoverExtensions, DiscoverWebs, FindDuplicates,
       Diagnoses, ReportValidity, ChooseNamed, AskForConfig, ChooseValidated, ChoosePulled, Chooses, MapLocal,
       Quiet
<1>10. CASE AdminTells
  <2>1. GraphiqlServes => files' = files
    BY DEF GraphiqlServes, ReadRequest, TakeClient, MakeClient, CheckPolicy, ServeDocument, StopServing, Quiet
  <2>2. Download => Set("results", "results") \/ files' = files
    BY DEF Download
  <2>3. ReportResult => Replace("report", "results", "results") \/ files' = files
    BY DEF ReportResult, Step, Quiet
  <2>4. QED
    BY <1>3, <1>5, <1>7, <1>10, <2>1, <2>2, <2>3 DEF AdminTells, RunOperation, Poll, CancelOperation, Mutation,
       Bind, Quiet, OnServer
<1>11. CASE ScaffoldTells
  <2>1. Removed => Content("executable")' = Content("executable")
    BY DEF Removed, Content, Exists
  <2>2. QED
    BY <1>3, <1>6, <1>7, <1>11, <2>1 DEF ScaffoldTells, CloneApp, MakeDirectory, InitGit, Unstage, RollBack,
       CreateInitApp, LinkDirectory, CloneTheme, RemoveOrigin
<1>12. CASE HydrogenTells
  <2>1. CASE Head(todo) = "routes" /\ (WriteImports \/ WriteRoute)
    <3>1. Sequence(held.routes) /\ Names(held.routes) \subseteq RouteFiles /\ held.routes # <<>>
      BY <1>1, <2>1 DEF Pathways, Precedes, WriteImports, WriteRoute, Generating
    <3>2. Head(held.routes) \in RouteFiles
      BY <3>1, FrontOfPlan
    <3>3. QED
      BY <1>2, <1>5, <2>1, <3>2 DEF WriteImports, WriteRoute
  <2>2. QED
    BY <1>3, <1>12, <2>1 DEF HydrogenTells, CreateStorefront, ResolveSource, RouteNames, ConfirmReplace, Quiet
<1>13. CASE StoresTell
  BY <1>3, <1>13 DEF StoresTell, LoadCredential, Refresh, KeepRefreshed, MergeScopes, ExchangeCode, CreateStore,
     KeepCredential, KeepEntry, LoadPage, SkipDenied, Quiet
<1>14. CASE OthersTell
  <2>1. Edit => Content("executable")' = Content("executable")
    BY <1>2 DEF Edit, Present, Content, Exists
  <2>2. SomebodyMakes => Content("executable")' = Content("executable")
    BY <1>5 DEF SomebodyMakes
  <2>3. QED
    BY <1>3, <1>14, <2>1, <2>2, OthersTellLittle
<1>15. QED
  BY <1>4, <1>8, <1>9, <1>10, <1>11, <1>12, <1>13, <1>14 DEF Tells, Telling

(* How long the rest of the upgrade is says what comes next.               *)
LEMMA StandaloneSteps ==
  ASSUME NEW s, Sequence(s), s # <<>>, LeftOf(s, Standalone)
  PROVE  \/ Len(s) = 7 /\ Head(s) = "releases"
         \/ Len(s) = 6 /\ Head(s) = "fetch-release"
         \/ Len(s) = 5 /\ Head(s) = "verify"
         \/ Len(s) = 4 /\ Head(s) = "extract-binary"
         \/ Len(s) = 3 /\ Head(s) = "replace-executable"
         \/ Len(s) = 2 /\ Head(s) = "set-mode"
         \/ Len(s) = 1 /\ Head(s) = "version-file"
<1>1. Sequence(Standalone) /\ Len(Standalone) = 7
  BY DEF Sequence, Standalone
<1>2. ASSUME NEW plan, Sequence(plan), LeftOf(s, plan)
      PROVE  \E i \in 1..Len(plan) : Head(s) = plan[i] /\ Len(s) = Len(plan) - i + 1
  BY <1>2, LeftGoesOn
<1>a. PICK i \in 1..Len(Standalone) : Head(s) = Standalone[i] /\ Len(s) = Len(Standalone) - i + 1
  BY <1>1, <1>2
<1>3. i \in 1..7 /\ Len(s) = 8 - i /\ Head(s) = Standalone[i]
  BY <1>1, <1>a
<1>4. QED
  BY <1>3 DEF Standalone

(* Executable is kept by every step.                                       *)
LEMMA ExecutableGoesOn ==
  ASSUME PlanIsSound, Pathways, Executable, Taken, Tells
  PROVE  Executable'
<1>1. todo # <<>> /\ UNCHANGED command /\ Sequence(todo)
  BY DEF PlanIsSound, Taken, Planned, Same
<1>2. CASE command # "upgrade"
  <2>1. ~ReplaceExecutable
    BY <1>1, <1>2, FrontOfPlan DEF PlanIsSound, ReplaceExecutable, At
  <2>2. QED
    BY <1>1, <1>2, <2>1, ExecutableStays DEF Executable
<1>3. CASE command = "upgrade"
  <2> DEFINE Upgrading == /\ LeftOf(todo, Standalone)
                          /\ Len(todo) \in 1..5 => "archive" \in DOMAIN held
                          /\ Len(todo) \in 1..4 => held.archive = "released"
             Shaped == \/ LeftOf(todo, <<"detect">>)
                       \/ LeftOf(todo, <<"package-manager">>)
                       \/ Upgrading
  <2>1. Shaped /\ Content("executable") \in {"old", "released"}
    BY <1>3 DEF Executable, Knows
  <2>2. Shaped' /\ Content("executable")' \in {"old", "released"} => Executable'
    BY <1>1, <1>3 DEF Executable, Knows
  <2>3. /\ LeftOf(<<>>, <<"detect">>)
        /\ LeftOf(Standalone, Standalone) /\ Len(Standalone) = 7
        /\ LeftOf(<<"package-manager">>, <<"package-manager">>)
        /\ Sequence(<<"detect">>) /\ Sequence(Standalone) /\ Sequence(<<"package-manager">>)
        /\ Len(<<"detect">>) = 1 /\ Len(<<"package-manager">>) = 1
    BY DEF LeftOf, Sequence, Standalone
  <2>a. LeftOf(todo', Standalone) =>
          /\ Len(todo') \notin 1..5 => Upgrading'
          /\ Len(todo') = 5 /\ "archive" \in DOMAIN held' => Upgrading'
          /\ "archive" \in DOMAIN held' /\ held'.archive = "released" => Upgrading'
    OBVIOUS
  <2>b. Upgrading => /\ LeftOf(todo, Standalone)
                     /\ Len(todo) \in 1..5 => "archive" \in DOMAIN held
                     /\ Len(todo) \in 1..4 => held.archive = "released"
    OBVIOUS
  <2>c. LeftOf(todo', <<"detect">>) \/ LeftOf(todo', <<"package-manager">>) \/ Upgrading' => Shaped'
    OBVIOUS
  <2>d. Shaped => LeftOf(todo, <<"detect">>) \/ LeftOf(todo, <<"package-manager">>) \/ Upgrading
    OBVIOUS
  <2>e. UNCHANGED todo /\ "archive" \in DOMAIN held' /\ held'.archive = held.archive => (Upgrading => Upgrading')
    OBVIOUS
  <2> HIDE DEF Upgrading, Shaped
  <2>4. Head(todo) = "replace-executable" => held.archive = "released"
    <3>1. LeftOf(todo, <<"detect">>) => Head(todo) = "detect"
      BY <1>1, <2>3, LeftGoesOn
    <3>2. LeftOf(todo, <<"package-manager">>) => Head(todo) = "package-manager"
      BY <1>1, <2>3, LeftGoesOn
    <3>3. Upgrading /\ Head(todo) = "replace-executable" => Len(todo) = 3
      BY <1>1, <2>b, StandaloneSteps
    <3>4. QED
      BY <2>1, <2>b, <2>d, <3>1, <3>2, <3>3
  <2>5. Content("executable")' \in {"old", "released"}
    <3>1. CASE ReplaceExecutable
      BY <2>4, <3>1 DEF ReplaceExecutable, At, Replace, Set, Over, Only, Content, Exists
    <3>2. QED
      BY <2>1, <3>1, ExecutableStays
  <2>6. Shaped'
    <3>1. CASE todo' = <<>>
      BY <2>3, <2>c, <3>1
    <3>2. CASE LeftOf(todo, <<"detect">>)
      <4>1. Head(todo) = "detect"
        BY <1>1, <2>3, <3>2, LeftGoesOn
      <4>2. todo' \in {todo, <<>>, Tail(todo)} => LeftOf(todo', <<"detect">>)
        BY <1>1, <2>3, <3>2, LeftGoesOn
      <4>3. Alters => DetectInstall
        BY <4>1 DEF Alters, LoadCredential, PluginNames, InstalledPlugins, NpmFails, DropPlugin,
           ResolveSource, NotifyAndRefresh, At
      <4>4. DetectInstall => todo' \in {Standalone, <<"package-manager">>}
        BY DEF DetectInstall
      <4>5. todo' = Standalone => LeftOf(todo', Standalone) /\ Len(todo') = 7
        BY <2>3
      <4>6. todo' = Standalone => Upgrading'
        BY <2>a, <4>5
      <4>7. todo' = <<"package-manager">> => Shaped'
        BY <2>3, <2>c
      <4>8. QED
        BY <2>c, <4>2, <4>3, <4>4, <4>6, <4>7, PlanGoesOn
    <3>3. CASE LeftOf(todo, <<"package-manager">>) \/ Upgrading
      <4>1. Head(todo) \in {"package-manager", "releases", "fetch-release", "verify", "extract-binary",
                            "replace-executable", "set-mode", "version-file"}
        <5>1. LeftOf(todo, <<"package-manager">>) => Head(todo) = "package-manager"
          BY <1>1, <2>3, LeftGoesOn
        <5>2. QED
          BY <1>1, <2>b, <3>3, <5>1, StandaloneSteps
      <4>2. todo' \in {todo, <<>>, Tail(todo)}
        <5>1. ~Alters
          BY <4>1 DEF Alters, LoadCredential, PluginNames, InstalledPlugins, NpmFails, DropPlugin,
             ResolveSource, NotifyAndRefresh, DetectInstall, At
        <5>2. QED
          BY <5>1, PlanGoesOn
      <4>3. CASE LeftOf(todo, <<"package-manager">>)
        <5>1. LeftOf(todo', <<"package-manager">>)
          BY <1>1, <2>3, <4>2, <4>3, LeftGoesOn
        <5>2. QED
          BY <2>c, <5>1
      <4>4. CASE Upgrading
        <5> SUFFICES Upgrading'
          BY <2>c
        <5>1. LeftOf(todo', Standalone)
          BY <1>1, <2>3, <2>b, <4>2, <4>4, LeftGoesOn
        <5>2. Len(Tail(todo)) = Len(todo) - 1 /\ Len(<<>>) = 0
          BY <1>1, FrontOfPlan
        <5>3. CASE Len(todo) = 7 \/ todo' = <<>>
          <6>1. Len(todo') \in {0, 6, 7}
            <7>1. todo' = todo => Len(todo') = Len(todo)
              OBVIOUS
            <7>2. todo' = <<>> => Len(todo') = 0
              BY <5>2
            <7>3. todo' = Tail(todo) => Len(todo') = Len(todo) - 1
              BY <5>2
            <7>4. Len(todo) = 7 => 7 - 1 = 6 /\ Len(todo') \in {Len(todo), Len(todo) - 1, 0}
              BY <4>2, <7>1, <7>2, <7>3
            <7>5. QED
              BY <5>3, <7>2, <7>4
          <6>2. QED
            BY <2>a, <5>1, <6>1
        <5>4. CASE DownloadRelease
          <6>1. Head(todo) = "fetch-release" /\ todo' = Tail(todo) /\ "archive" \in DOMAIN held'
            BY <5>4 DEF DownloadRelease, At, Pass, Learn, Over, Only
          <6>2. Len(todo) = 6
            BY <1>1, <2>b, <4>4, <6>1, StandaloneSteps
          <6>3. Len(todo') = 5
            BY <5>2, <6>1, <6>2
          <6>4. QED
            BY <2>a, <5>1, <6>1, <6>3
        <5>5. CASE VerifyChecksum
          <6>1. Head(todo) = "verify" /\ held' = held /\ held.archive = "released"
            BY <5>5 DEF VerifyChecksum, Step, At
          <6>2. Len(todo) = 5
            BY <1>1, <2>b, <4>4, <6>1, StandaloneSteps
          <6>3. QED
            BY <2>a, <2>b, <4>4, <5>1, <6>1, <6>2
        <5>6. ASSUME Head(todo) \notin {"fetch-release", "verify"}, Len(todo) # 7,
                     "archive" \in DOMAIN held => "archive" \in DOMAIN held' /\ held'.archive = held.archive
              PROVE  Upgrading'
          <6>1. Len(todo) \in 1..4
            BY <1>1, <2>b, <4>4, <5>6, StandaloneSteps
          <6>2. "archive" \in DOMAIN held /\ held.archive = "released"
            BY <2>b, <4>4, <6>1
          <6>3. QED
            BY <2>a, <5>1, <5>6, <6>2
        <5>7. CASE Plain
          <6>1. /\ "archive" \in DOMAIN held => "archive" \in DOMAIN held' /\ held'.archive = held.archive
                /\ todo' = todo \/ todo' = <<>> \/ Head(todo) \notin {"fetch-release", "verify"}
            BY <5>7 DEF Plain, GoesOn, Passes, Turns, Keeps, Lessons
          <6>2. CASE todo' = todo
            <7>1. Len(todo) \in 1..7
              BY <1>1, <2>b, <4>4, StandaloneSteps
            <7>2. CASE Len(todo) \in 6..7
              BY <2>a, <5>1, <6>2, <7>2
            <7>3. CASE Len(todo) \in 1..5
              BY <2>b, <2>e, <4>4, <6>1, <6>2, <7>3
            <7>4. QED
              BY <7>1, <7>2, <7>3
          <6>3. QED
            BY <5>3, <5>6, <6>1, <6>2
        <5>8. CASE OthersTell
          <6>1. UNCHANGED <<todo, held>>
            BY <5>8, OthersTellLittle
          <6>2. QED
            BY <4>4, <6>1 DEF Upgrading
        <5>9. CASE ReplaceExecutable
          <6>1. held' = held /\ Head(todo) = "replace-executable"
            BY <5>9 DEF ReplaceExecutable, Replace, OnDisk, At
          <6>2. QED
            BY <5>3, <5>6, <6>1
        <5>10. QED
          <6>1. ~RollBack
            BY <4>1 DEF RollBack, Undone
          <6>2. QED
            BY <4>1, <5>4, <5>5, <5>7, <5>8, <5>9, <6>1 DEF Tells, Telling, ToolsTell, ConfigurationTells,
               AdminTells, ScaffoldTells, HydrogenTells, StoresTell
      <4>5. QED
        BY <2>c, <3>3, <4>3, <4>4
    <3>4. QED
      BY <2>1, <2>d, <3>2, <3>3
  <2>7. QED
    BY <2>2, <2>5, <2>6
<1>4. QED
  BY <1>2, <1>3

(* Completed is kept by every step.                                        *)
LEMMA CompletedGoesOn ==
  ASSUME PlanIsSound, Completed, Taken, Tells
  PROVE  Completed'
<1> SUFFICES ASSUME command \in {"bulk-execute", "store-bulk-execute"} PROVE Completed'
  BY DEF Completed, Tells, Same
<1>1. /\ Sequence(todo) /\ todo # <<>> /\ result = "none" /\ UNCHANGED <<command, given>>
      /\ todo' \in {todo, <<>>, Tail(todo)}
  BY StraightOn DEF Straight
<1>2. /\ Head(todo) = todo[1] /\ 1 \in DOMAIN todo /\ Len(todo) \in Nat \ {0}
      /\ Sequence(Tail(todo)) /\ Len(Tail(todo)) = Len(todo) - 1
      /\ \A i \in 1..(Len(todo) - 1) : i + 1 \in DOMAIN todo /\ Tail(todo)[i] = todo[i + 1]
      /\ Names(Tail(todo)) \subseteq Names(todo) /\ Head(todo) \in Names(todo)
      /\ \A x \in Names(todo) : x = Head(todo) \/ x \in Names(Tail(todo))
      /\ Names(<<>>) = {} /\ \A early, late : Precedes(early, <<>>, late)
  BY <1>1, FrontOfPlan DEF Names, Precedes
<1> DEFINE Behind(t) == \A i, j \in DOMAIN t : i < j /\ t[i] = "poll" => t[j] # "run"
           Known == "operation" \in DOMAIN held
           Over1 == Known /\ held.operation \in Ended
<1>3. /\ Head(todo) \in BulkSteps /\ Names(todo) \subseteq BulkSteps
      /\ Behind(todo)
      /\ "operation" \in DOMAIN server
      /\ Known => "run" \notin Names(todo)
      /\ ~Known => Precedes({"poll"}, todo, {"download"})
      /\ Over1 => server.operation = held.operation
      /\ Content("results") = "results" => Known /\ held.operation = "completed"
      /\ "watch" \in given => "poll" \in Names(todo) \/ Over1
  BY <1>1, <1>2 DEF Completed, Knows, Well
<1>4. Names(todo') \subseteq BulkSteps /\ Behind(todo')
  <2>1. Behind(Tail(todo))
    <3>1. DOMAIN Tail(todo) = 1..(Len(todo) - 1)
      BY <1>2 DEF Sequence
    <3>2. ASSUME NEW i \in DOMAIN Tail(todo), NEW j \in DOMAIN Tail(todo), i < j, Tail(todo)[i] = "poll"
          PROVE  Tail(todo)[j] # "run"
      <4>1. /\ i + 1 \in DOMAIN todo /\ j + 1 \in DOMAIN todo /\ i + 1 < j + 1
            /\ Tail(todo)[i] = todo[i + 1] /\ Tail(todo)[j] = todo[j + 1]
        BY <1>2, <3>1, <3>2
      <4>2. QED
        BY <1>3, <3>2, <4>1
    <3>3. QED
      BY <3>2
  <2>2. Behind(<<>>)
    OBVIOUS
  <2>3. QED
    BY <1>1, <1>2, <1>3, <2>1, <2>2
<1>5. ASSUME "operation" \in DOMAIN server',
             Known' => "run" \notin Names(todo'),
             ~Known' => Precedes({"poll"}, todo', {"download"}),
             Over1' => server'.operation = held'.operation,
             Content("results")' = "results" => Known' /\ held'.operation = "completed",
             result' \in {"none", "ok"} /\ "watch" \in given => "poll" \in Names(todo') \/ Over1'
      PROVE  Completed'
  BY <1>1, <1>4, <1>5 DEF Completed, Knows, Well
<1>6. Names(todo') \subseteq Names(todo)
  BY <1>1, <1>2
<1>7. ASSUME ~Known, Head(todo) # "poll"
      PROVE  Precedes({"poll"}, todo', {"download"})
  <2>1. Precedes({"poll"}, todo, {"download"}) /\ Head(todo) \notin {"poll"}
    BY <1>3, <1>7
  <2>2. Precedes({"poll"}, Tail(todo), {"download"})
    BY <1>1, <2>1, TailPrecedes
  <2>3. QED
    BY <1>1, <1>2, <2>1, <2>2
<1>b. ASSUME Len(todo) # 1
      PROVE  Tail(todo) # <<>>
  <2>1. Len(Tail(todo)) # 0 /\ Len(<<>>) = 0
    BY <1>2, <1>b
  <2>2. QED
    BY <2>1
<1>8. ASSUME Head(todo) # "poll" \/ todo' = todo, todo' # <<>> \/ Len(todo) = 1
      PROVE  "poll" \in Names(todo) => "poll" \in Names(todo')
  <2>1. todo' = <<>> /\ Len(todo) = 1 => Names(todo) = {Head(todo)}
    BY <1>2 DEF Names, Sequence
  <2>2. QED
    BY <1>1, <1>2, <1>8, <2>1
<1>9. ASSUME Head(todo) # "poll" \/ todo' = todo,
             todo' # <<>> \/ Len(todo) = 1 \/ result' \in {"error", "killed"},
             "operation" \in DOMAIN server', server'.operation = server.operation,
             Known' <=> Known, Known => held'.operation = held.operation,
             Content("results")' = "results" => Content("results") = "results" \/ (Known /\ held.operation = "completed")
      PROVE  Completed'
  <2>1. (Over1' <=> Over1) /\ (~Known /\ todo' = todo => Precedes({"poll"}, todo', {"download"}))
    BY <1>3, <1>9
  <2>2. result' \in {"none", "ok"} /\ "watch" \in given => "poll" \in Names(todo') \/ Over1'
    BY <1>3, <1>8, <1>9, <2>1
  <2>3. QED
    BY <1>3, <1>5, <1>6, <1>7, <1>9, <2>1, <2>2
<1> HIDE DEF Known, Over1, Behind
<1>10. CASE Plain
  <2>1. /\ "operation" \in DOMAIN server' /\ server'.operation = server.operation
        /\ Known' <=> Known
        /\ Known => held'.operation = held.operation
        /\ Content("results")' = Content("results")
    BY <1>3, <1>10, KeptPlaces DEF Plain, Keeps, Places, Services, Lessons, Known
  <2>2. /\ Head(todo) # "poll" \/ todo' = todo \/ result' \in {"error", "killed"}
        /\ todo' # <<>> \/ Len(todo) = 1 \/ result' \in {"error", "killed"}
    BY <1>1, <1>2, <1>3, <1>10 DEF Plain, GoesOn, Passes, Advances, Turns, Quits, BulkSteps
  <2>3. CASE Head(todo) # "poll" \/ todo' = todo
    BY <1>9, <2>1, <2>2, <2>3
  <2>4. CASE result' \in {"error", "killed"} /\ todo' = <<>>
    <3>1. Precedes({"poll"}, todo', {"download"}) /\ Names(todo') = {}
      BY <1>2, <2>4
    <3>2. QED
      BY <1>3, <1>5, <2>1, <2>4, <3>1 DEF Over1
  <2>5. QED
    BY <1>1, <1>10, <2>2, <2>3, <2>4 DEF Plain, GoesOn, Passes, Turns
<1>11. CASE Head(todo) = "environment" /\ ReadEnvironment
  <2>1. /\ server' = server
        /\ Known' <=> Known
        /\ Known => held'.operation = held.operation
    BY <1>11 DEF ReadEnvironment, Learn, Over, Only, Known
  <2>2. Content("results")' = Content("results")
    BY <1>11 DEF ReadEnvironment, Gone, Content, Exists
  <2>3. todo' # <<>> \/ Len(todo) = 1
    <3>1. Then
      BY <1>11 DEF ReadEnvironment
    <3>2. Len(todo) # 1 => todo' = Tail(todo)
      BY <3>1 DEF Then, Pass
    <3>3. QED
      BY <1>b, <3>2
  <2>4. QED
    BY <1>3, <1>9, <1>11, <2>1, <2>2, <2>3
<1>12. CASE Head(todo) = "run" /\ RunOperation
  <2>1. /\ held' = held /\ files' = files /\ "operation" \in DOMAIN server'
        /\ todo' # <<>> \/ Len(todo) = 1 \/ result' = "error"
    <3>1. held' = held /\ files' = files /\ server' = Over(Only("operation", "created"), server)
      BY <1>12 DEF RunOperation, Mutation, OnServer
    <3>2. "operation" \in DOMAIN server'
      BY <3>1 DEF Over, Only
    <3>3. Then \/ Return("error")
      BY <1>12 DEF RunOperation, Mutation
    <3>4. Len(todo) # 1 => todo' = Tail(todo) \/ result' = "error"
      BY <3>3 DEF Then, Pass, Return
    <3>5. QED
      BY <1>b, <3>1, <3>2, <3>4
  <2>2. ~Known /\ ~Known' /\ Content("results")' = Content("results")
    BY <1>2, <1>3, <1>12, <2>1 DEF Known, Content, Exists
  <2>3. result' \in {"none", "ok"} /\ "watch" \in given => "poll" \in Names(todo')
    BY <1>3, <1>8, <1>12, <2>1, <2>2 DEF Over1
  <2>4. QED
    BY <1>3, <1>5, <1>7, <1>12, <2>1, <2>2, <2>3 DEF Over1
<1>13. CASE Head(todo) = "poll" /\ Poll
  <2>1. /\ UNCHANGED <<files, server, result>>
        /\ "operation" \in DOMAIN held' /\ held'.operation = server.operation
        /\ server.operation \in Ended \/ todo' = todo
    BY <1>13, Learning DEF Poll, Quiet, Pass, Stay, commandVars
  <2>2. "run" \notin Names(todo)
    <3>1. ASSUME NEW j \in DOMAIN todo, todo[j] = "run" PROVE FALSE
      <4>1. j # 1 /\ 1 < j
        BY <1>2, <1>13, <3>1 DEF Sequence
      <4>2. QED
        BY <1>2, <1>3, <1>13, <3>1, <4>1 DEF Behind
    <3>2. QED
      BY <3>1 DEF Names
  <2>3. Content("results")' = "results" => held'.operation = "completed"
    BY <1>3, <2>1 DEF Content, Exists, Over1, Ended
  <2>4. Known' /\ (server.operation \in Ended => Over1')
    BY <2>1 DEF Known, Over1
  <2>5. "watch" \in given => "poll" \in Names(todo') \/ Over1'
    BY <1>2, <1>13, <2>1, <2>4
  <2>6. QED
    BY <1>3, <1>5, <1>6, <2>1, <2>2, <2>3, <2>4, <2>5
<1>14. CASE Head(todo) = "download" /\ Download
  <2>1. Known
    BY <1>2, <1>3, <1>14 DEF Precedes
  <2>2. /\ UNCHANGED <<held, server>>
        /\ todo' = Tail(todo) /\ result' = result
    BY <1>14 DEF Download, OnDisk, Pass, commandVars
  <2>3. held.operation = "completed" \/ files' = files
    BY <1>14 DEF Download
  <2>4. QED
    <3>1. Content("results")' = "results" => Content("results") = "results" \/ (Known /\ held.operation = "completed")
      BY <2>1, <2>3 DEF Content, Exists
    <3>2. "operation" \in DOMAIN server' /\ server'.operation = server.operation /\ (Known' <=> Known)
          /\ (Known => held'.operation = held.operation)
      BY <1>3, <2>2 DEF Known
    <3>3. todo' # <<>> \/ Len(todo) = 1
      BY <1>b, <2>2
    <3>4. QED
      BY <1>9, <1>14, <3>1, <3>2, <3>3
<1>15. CASE OthersTell
  <2>1. UNCHANGED <<todo, result, held>> /\ files' = files
        /\ (server' = server \/ OperationRuns \/ OtherPlugins \/ OtherRefreshes)
    BY <1>15, OthersTellLittle
  <2>2. "operation" \in DOMAIN server' /\ (Over1 => server'.operation = server.operation)
    <3>1. CASE OperationRuns
      BY <1>3, <3>1 DEF OperationRuns, Ended, Over1
    <3>2. CASE server' = server \/ OtherPlugins \/ OtherRefreshes
      BY <1>3, <3>2, OnlyPlugins DEF OtherRefreshes
    <3>3. QED
      BY <2>1, <3>1, <3>2
  <2>3. (Known' <=> Known) /\ (Over1' <=> Over1) /\ Content("results")' = Content("results")
    BY <2>1 DEF Known, Over1, Content, Exists
  <2>4. QED
    BY <1>3, <1>5, <2>1, <2>2, <2>3
<1>16. QED
  <2>1. ~RollBack
    BY <1>3 DEF RollBack, BulkSteps, Undone
  <2>2. ~ReportValidity /\ ~ReportResult
    BY DEF ReportValidity, ReportResult
  <2>3. QED
    BY <1>3, <1>10, <1>11, <1>12, <1>13, <1>14, <1>15, <2>1, <2>2 DEF BulkSteps, Tells, Telling, ToolsTell,
       ConfigurationTells, AdminTells, ScaffoldTells, HydrogenTells, StoresTell

(* The steps of the sessions of a store, by how many are left.             *)
LEMMA InfoSteps ==
  ASSUME NEW s, Sequence(s), s # <<>>, LeftOf(s, InfoPlan)
  PROVE  \/ Len(s) = 6 /\ Head(s) = "entry"
         \/ Len(s) = 5 /\ Head(s) = "credential"
         \/ Len(s) = 4 /\ Head(s) = "refresh"
         \/ Len(s) = 3 /\ Head(s) = "keep-refreshed"
         \/ Len(s) = 2 /\ Head(s) = "keep-index"
         \/ Len(s) = 1 /\ Head(s) = "info"
<1>1. Sequence(InfoPlan) /\ Len(InfoPlan) = 6
  BY DEF Sequence, InfoPlan
<1>2. ASSUME NEW plan, Sequence(plan), LeftOf(s, plan)
      PROVE  \E i \in 1..Len(plan) : Head(s) = plan[i] /\ Len(s) = Len(plan) - i + 1
  BY <1>2, LeftGoesOn
<1>3. PICK i \in 1..Len(InfoPlan) : Head(s) = InfoPlan[i] /\ Len(s) = Len(InfoPlan) - i + 1
  BY <1>1, <1>2
<1>4. i \in 1..6 /\ Len(s) = 7 - i /\ Head(s) = InfoPlan[i]
  BY <1>1, <1>3
<1>5. QED
  BY <1>4 DEF InfoPlan

(* Which step is next, by how much is left of a plan that keeps a token.   *)
LEMMA AuthSteps ==
  ASSUME NEW s, Sequence(s), s # <<>>, LeftOf(s, AuthPlan) \/ LeftOf(s, CreatePlan)
  PROVE  \/ Len(s) = 8 /\ Head(s) = "terminal"
         \/ Len(s) = 7 /\ Head(s) = "scopes"
         \/ Len(s) \in 5..6 /\ Head(s) \in {"callback-port", "approval", "instance"}
         \/ Len(s) = 4 /\ Head(s) \in {"exchange-code", "create-store"}
         \/ Len(s) = 3 /\ Head(s) = "keep-credential"
         \/ Len(s) = 2 /\ Head(s) = "index"
         \/ Len(s) = 1 /\ Head(s) = "keep-entry"
<1>1. Sequence(AuthPlan) /\ Len(AuthPlan) = 8 /\ Sequence(CreatePlan) /\ Len(CreatePlan) = 5
  BY DEF Sequence, AuthPlan, CreatePlan
<1>2. ASSUME NEW plan, Sequence(plan), LeftOf(s, plan)
      PROVE  \E i \in 1..Len(plan) : Head(s) = plan[i] /\ Len(s) = Len(plan) - i + 1
  BY <1>2, LeftGoesOn
<1>3. CASE LeftOf(s, AuthPlan)
  <2>1. PICK i \in 1..Len(AuthPlan) : Head(s) = AuthPlan[i] /\ Len(s) = Len(AuthPlan) - i + 1
    BY <1>1, <1>2, <1>3
  <2>2. i \in 1..8 /\ Len(s) = 9 - i /\ Head(s) = AuthPlan[i]
    BY <1>1, <2>1
  <2>3. QED
    BY <2>2 DEF AuthPlan
<1>4. CASE LeftOf(s, CreatePlan)
  <2>1. PICK i \in 1..Len(CreatePlan) : Head(s) = CreatePlan[i] /\ Len(s) = Len(CreatePlan) - i + 1
    BY <1>1, <1>2, <1>4
  <2>2. i \in 1..5 /\ Len(s) = 6 - i /\ Head(s) = CreatePlan[i]
    BY <1>1, <2>1
  <2>3. QED
    BY <2>2 DEF CreatePlan
<1>5. QED
  BY <1>3, <1>4

(* Only the sessions of a store are granted anything.                      *)
LEMMA GrantedTo ==
  ASSUME PlanIsSound, Granted, Taken, Tells, Knows("granted")'
  PROVE  command \in {"store-info", "store-auth", "store-create"}
<1>1. 1 \in DOMAIN todo /\ Head(todo) = todo[1]
  BY FrontOfPlan DEF PlanIsSound, Taken, Planned
<1>2. CASE Knows("granted")
  BY <1>2 DEF Granted
<1>3. CASE Head(todo) \in {"refresh", "exchange-code", "create-store"}
  BY <1>1, <1>3 DEF PlanIsSound
<1>4. ASSUME NEW k, NEW v, Learn(k, v), k # "granted"
      PROVE  Knows("granted")
  BY <1>4 DEF Learn, Over, Only, Knows
<1>5. ASSUME NEW f, held' = Over(f, held), "granted" \notin DOMAIN f
      PROVE  Knows("granted")
  BY <1>5 DEF Over, Knows
<1>6. CASE held' = held
  BY <1>2, <1>6 DEF Knows
<1>7. CASE DOMAIN held' = DOMAIN held
  BY <1>2, <1>7 DEF Knows
<1>8. CASE Plain
  BY <1>2, <1>8 DEF Plain, Keeps, Lessons, Knows
<1>9. CASE ToolsTell
  <2>1. Deal({}) => TRUE
    OBVIOUS
  <2>2. \A S : Deal(S) => Knows("granted")
    BY DEF Deal, Over, Knows
  <2>3. PluginNames \/ InstalledPlugins => \E S : Deal(S)
    BY DEF PluginNames, InstalledPlugins, For
  <2>4. QED
    BY <1>2, <1>4, <1>6, <1>7, <1>9, <2>2, <2>3 DEF ToolsTell, NpmWorks, NpmFails, LoadRegistry,
       RecordPlugin, DropPlugin, RemoveArtifacts, ClearRegistry, RemoveAllArtifacts, DetectInstall,
       DownloadRelease, VerifyChecksum, ReplaceExecutable, NotifyAndRefresh, CreateArchive, FinishArchive, Step,
       Replace, Quiet, OnServer, OnDisk
<1>10. CASE ConfigurationTells
  <2>1. MapLocal => Knows("granted")
    BY DEF MapLocal, Over, Knows
  <2>2. QED
    BY <1>2, <1>4, <1>6, <1>10, <2>1 DEF ConfigurationTells, ReadEnvironment, ParseApp, DiscoverExtensions,
       DiscoverWebs, FindDuplicates, Diagnoses, ReportValidity, ChooseNamed, AskForConfig, ChooseValidated,
       ChoosePulled, Chooses, WriteConfig, Replace, Quiet, OnDisk
<1>11. CASE AdminTells
  <2>1. Bind => Knows("granted")
    BY ConnectionsAssumption DEF Bind, Over, Knows
  <2>2. GraphiqlServes => DOMAIN held' = DOMAIN held
    BY DEF GraphiqlServes, ReadRequest, TakeClient, MakeClient, CheckPolicy, ServeDocument, StopServing, Moves
  <2>3. QED
    BY <1>2, <1>4, <1>6, <1>7, <1>11, <2>1, <2>2 DEF AdminTells, RunOperation, Poll, Download, CancelOperation,
       Mutation, ReportResult, Replace, Step, Quiet, OnServer, OnDisk
<1>12. CASE ScaffoldTells
  BY <1>6, <1>12 DEF ScaffoldTells, CloneApp, MakeDirectory, InitGit, Unstage, RollBack, CreateInitApp,
     LinkDirectory, CloneTheme, RemoveOrigin, Replace, OnDisk
<1>13. CASE HydrogenTells
  <2>1. RouteNames => Knows("granted")
    BY DEF RouteNames, Over, Knows
  <2>2. QED
    BY <1>2, <1>4, <1>6, <1>7, <1>13, <2>1 DEF HydrogenTells, CreateStorefront, ResolveSource, ConfirmReplace,
       WriteImports, WriteRoute, NextRoute, Quiet
<1>14. CASE StoresTell
  BY <1>2, <1>3, <1>4, <1>6, <1>14 DEF StoresTell, LoadCredential, KeepRefreshed, MergeScopes, KeepCredential,
     KeepEntry, LoadPage, SkipDenied
<1>15. CASE OthersTell
  BY <1>6, <1>15, OthersTellLittle
<1>16. QED
  BY <1>8, <1>9, <1>10, <1>11, <1>12, <1>13, <1>14, <1>15 DEF Tells, Telling

(* What a session has been granted, where store info is told of it.        *)
LEMMA InfoGranted ==
  ASSUME PlanIsSound, Granted, Taken, Tells, command = "store-info"
  PROVE  Granted'
<1>1. /\ Sequence(todo) /\ todo # <<>> /\ result = "none" /\ UNCHANGED <<command, given>>
      /\ LeftOf(todo, InfoPlan) /\ Tokens
      /\ Len(todo) = 3 => Knows("granted")
      /\ Knows("granted") => Len(todo) = 3 \/ server.stored >= held.granted
  BY DEF PlanIsSound, Taken, Planned, Same, Granted, Well
<1>2. \/ Len(todo) = 6 /\ Head(todo) = "entry"
      \/ Len(todo) = 5 /\ Head(todo) = "credential"
      \/ Len(todo) = 4 /\ Head(todo) = "refresh"
      \/ Len(todo) = 3 /\ Head(todo) = "keep-refreshed"
      \/ Len(todo) = 2 /\ Head(todo) = "keep-index"
      \/ Len(todo) = 1 /\ Head(todo) = "info"
  BY <1>1, InfoSteps
<1>3. Len(Tail(todo)) = Len(todo) - 1 /\ Len(<<>>) = 0
  BY <1>1, FrontOfPlan
<1>a. /\ Len(todo) \in 1..6 /\ Head(todo) \notin Quits
      /\ Len(todo) \in {3, 4} => Head(todo) \in Turns
  BY <1>2 DEF Quits, Turns
<1>b. /\ todo' = Tail(todo) => Len(todo') = Len(todo) - 1
      /\ todo' = <<>> => Len(todo') = 0
      /\ todo' = todo => Len(todo') = Len(todo)
  BY <1>3
<1>4. ASSUME LeftOf(todo', InfoPlan), Tokens',
             result' = "none" /\ Len(todo') = 3 => Knows("granted")',
             result' \in {"none", "ok"} /\ Knows("granted")' =>
               (result' = "none" /\ Len(todo') = 3) \/ server'.stored >= held'.granted
      PROVE  Granted'
  BY <1>1, <1>4 DEF Granted, Well
<1>5. ASSUME todo' \in {todo, <<>>, Tail(todo)}
      PROVE  LeftOf(todo', InfoPlan)
  <2>1. Sequence(InfoPlan)
    BY DEF InfoPlan, Sequence
  <2>2. ASSUME NEW plan, Sequence(plan), LeftOf(todo, plan)
        PROVE  LeftOf(todo', plan)
    BY <1>1, <1>5, <2>2, LeftGoesOn
  <2>3. QED
    BY <1>1, <2>1, <2>2
<1>6. CASE Plain
  <2>1. /\ todo' \in {todo, <<>>, Tail(todo)}
        /\ (Knows("granted")' <=> Knows("granted")) /\ (Knows("granted") => held'.granted = held.granted)
        /\ server'.stored = server.stored /\ server'.issued = server.issued
        /\ {"stored", "issued", "index", "scopes"} \subseteq DOMAIN server'
    BY <1>1, <1>6 DEF Plain, GoesOn, Passes, Advances, Keeps, Services, Lessons, Knows, Tokens
  <2>2. Tokens'
    BY <1>1, <2>1 DEF Tokens
  <2>3. \/ todo' = todo /\ result' = "none"
        \/ todo' = Tail(todo) /\ result' = "none" /\ Len(todo) \notin 3..4
        \/ Len(todo) = 1
        \/ result' \notin {"none", "ok"}
    BY <1>1, <1>a, <1>6 DEF Plain, GoesOn, Passes, Advances
  <2>7. Len(todo') \in {0, Len(todo), Len(todo) - 1}
    BY <1>b, <2>1
  <2>8. todo' = Tail(todo) /\ Len(todo) \notin 3..4 => Len(todo') # 3
    BY <1>a, <1>b
  <2>9. Len(todo) = 1 => Len(todo') # 3
    BY <2>7
  <2>4. result' \in {"none", "ok"} /\ Len(todo') = 3 => todo' = todo /\ result' = "none"
    BY <2>3, <2>8, <2>9
  <2>5. Len(todo) = 3 /\ result' \in {"none", "ok"} => todo' = todo /\ result' = "none"
    BY <1>a, <2>3
  <2>6. QED
    BY <1>1, <1>4, <1>5, <2>1, <2>2, <2>4, <2>5
<1>7. CASE Head(todo) = "credential" /\ LoadCredential
  <2>1. /\ UNCHANGED <<files, server>>
        /\ (Knows("granted")' <=> Knows("granted")) /\ (Knows("granted") => held'.granted = held.granted)
    BY <1>7 DEF LoadCredential, Quiet, Learn, Over, Only, Knows
  <2>2. Tokens' /\ Len(todo) = 5
    BY <1>1, <1>2, <1>7, <2>1 DEF Tokens
  <2>3. todo' \in {<<>>, Tail(todo)} \/ todo' = SubSeq(todo, 5, Len(todo))
    BY <1>7 DEF LoadCredential, Pass, Return
  <2>4. CASE todo' = SubSeq(todo, 5, Len(todo))
    <3>1. Sequence(todo') /\ Len(todo') = 1 /\ todo'[1] = todo[5]
      BY <1>1, <2>2, <2>4 DEF Sequence
    <3>2. todo[5] = InfoPlan[6] /\ Len(InfoPlan) = 6
      BY <1>1, <2>2 DEF LeftOf, InfoPlan, Sequence
    <3>3. LeftOf(todo', InfoPlan)
      BY <3>1, <3>2 DEF LeftOf, Sequence
    <3>4. QED
      BY <1>1, <1>4, <2>1, <2>2, <3>1, <3>3
  <2>5. CASE todo' \in {<<>>, Tail(todo)}
    <3>3. Len(todo') \in {0, 4}
      BY <1>b, <2>2, <2>5
    <3>4. LeftOf(todo', InfoPlan)
      BY <1>5, <2>5
    <3>1. Len(todo') # 3 /\ LeftOf(todo', InfoPlan)
      BY <3>3, <3>4
    <3>2. QED
      BY <1>1, <1>4, <2>1, <2>2, <3>1
  <2>6. QED
    BY <2>3, <2>4, <2>5
<1>8. CASE Head(todo) = "refresh" /\ Refresh
  <2>1. /\ Knows("granted")' /\ held'.granted = server.issued + 1
        /\ server' = [server EXCEPT !.issued = @ + 1]
        /\ \/ todo' = Tail(todo) /\ result' = "none"
           \/ todo' = <<>> /\ result' = "error"
    BY <1>1, <1>8, Learning DEF Refresh, Pass, Return, commandVars, Knows
  <2>2. Tokens'
    BY <1>1, <2>1 DEF Tokens
  <2>3. Len(todo) = 4
    BY <1>2, <1>8
  <2>4. LeftOf(todo', InfoPlan) /\ (result' # "error" => Len(todo') = 3 /\ result' = "none")
    <3>1. todo' = Tail(todo) => Len(todo') = 3
      BY <1>b, <2>3
    <3>2. QED
      BY <1>5, <2>1, <3>1
  <2>5. QED
    BY <1>4, <2>1, <2>2, <2>4
<1>9. CASE Head(todo) = "keep-refreshed" /\ KeepRefreshed
  <2>1. /\ held' = held /\ todo' = Tail(todo) /\ result' = "none"
        /\ server' = [server EXCEPT !.stored = held.granted, !.fresh = TRUE]
    BY <1>1, <1>9 DEF KeepRefreshed, Pass, commandVars
  <2>2. Len(todo) = 3 /\ Knows("granted") /\ held.granted \in Nat
    BY <1>1, <1>2, <1>9 DEF Tokens
  <2>3. Tokens' /\ server'.stored = held'.granted
    BY <1>1, <2>1, <2>2 DEF Tokens, Knows
  <2>4. held'.granted \in Nat
    BY <2>1, <2>2
  <2>8. Len(todo') = 2
    BY <1>b, <2>1, <2>2
  <2>9. LeftOf(todo', InfoPlan)
    BY <1>5, <2>1
  <2>5. Len(todo') # 3 /\ LeftOf(todo', InfoPlan)
    BY <2>8, <2>9
  <2>6. server'.stored >= held'.granted
    BY <2>3, <2>4
  <2>7. QED
    BY <1>4, <2>3, <2>5, <2>6
<1>10. CASE OthersTell
  <2>1. UNCHANGED <<todo, result, held>> /\ (server' = server \/ OperationRuns \/ OtherPlugins \/ OtherRefreshes)
    BY <1>10, OthersTellLittle
  <2>2. /\ server'.issued \in Nat /\ server'.stored \in Nat /\ server'.stored >= server.stored
        /\ {"stored", "issued", "index", "scopes"} \subseteq DOMAIN server'
    <3>1. CASE OperationRuns
      BY <1>1, <3>1 DEF OperationRuns, Tokens
    <3>2. CASE OtherPlugins
      BY <1>1, <3>2, OnlyPlugins DEF Tokens
    <3>3. CASE OtherRefreshes
      BY <1>1, <3>3 DEF OtherRefreshes, Tokens
    <3>4. QED
      BY <1>1, <2>1, <3>1, <3>2, <3>3 DEF Tokens
  <2>3. Tokens' /\ (Knows("granted")' <=> Knows("granted")) /\ (Knows("granted") => held.granted \in Nat)
    BY <1>1, <2>1, <2>2 DEF Tokens, Knows
  <2>4. server.stored \in Nat
    BY <1>1 DEF Tokens
  <2>5. QED
    BY <1>1, <1>4, <1>5, <2>1, <2>2, <2>3, <2>4
<1>11. QED
  BY <1>2, <1>6, <1>7, <1>8, <1>9, <1>10 DEF Tells, Telling, ToolsTell, ConfigurationTells, AdminTells,
     ScaffoldTells, HydrogenTells, StoresTell, Undone

(* Where store auth, or the creation of a preview store, is told of it.    *)
LEMMA AuthGranted ==
  ASSUME PlanIsSound, Granted, Taken, Tells, command \in {"store-auth", "store-create"}
  PROVE  Granted'
<1> DEFINE Planning(t) == LeftOf(t, AuthPlan) \/ LeftOf(t, CreatePlan)
           Answered == {"granted", "requested", "scopes"} \subseteq DOMAIN held /\ held.requested \subseteq Expanded(held.scopes)
<1>1. /\ Sequence(todo) /\ todo # <<>> /\ result = "none" /\ UNCHANGED <<command, given>>
      /\ Planning(todo) /\ Tokens
      /\ Len(todo) <= 6 /\ command = "store-auth" => Knows("requested")
      /\ Len(todo) <= 3 => Answered
      /\ Len(todo) <= 2 => server.stored >= held.granted
  BY DEF PlanIsSound, Taken, Planned, Same, Granted, Well
<1>2. \/ Len(todo) = 8 /\ Head(todo) = "terminal"
      \/ Len(todo) = 7 /\ Head(todo) = "scopes"
      \/ Len(todo) \in 5..6 /\ Head(todo) \in {"callback-port", "approval", "instance"}
      \/ Len(todo) = 4 /\ Head(todo) \in {"exchange-code", "create-store"}
      \/ Len(todo) = 3 /\ Head(todo) = "keep-credential"
      \/ Len(todo) = 2 /\ Head(todo) = "index"
      \/ Len(todo) = 1 /\ Head(todo) = "keep-entry"
  BY <1>1, AuthSteps
<1>3. Len(Tail(todo)) = Len(todo) - 1 /\ Len(<<>>) = 0 /\ 1 \in DOMAIN todo /\ Head(todo) = todo[1]
  BY <1>1, FrontOfPlan
<1>a. /\ Len(todo) \in 1..8 /\ Head(todo) \notin Quits
      /\ Len(todo) \in {1, 3, 4, 7} => Head(todo) \in Turns
      /\ Head(todo) = "scopes" => Len(todo) = 7
      /\ Head(todo) \in {"exchange-code", "create-store"} => Len(todo) = 4
      /\ Head(todo) = "keep-credential" => Len(todo) = 3
      /\ Head(todo) = "keep-entry" => Len(todo) = 1
  BY <1>2 DEF Quits, Turns
<1>b. /\ todo' = Tail(todo) => Len(todo') = Len(todo) - 1
      /\ todo' = todo => Len(todo') = Len(todo)
  BY <1>3
<1>4. todo' \in {todo, <<>>, Tail(todo)}
  <2>1. Head(todo) \notin Rewriting
    BY <1>2 DEF Rewriting
  <2>2. ~Alters
    BY <2>1 DEF Alters, LoadCredential, ResolveSource, PluginNames, InstalledPlugins, NpmFails, DropPlugin,
       DetectInstall, NotifyAndRefresh, At, Rewriting
  <2>3. QED
    BY <2>2, PlanGoesOn
<1>5. Planning(todo')
  <2>1. Sequence(AuthPlan) /\ Sequence(CreatePlan)
    BY DEF AuthPlan, CreatePlan, Sequence
  <2>2. ASSUME NEW plan, Sequence(plan), LeftOf(todo, plan)
        PROVE  LeftOf(todo', plan)
    BY <1>1, <1>4, <2>2, LeftGoesOn
  <2>3. QED
    BY <1>1, <2>1, <2>2
<1>6. ASSUME Tokens',
             result' \in {"none", "ok"} /\ Len(todo') <= 6 /\ command = "store-auth" => Knows("requested")',
             result' \in {"none", "ok"} /\ Len(todo') <= 3 => Answered',
             result' \in {"none", "ok"} /\ Len(todo') <= 2 => server'.stored >= held'.granted,
             result' = "ok" => "s" \in server'.index /\ held'.requested \subseteq Expanded(server'.scopes)
      PROVE  Granted'
  BY <1>1, <1>5, <1>6 DEF Granted, Well
<1> HIDE DEF Planning
<1>7. ASSUME Answered, {"granted", "requested", "scopes"} \subseteq DOMAIN held',
             held'.requested = held.requested, held'.scopes = held.scopes
      PROVE  Answered'
  BY <1>7
<1>8. ASSUME Tokens', \A k \in {"granted", "requested", "scopes"} : k \in DOMAIN held => k \in DOMAIN held' /\ held'[k] = held[k],
             \/ server'.stored >= server.stored /\ server'.stored \in Nat
             \/ Len(todo) > 3,
             \/ todo' = todo /\ result' = "none"
             \/ todo' = Tail(todo) /\ result' = "none" /\ Len(todo) \notin {3, 4, 7, 1}
             \/ result' \notin {"none", "ok"}
      PROVE  Granted'
  <2>1. result' \in {"none", "ok"} => result' = "none"
    BY <1>8
  <2>a. result' \in {"none", "ok"} =>
          Len(todo') = Len(todo) \/ (Len(todo') = Len(todo) - 1 /\ Len(todo) # 3 /\ Len(todo) # 4 /\ Len(todo) # 7)
    <3>1. result' \in {"none", "ok"} => todo' = todo \/ (todo' = Tail(todo) /\ Len(todo) \notin {3, 4, 7, 1})
      BY <1>8
    <3>2. QED
      BY <1>b, <3>1
  <2>b. ASSUME NEW n \in 1..8, NEW m, m = n \/ (m = n - 1 /\ n # 3 /\ n # 4 /\ n # 7)
        PROVE  (m <= 6 => n <= 6) /\ (m <= 3 => n <= 3) /\ (m <= 2 => n <= 2)
    BY <2>b
  <2>c. result' \in {"none", "ok"} =>
          /\ Len(todo') <= 6 => Len(todo) <= 6
          /\ Len(todo') <= 3 => Len(todo) <= 3
          /\ Len(todo') <= 2 => Len(todo) <= 2
    BY <1>a, <2>a, <2>b
  <2>2. result' \in {"none", "ok"} /\ Len(todo') <= 6 /\ command = "store-auth" => Knows("requested")'
    <3>1. result' \in {"none", "ok"} /\ Len(todo') <= 6 => Len(todo) <= 6
      BY <2>c
    <3>2. QED
      BY <1>1, <1>8, <3>1 DEF Knows
  <2>3. result' \in {"none", "ok"} /\ Len(todo') <= 3 => Len(todo) <= 3
    BY <2>c
  <2>4. result' \in {"none", "ok"} /\ Len(todo') <= 2 => Len(todo) <= 2
    BY <2>c
  <2>5. result' \in {"none", "ok"} /\ Len(todo') <= 3 => Answered'
    BY <1>1, <1>8, <2>3
  <2>6. ASSUME result' \in {"none", "ok"}, Len(todo') <= 2
        PROVE  server'.stored >= held'.granted
    <3>1. Len(todo) <= 2 /\ "granted" \in DOMAIN held /\ server.stored >= held.granted
      BY <1>1, <1>2, <2>4, <2>6
    <3>2. server.stored \in Nat /\ held.granted \in Nat /\ held'.granted = held.granted
      BY <1>1, <1>8, <3>1 DEF Tokens, Knows
    <3>3. server'.stored >= server.stored /\ server'.stored \in Nat
      BY <1>8, <3>1, <1>2
    <3>4. QED
      BY <3>1, <3>2, <3>3
  <2>7. QED
    BY <1>6, <1>8, <2>1, <2>2, <2>5, <2>6
<1> HIDE DEF Answered
<1>9. CASE Plain
  <2>1. /\ \A k \in {"granted", "requested", "scopes"} : (k \in DOMAIN held' <=> k \in DOMAIN held) /\ (k \in DOMAIN held => held'[k] = held[k])
        /\ server'.stored = server.stored /\ server'.issued = server.issued
        /\ {"stored", "issued", "index", "scopes"} \subseteq DOMAIN server'
    BY <1>1, <1>9 DEF Plain, Keeps, Services, Lessons, Tokens
  <2>2. Tokens' /\ server'.stored \in Nat /\ server'.stored >= server.stored
    BY <1>1, <2>1 DEF Tokens, Knows
  <2>3. \/ todo' = todo /\ result' = "none"
        \/ todo' = Tail(todo) /\ result' = "none" /\ Len(todo) \notin {3, 4, 7, 1}
        \/ result' \notin {"none", "ok"}
    BY <1>1, <1>a, <1>9 DEF Plain, GoesOn, Passes, Advances
  <2>4. QED
    BY <1>8, <2>1, <2>2, <2>3
<1>10. CASE Head(todo) = "scopes" /\ MergeScopes
  <2>1. /\ DOMAIN held' = DOMAIN held \union {"requested"}
        /\ Knows("granted") => held'.granted = held.granted
        /\ server' = server /\ todo' = Tail(todo) /\ result' = "none"
    BY <1>1, <1>10 DEF MergeScopes, Quiet, Pass, commandVars, Learn, Over, Only, Knows
  <2>2. Tokens' /\ Knows("requested")'
    BY <1>1, <2>1 DEF Tokens, Knows
  <2>3. Len(todo') = 6
    BY <1>a, <1>b, <1>10, <2>1
  <2>4. result' = "none"
    BY <2>1
  <2>5. QED
    BY <1>6, <2>2, <2>3, <2>4
<1>11. CASE Head(todo) = "exchange-code" /\ ExchangeCode
  <2>1. PICK scopes \in SUBSET Scopes :
          /\ held' = Over([granted |-> server.issued + 1, scopes |-> scopes], held)
          /\ IF held.requested \subseteq Expanded(scopes) THEN Pass ELSE Return("error")
    BY <1>11 DEF ExchangeCode
  <2>2. DOMAIN held' = DOMAIN held \union {"granted", "scopes"} /\ held'.granted = server.issued + 1
        /\ held'.scopes = scopes /\ (Knows("requested") => held'.requested = held.requested)
    BY <2>1 DEF Over, Knows
  <2>3. /\ server' = [server EXCEPT !.issued = @ + 1]
        /\ result' = "error" \/ (todo' = Tail(todo) /\ result' = "none" /\ held.requested \subseteq Expanded(scopes))
    BY <1>1, <1>11, <2>1 DEF ExchangeCode, Pass, Return, commandVars
  <2>4. Tokens'
    BY <1>1, <2>2, <2>3 DEF Tokens
  <2>5. Len(todo) = 4 /\ command = "store-auth" /\ Knows("requested")
    BY <1>1, <1>a, <1>3, <1>11 DEF PlanIsSound
  <2>6. result' # "error" => Answered' /\ Knows("requested")'
    BY <2>2, <2>3, <2>5 DEF Answered, Knows
  <2>7. result' # "error" => Len(todo') = 3 /\ result' = "none"
    BY <1>b, <2>3, <2>5
  <2>8. result' # "ok"
    BY <2>3
  <2>9. ~(result' \in {"none", "ok"} /\ Len(todo') <= 2)
    BY <2>7
  <2>10. QED
    BY <1>6, <2>4, <2>6, <2>8, <2>9
<1>12. CASE Head(todo) = "create-store" /\ CreateStore
  <2>1. DOMAIN held' = DOMAIN held \union {"granted", "scopes", "requested"} /\ held'.granted = server.issued + 1
        /\ held'.scopes = Scopes /\ held'.requested = Scopes
    BY <1>12 DEF CreateStore, Over
  <2>2. /\ server' = [server EXCEPT !.issued = @ + 1]
        /\ result' = "error" \/ (todo' = Tail(todo) /\ result' = "none")
    BY <1>1, <1>12 DEF CreateStore, Pass, Return, commandVars
  <2>3. Tokens'
    BY <1>1, <2>1, <2>2 DEF Tokens
  <2>4. Len(todo) = 4
    BY <1>a, <1>12
  <2>5. Answered' /\ Knows("requested")'
    BY <2>1 DEF Answered, Knows, Expanded
  <2>6. result' # "error" => Len(todo') = 3 /\ result' = "none"
    BY <1>b, <2>2, <2>4
  <2>7. result' # "ok"
    BY <1>1, <2>2
  <2>8. ~(result' \in {"none", "ok"} /\ Len(todo') <= 2)
    BY <2>6
  <2>9. QED
    BY <1>6, <2>3, <2>5, <2>7, <2>8
<1>13. CASE Head(todo) = "keep-credential" /\ KeepCredential
  <2>1. /\ held' = held /\ todo' = Tail(todo) /\ result' = "none"
        /\ server' = [server EXCEPT !.stored = held.granted, !.fresh = TRUE]
    BY <1>1, <1>13 DEF KeepCredential, Pass, commandVars
  <2>2. Len(todo) = 3 /\ Answered /\ "granted" \in DOMAIN held /\ (command = "store-auth" => Knows("requested"))
    <3>1. Len(todo) = 3 /\ 3 <= 3 /\ 3 <= 6
      BY <1>a, <1>13
    <3>2. QED
      BY <1>1, <3>1 DEF Answered
  <2>3. held.granted \in Nat
    BY <1>1, <2>2 DEF Tokens, Knows
  <2>4. Tokens' /\ server'.stored = held'.granted /\ held'.granted \in Nat
    BY <1>1, <2>1, <2>3 DEF Tokens, Knows
  <2>5. Answered' /\ (command = "store-auth" => Knows("requested")')
    BY <1>1, <2>1, <2>2 DEF Answered, Knows
  <2>6. QED
    BY <1>6, <2>1, <2>4, <2>5
<1>14. CASE Head(todo) = "keep-entry" /\ KeepEntry
  <2>1. /\ held' = held /\ Len(todo) = 1 /\ Answered /\ server.stored >= held.granted
        /\ command = "store-auth" => Knows("requested")
    <3>1. Len(todo) = 1 /\ 1 <= 3 /\ 1 <= 6 /\ 1 <= 2
      BY <1>a, <1>14
    <3>2. QED
      BY <1>1, <1>14, <3>1 DEF KeepEntry
  <2>2. CASE result' = "error"
    <3>1. \/ server' = [server EXCEPT !.index = held.index \union {"s"}, !.scopes = held.scopes]
          \/ server' = server
          \/ server' = [server EXCEPT !.stored = 0]
      BY <1>14 DEF KeepEntry
    <3>4. /\ {"stored", "issued", "index", "scopes"} \subseteq DOMAIN server'
          /\ server'.stored \in Nat /\ server'.issued \in Nat
      <4>1. /\ {"stored", "issued", "index", "scopes"} \subseteq DOMAIN server
            /\ server.stored \in Nat /\ server.issued \in Nat
        BY <1>1 DEF Tokens
      <4>2. CASE server' = [server EXCEPT !.index = held.index \union {"s"}, !.scopes = held.scopes]
        BY <4>1, <4>2
      <4>3. CASE server' = [server EXCEPT !.stored = 0]
        BY <4>1, <4>3
      <4>4. QED
        BY <3>1, <4>1, <4>2, <4>3
    <3>2. Tokens'
      BY <1>1, <2>1, <3>4 DEF Tokens, Knows
    <3>3. QED
      BY <1>6, <2>2, <3>2
  <2>3. CASE result' # "error"
    <3>1. /\ server' = [server EXCEPT !.index = held.index \union {"s"}, !.scopes = held.scopes]
          /\ Then
      BY <1>14, <2>3 DEF KeepEntry, Return
    <3>2. todo' = <<>> /\ result' = "ok"
      BY <2>1, <3>1 DEF Then, Return
    <3>3. Tokens' /\ server'.stored = server.stored /\ "s" \in server'.index /\ server'.scopes = held.scopes
      BY <1>1, <2>1, <3>1 DEF Tokens, Knows
    <3>4. held'.requested \subseteq Expanded(server'.scopes) /\ Answered' /\ (command = "store-auth" => Knows("requested")')
      BY <2>1, <3>3 DEF Answered, Knows
    <3>5. QED
      BY <1>6, <2>1, <3>2, <3>3, <3>4
  <2>4. QED
    BY <2>2, <2>3
<1>15. CASE OthersTell
  <2>1. UNCHANGED <<todo, result, held>> /\ (server' = server \/ OperationRuns \/ OtherPlugins \/ OtherRefreshes)
    BY <1>15, OthersTellLittle
  <2>2. /\ server'.issued \in Nat /\ server'.stored \in Nat /\ server'.stored >= server.stored
        /\ {"stored", "issued", "index", "scopes"} \subseteq DOMAIN server'
    <3>1. CASE OperationRuns
      BY <1>1, <3>1 DEF OperationRuns, Tokens
    <3>2. CASE OtherPlugins
      BY <1>1, <3>2, OnlyPlugins DEF Tokens
    <3>3. CASE OtherRefreshes
      BY <1>1, <3>3 DEF OtherRefreshes, Tokens
    <3>4. QED
      BY <1>1, <2>1, <3>1, <3>2, <3>3 DEF Tokens
  <2>3. Tokens'
    BY <1>1, <2>1, <2>2 DEF Tokens, Knows
  <2>4. QED
    BY <1>1, <1>8, <2>1, <2>2, <2>3
<1>16. QED
  BY <1>2, <1>9, <1>10, <1>11, <1>12, <1>13, <1>14, <1>15 DEF Tells, Telling, ToolsTell, ConfigurationTells,
     AdminTells, ScaffoldTells, HydrogenTells, StoresTell, Undone

(* Granted is kept by every step.                                          *)
LEMMA GrantedGoesOn ==
  ASSUME PlanIsSound, Granted, Taken, Tells
  PROVE  Granted'
<1>1. CASE command = "store-info"
  BY <1>1, InfoGranted
<1>2. CASE command \in {"store-auth", "store-create"}
  BY <1>2, AuthGranted
<1>3. CASE command \notin {"store-info", "store-auth", "store-create"}
  <2>1. command' = command /\ ~Knows("granted")'
    BY <1>3, GrantedTo DEF Taken, Same
  <2>2. QED
    BY <1>3, <2>1 DEF Granted
<1>4. QED
  BY <1>1, <1>2, <1>3

-----------------------------------------------------------------------------
(* What the commands of the plugins do.                                    *)

(* A run of steps that needs none before it.                               *)
Block(t) ==
  /\ Sequence(t) /\ Names(t) \subseteq PluginSteps \ Firsts
  /\ InTurn(t)
  /\ 1 \in DOMAIN t => \A before : Follows(t[1], before)

(* Two of them are one.                                                    *)
LEMMA BlocksJoin ==
  ASSUME NEW p, NEW t, Block(p), Block(t)
  PROVE  Block(p \o t)
<1> DEFINE r == p \o t
<1>1. /\ Sequence(r) /\ Len(r) = Len(p) + Len(t) /\ Len(p) \in Nat /\ Len(t) \in Nat
      /\ \A i \in 1..Len(p) : r[i] = p[i]
      /\ \A i \in 1..Len(t) : r[Len(p) + i] = t[i]
      /\ DOMAIN p = 1..Len(p) /\ DOMAIN t = 1..Len(t) /\ DOMAIN r = 1..(Len(p) + Len(t))
  BY DEF Block, Sequence
<1> HIDE DEF r
<1>2. ASSUME NEW i \in DOMAIN r, i > Len(p)
      PROVE  /\ i - Len(p) \in DOMAIN t /\ r[i] = t[i - Len(p)]
             /\ i > Len(p) + 1 => r[i - 1] = t[(i - Len(p)) - 1] /\ i - Len(p) > 1
  <2>1. i - Len(p) \in 1..Len(t) /\ Len(p) + (i - Len(p)) = i
    BY <1>1, <1>2
  <2>2. i > Len(p) + 1 => (i - Len(p)) - 1 \in 1..Len(t) /\ Len(p) + ((i - Len(p)) - 1) = i - 1
    BY <1>1, <1>2
  <2>3. QED
    BY <1>1, <2>1, <2>2
<1>3. ASSUME NEW i \in DOMAIN r
      PROVE  /\ r[i] \in PluginSteps \ Firsts
             /\ r[i] = "record-plugin" => Installs \/ command = "plugins-link"
  <2>1. CASE i <= Len(p)
    <3>1. i \in DOMAIN p /\ r[i] = p[i]
      BY <1>1, <1>3, <2>1
    <3>2. QED
      BY <3>1 DEF Block, Names, InTurn
  <2>2. CASE i > Len(p)
    <3>1. i - Len(p) \in DOMAIN t /\ r[i] = t[i - Len(p)]
      BY <1>2, <1>3, <2>2
    <3>2. QED
      BY <3>1 DEF Block, Names, InTurn
  <2>3. QED
    BY <1>1, <1>3, <2>1, <2>2
<1>4. ASSUME NEW i \in DOMAIN r, i > 1
      PROVE  Follows(r[i], r[i - 1])
  <2>1. CASE i <= Len(p)
    <3>1. i \in DOMAIN p /\ r[i] = p[i] /\ r[i - 1] = p[i - 1]
      BY <1>1, <1>4, <2>1
    <3>2. QED
      BY <1>4, <3>1 DEF Block, InTurn
  <2>2. CASE i = Len(p) + 1
    <3>1. 1 \in DOMAIN t /\ r[i] = t[1]
      <4>1. 1 \in 1..Len(t)
        BY <1>1, <1>4, <2>2
      <4>2. QED
        BY <1>1, <2>2, <4>1
    <3>2. QED
      BY <3>1 DEF Block
  <2>3. CASE i > Len(p) + 1
    <3>1. i - Len(p) \in DOMAIN t /\ r[i] = t[i - Len(p)] /\ r[i - 1] = t[(i - Len(p)) - 1] /\ i - Len(p) > 1
      BY <1>1, <1>2, <1>4, <2>3
    <3>2. QED
      BY <3>1 DEF Block, InTurn
  <2>4. QED
    BY <1>1, <1>4, <2>1, <2>2, <2>3
<1>5. ASSUME NEW i \in DOMAIN r, NEW k \in 1..2, NEW x, NEW y,
             \A s \in {p, t} : \A j \in DOMAIN s : s[j] = x => j + k \in DOMAIN s /\ s[j + k] = y,
             r[i] = x
      PROVE  i + k \in DOMAIN r /\ r[i + k] = y
  <2>1. CASE i <= Len(p)
    <3>1. i \in DOMAIN p /\ p[i] = x
      BY <1>1, <1>5, <2>1
    <3>2. i + k \in 1..Len(p) /\ p[i + k] = y
      BY <1>1, <1>5, <3>1
    <3>3. QED
      BY <1>1, <3>2
  <2>2. CASE i > Len(p)
    <3>1. i - Len(p) \in DOMAIN t /\ t[i - Len(p)] = x
      BY <1>2, <1>5, <2>2
    <3>2. (i - Len(p)) + k \in 1..Len(t) /\ t[(i - Len(p)) + k] = y
      BY <1>1, <1>5, <3>1
    <3>3. Len(p) + ((i - Len(p)) + k) = i + k /\ i + k \in DOMAIN r
      BY <1>1, <1>5, <3>2
    <3>4. QED
      BY <1>1, <3>2, <3>3
  <2>3. QED
    BY <1>1, <1>5, <2>1, <2>2
<1>6. ASSUME NEW i \in DOMAIN r
      PROVE  /\ r[i] = "npm" /\ command = "plugins-reset" => i + 2 \in DOMAIN r /\ r[i + 2] = "record-plugin"
             /\ r[i] = "drop-plugin" => i + 1 \in DOMAIN r /\ r[i + 1] = "remove-artifacts"
  <2>1. \A s \in {p, t} : \A j \in DOMAIN s : s[j] = "drop-plugin" => j + 1 \in DOMAIN s /\ s[j + 1] = "remove-artifacts"
    BY DEF Block, InTurn
  <2>2. command = "plugins-reset" =>
          \A s \in {p, t} : \A j \in DOMAIN s : s[j] = "npm" => j + 2 \in DOMAIN s /\ s[j + 2] = "record-plugin"
    BY DEF Block, InTurn
  <2>3. 1 \in 1..2 /\ 2 \in 1..2
    OBVIOUS
  <2>4. QED
    BY <1>5, <1>6, <2>1, <2>2, <2>3
<1>7. 1 \in DOMAIN r => \A before : Follows(r[1], before)
  <2>1. CASE Len(p) = 0
    <3>1. 1 \in DOMAIN r => 1 \in DOMAIN t /\ r[1] = t[1]
      <4>1. 1 \in DOMAIN r => 1 \in 1..Len(t) /\ Len(p) + 1 = 1
        BY <1>1, <2>1
      <4>2. QED
        BY <1>1, <4>1
    <3>2. QED
      BY <3>1 DEF Block
  <2>2. CASE Len(p) # 0
    <3>1. 1 \in DOMAIN p /\ r[1] = p[1]
      BY <1>1, <2>2
    <3>2. QED
      BY <3>1 DEF Block
  <2>3. QED
    BY <2>1, <2>2
<1>8. InTurn(r) /\ Names(r) \subseteq PluginSteps \ Firsts
  BY <1>3, <1>4, <1>6 DEF InTurn, Names, Firsts
<1>9. QED
  BY <1>1, <1>7, <1>8 DEF Block, r

(* The steps for one plugin, or for none, are such runs.                   *)
LEMMA BlocksOfOne ==
  /\ Block(<<>>) /\ Block(<<"exits">>) /\ Block(<<"clear-registry">>)
  /\ Block(<<"clear-registry">> \o <<"remove-all">>)
  /\ command # "plugins-reset" => Block(<<"npm">>)
  /\ Installs \/ command = "plugins-link" => Block(OneInstall)
  /\ command = "plugins-link" => Block(<<"load-registry", "record-plugin">>)
  /\ ~Installs => Block(OneRemoval)
<1> USE DEF Block, Sequence, Names, InTurn, Follows, Firsts, PluginSteps
<1>1. Block(<<>>) /\ Block(<<"exits">>) /\ Block(<<"clear-registry">>)
  OBVIOUS
<1>2. Block(<<"clear-registry">> \o <<"remove-all">>)
  OBVIOUS
<1>3. command # "plugins-reset" => Block(<<"npm">>)
  OBVIOUS
<1>4. Installs \/ command = "plugins-link" => Block(OneInstall)
  BY DEF OneInstall
<1>5. command = "plugins-link" => Block(<<"load-registry", "record-plugin">>)
  BY DEF Installs
<1>6. ~Installs => Block(OneRemoval)
  BY DEF OneRemoval
<1>7. QED
  BY <1>1, <1>2, <1>3, <1>4, <1>5, <1>6

(* The steps for each plugin, one block after another, are a block.        *)
LEMMA BlocksOfEach ==
  ASSUME NEW S, NEW steps, Block(steps)
  PROVE  Block(Each(S, steps))
BY BlocksJoin, BlocksOfOne DEF Each

(* No step makes a registry, or does away with one.                        *)
LEMMA RegistryStays ==
  ASSUME Tells, NEW k \in {"records", "artifacts"}
  PROVE  k \in DOMAIN server' => k \in DOMAIN server
<1> DEFINE Same1 == k \in DOMAIN server' => k \in DOMAIN server
<1>1. server' = server => Same1
  OBVIOUS
<1>2. DOMAIN server' = DOMAIN server => Same1
  OBVIOUS
<1>3. ASSUME NEW f, server' = Over(f, server), k \notin DOMAIN f
      PROVE  Same1
  BY <1>3 DEF Over
<1> SUFFICES Same1
  OBVIOUS
<1> HIDE DEF Same1
<1>4. CASE Plain
  BY <1>4 DEF Plain, Keeps, Services, Same1
<1>5. CASE ToolsTell
  BY <1>1, <1>2, <1>5 DEF ToolsTell, PluginNames, InstalledPlugins, NpmWorks, NpmFails, LoadRegistry,
     RecordPlugin, DropPlugin, RemoveArtifacts, ClearRegistry, RemoveAllArtifacts, DetectInstall,
     DownloadRelease, VerifyChecksum, ReplaceExecutable, NotifyAndRefresh, CreateArchive, FinishArchive, Step,
     Replace, Quiet, OnServer, OnDisk
<1>6. CASE ConfigurationTells
  BY <1>1, <1>2, <1>6 DEF ConfigurationTells, ReadEnvironment, ParseApp, DiscoverExtensions,
     DiscoverWebs, FindDuplicates, Diagnoses, ReportValidity, ChooseNamed, AskForConfig, ChooseValidated,
     ChoosePulled, Chooses, MapLocal, WriteConfig, Replace, Quiet, OnDisk
<1>7. CASE AdminTells
  <2>1. \A v : k \notin DOMAIN Only("operation", v)
    BY DEF Only
  <2>2. GraphiqlServes => Same1
    BY <1>1, <1>2 DEF GraphiqlServes, ReadRequest, TakeClient, MakeClient, CheckPolicy, ServeDocument,
       StopServing, Moves, Quiet
  <2>3. RunOperation => Same1
    BY <1>3, <2>1 DEF RunOperation, Mutation
  <2>4. CancelOperation => Same1
    BY <1>1, <1>2, <1>3, <2>1 DEF CancelOperation, Mutation
  <2>5. QED
    <3>1. Poll \/ Download \/ ReportResult \/ Bind => server' = server
      BY DEF Poll, Download, ReportResult, Bind, Replace, Step, Quiet, OnDisk
    <3>2. QED
      BY <1>1, <1>7, <2>2, <2>3, <2>4, <3>1 DEF AdminTells
<1>8. CASE ScaffoldTells
  <2>1. CreateInitApp => Same1
    BY <1>1, <1>2, <1>3 DEF CreateInitApp, Mutation, Only
  <2>2. QED
    <3>1. CloneApp \/ MakeDirectory \/ InitGit \/ Unstage \/ RollBack \/ LinkDirectory \/ CloneTheme \/ RemoveOrigin
            => server' = server
      BY DEF CloneApp, MakeDirectory, InitGit, Unstage, RollBack, LinkDirectory, CloneTheme, RemoveOrigin,
         Replace, OnDisk, Quiet
    <3>2. QED
      BY <1>1, <1>8, <2>1, <3>1 DEF ScaffoldTells
<1>9. CASE HydrogenTells
  <2>1. CreateStorefront => Same1
    BY DEF CreateStorefront, Same1
  <2>2. ResolveSource \/ RouteNames \/ ConfirmReplace \/ WriteImports \/ WriteRoute => server' = server
    BY DEF ResolveSource, RouteNames, ConfirmReplace, WriteImports, WriteRoute, Quiet
  <2>3. QED
    BY <1>1, <1>9, <2>1, <2>2 DEF HydrogenTells
<1>10. CASE StoresTell
  BY <1>1, <1>2, <1>10 DEF StoresTell, LoadCredential, Refresh, KeepRefreshed, MergeScopes, ExchangeCode,
     CreateStore, KeepCredential, KeepEntry, LoadPage, SkipDenied, Quiet
<1>11. CASE OthersTell
  BY <1>1, <1>2, <1>11, OthersTellLittle, OnlyPlugins DEF OperationRuns, OtherRefreshes
<1>12. QED
  BY <1>4, <1>5, <1>6, <1>7, <1>8, <1>9, <1>10, <1>11 DEF Tells, Telling, Same1

(* What is left when steps are dropped at the front is still in turn.      *)
LEMMA StillInTurn ==
  ASSUME NEW s, NEW k \in Nat, Sequence(s), InTurn(s), k >= 2, k <= Len(s) + 1,
         NEW t, Sequence(t), Len(t) = Len(s) - k + 1,
         \A i \in 1..Len(t) : t[i] = s[i + k - 1]
  PROVE  /\ InTurn(t) /\ Names(t) \subseteq Names(s)
         /\ t # <<>> => k \in DOMAIN s /\ t[1] = s[k] /\ t[1] \notin Firsts /\ Follows(t[1], s[k - 1])
<1>1. Len(s) \in Nat /\ DOMAIN s = 1..Len(s) /\ Len(t) \in Nat /\ DOMAIN t = 1..Len(t)
  BY DEF Sequence
<1>2. ASSUME NEW i \in DOMAIN t
      PROVE  i + k - 1 \in DOMAIN s /\ t[i] = s[i + k - 1] /\ i + k - 1 > 1
  BY <1>1, <1>2
<1>3. ASSUME NEW i \in DOMAIN t, NEW m \in 1..2, i + k - 1 + m \in DOMAIN s
      PROVE  i + m \in DOMAIN t /\ t[i + m] = s[i + k - 1 + m]
  <2>a. i \in 1..Len(t) /\ i + k - 1 + m \in 1..Len(s)
    BY <1>1, <1>3
  <2>b. i + k - 1 + m <= Len(s) /\ i \in Nat /\ i >= 1
    BY <1>1, <2>a
  <2>1. i + m \in 1..Len(t) /\ (i + m) + k - 1 = i + k - 1 + m
    BY <1>1, <2>b
  <2>2. QED
    BY <1>1, <2>1
<1>4. ASSUME NEW i \in DOMAIN t
      PROVE  /\ t[i] \notin Firsts
             /\ t[i] = "record-plugin" => Installs \/ command = "plugins-link"
             /\ Follows(t[i], s[i + k - 2])
  <2>1. i + k - 1 \in DOMAIN s /\ t[i] = s[i + k - 1] /\ i + k - 1 > 1 /\ (i + k - 1) - 1 = i + k - 2
    BY <1>1, <1>2, <1>4
  <2>2. Len(s) # 1
    BY <1>1, <2>1
  <2>3. QED
    BY <2>1, <2>2 DEF InTurn
<1>5. ASSUME NEW i \in DOMAIN t, i > 1
      PROVE  Follows(t[i], t[i - 1])
  <2>1. i - 1 \in 1..Len(t) /\ (i - 1) + k - 1 = i + k - 2
    BY <1>1, <1>5
  <2>2. t[i - 1] = s[i + k - 2]
    BY <2>1
  <2>3. QED
    BY <1>4, <1>5, <2>2
<1>6. ASSUME NEW i \in DOMAIN t
      PROVE  /\ t[i] = "npm" /\ command = "plugins-reset" => i + 2 \in DOMAIN t /\ t[i + 2] = "record-plugin"
             /\ t[i] = "drop-plugin" => i + 1 \in DOMAIN t /\ t[i + 1] = "remove-artifacts"
  <2>1. 1 \in 1..2 /\ 2 \in 1..2
    OBVIOUS
  <2>2. /\ t[i] = "npm" /\ command = "plugins-reset" =>
             i + k - 1 + 2 \in DOMAIN s /\ s[i + k - 1 + 2] = "record-plugin"
        /\ t[i] = "drop-plugin" => i + k - 1 + 1 \in DOMAIN s /\ s[i + k - 1 + 1] = "remove-artifacts"
    BY <1>2, <1>6 DEF InTurn
  <2>3. QED
    BY <1>3, <1>6, <2>1, <2>2
<1>7. InTurn(t)
  BY <1>4, <1>5, <1>6 DEF InTurn, Firsts
<1>8. Names(t) \subseteq Names(s)
  BY <1>2 DEF Names
<1>9. ASSUME t # <<>>
      PROVE  k \in DOMAIN s /\ t[1] = s[k] /\ t[1] \notin Firsts /\ Follows(t[1], s[k - 1])
  <2>1. Len(t) # 0
    BY <1>9 DEF Sequence
  <2>2. 1 \in DOMAIN t /\ 1 + k - 1 = k /\ 1 + k - 2 = k - 1
    BY <1>1, <2>1
  <2>3. QED
    BY <1>2, <1>4, <2>2
<1>10. QED
  BY <1>7, <1>8, <1>9

(* The steps that are left of such a plan when the first are dropped.      *)
LEMMA InTurnAfter ==
  ASSUME Sequence(todo), InTurn(todo), UNCHANGED command, NEW k \in Nat, k >= 2, k <= Len(todo) + 1,
         (k = 2 /\ todo' = Tail(todo)) \/ todo' = SubSeq(todo, k, Len(todo))
  PROVE  /\ Sequence(todo') /\ InTurn(todo)' /\ Names(todo') \subseteq Names(todo)
         /\ todo' # <<>> => /\ k \in DOMAIN todo /\ Head(todo') = todo[k] /\ Head(todo') \notin Firsts
                            /\ Follows(Head(todo'), todo[k - 1])
<1>1. /\ Sequence(todo') /\ Len(todo') = Len(todo) - k + 1
      /\ \A i \in 1..Len(todo') : todo'[i] = todo[i + k - 1]
  <2>1. CASE todo' = SubSeq(todo, k, Len(todo))
    BY <2>1 DEF Sequence
  <2>2. CASE k = 2 /\ todo' = Tail(todo)
    BY <2>2 DEF Sequence
  <2>3. QED
    BY <2>1, <2>2
<1>2. ASSUME NEW t, Sequence(t), Len(t) = Len(todo) - k + 1,
             \A i \in 1..Len(t) : t[i] = todo[i + k - 1]
      PROVE  /\ InTurn(t) /\ Names(t) \subseteq Names(todo)
             /\ t # <<>> => k \in DOMAIN todo /\ t[1] = todo[k] /\ t[1] \notin Firsts /\ Follows(t[1], todo[k - 1])
  BY <1>2, StillInTurn
<1>3. /\ InTurn(todo') /\ Names(todo') \subseteq Names(todo)
      /\ todo' # <<>> => /\ k \in DOMAIN todo /\ todo'[1] = todo[k] /\ todo'[1] \notin Firsts
                         /\ Follows(todo'[1], todo[k - 1])
  BY <1>1, <1>2
<1>4. InTurn(todo)'
  BY <1>3 DEF InTurn, Follows, Installs
<1>5. todo' # <<>> => Head(todo') = todo'[1]
  BY <1>1, FrontOfPlan
<1>6. QED
  BY <1>1, <1>3, <1>4, <1>5

(* What a step must see to for the next one.                               *)
SeesTo(s) ==
  /\ s = "load-registry" =>
       /\ "registry" \in DOMAIN held'
       /\ \A p \in Plugins : <<p, "installed">> \in held'.registry => p \in Accounted'
  /\ s \in {"npm", "load-registry"} /\ Installs => Head(held'.plugins) \in Accounted'
  /\ s = "drop-plugin" => (<<Head(held'.plugins), "installed">> \in server'.records => Head(held'.plugins) \in server'.raced)
  /\ s = "clear-registry" => \A p \in Plugins : <<p, "installed">> \in server'.records => p \in server'.raced
StaysBacked ==
  /\ {"records", "artifacts", "raced"} \subseteq DOMAIN server'
  /\ \A p \in Plugins : <<p, "installed">> \in server'.records => p \in Accounted'

(* Where the plan goes on after a step that has seen to what comes after   *)
(* it, the registry is kept.                                               *)
LEMMA NextIsReady ==
  ASSUME RegistryKept, command \in PluginCommands, UNCHANGED command, StaysBacked,
         NEW k \in Nat, k >= 2, k <= Len(todo) + 1,
         (k = 2 /\ todo' = Tail(todo)) \/ todo' = SubSeq(todo, k, Len(todo)),
         todo' # <<>> => "plugins" \in DOMAIN held',
         SeesTo(todo[k - 1])
  PROVE  RegistryKept'
<1>1. Sequence(todo) /\ InTurn(todo) /\ Names(todo) \subseteq PluginSteps
  BY DEF RegistryKept
<1>2. /\ Sequence(todo') /\ InTurn(todo)' /\ Names(todo') \subseteq Names(todo)
      /\ todo' # <<>> => /\ Head(todo') \notin Firsts
                         /\ Follows(Head(todo'), todo[k - 1])
  BY <1>1, InTurnAfter
<1>3. ASSUME todo' # <<>>
      PROVE  Ready(Head(todo))'
  <2> DEFINE h == Head(todo')
             b == todo[k - 1]
  <2>1. h \notin Firsts /\ Follows(h, b) /\ SeesTo(b) /\ "plugins" \in DOMAIN held'
    BY <1>2, <1>3
  <2>2. command' = command
    OBVIOUS
  <2> HIDE DEF h, b
  <2>3. h = Head(todo')
    BY DEF h
  <2>4. h \in {"load-registry", "record-plugin"} /\ Installs => Head(held'.plugins) \in Accounted'
    BY <2>1 DEF Follows, SeesTo
  <2>5. h \in {"record-plugin", "drop-plugin"} =>
          /\ "registry" \in DOMAIN held'
          /\ \A p \in Plugins : <<p, "installed">> \in held'.registry => p \in Accounted'
    BY <2>1 DEF Follows, SeesTo
  <2>6. h = "remove-artifacts" => (<<Head(held'.plugins), "installed">> \in server'.records => Head(held'.plugins) \in server'.raced)
    BY <2>1 DEF Follows, SeesTo
  <2>7. h = "remove-all" => \A p \in Plugins : <<p, "installed">> \in server'.records => p \in server'.raced
    BY <2>1 DEF Follows, SeesTo
  <2>8. QED
    BY <2>1, <2>2, <2>3, <2>4, <2>5, <2>6, <2>7 DEF Ready, Knows, Backed, Installs, Plugin
<1>4. QED
  BY <1>1, <1>2, <1>3 DEF RegistryKept, StaysBacked, Backed

(* The plan of what was named, or is installed.                            *)
LEMMA PluginsPlanned ==
  ASSUME Sequence(todo), todo # <<>>, Len(todo) = 1, command \in PluginCommands, UNCHANGED command,
         PluginNames \/ InstalledPlugins, StaysBacked,
         Head(todo) = "named-plugins" => command \notin {"plugins-reset", "plugins-update"},
         Head(todo) = "installed-plugins" => command \in {"plugins-reset", "plugins-update"}
  PROVE  RegistryKept'
<1>1. Block(Tail(todo))
  <2>1. Sequence(Tail(todo)) /\ Len(Tail(todo)) = 0
    BY FrontOfPlan
  <2>a. DOMAIN Tail(todo) = 1..0
    BY <2>1 DEF Sequence
  <2>2. \A i : i \notin DOMAIN Tail(todo)
    BY <2>a
  <2>3. Names(Tail(todo)) = {} /\ InTurn(Tail(todo))
    BY <2>2 DEF Names, InTurn
  <2>4. QED
    BY <2>1, <2>2, <2>3 DEF Block
<1>2. ASSUME NEW p, Block(p)
      PROVE  /\ Block(p \o Tail(todo) \o <<"exits">>)
             /\ Block(p \o <<"exits">>)
  BY <1>1, <1>2, BlocksJoin, BlocksOfOne
<1>3. Block(todo') /\ "plugins" \in DOMAIN held'
  <2>1. ASSUME NEW S, Deal(S)
        PROVE  "plugins" \in DOMAIN held'
    BY <2>1 DEF Deal, Over
  <2>2. ASSUME NEW S, NEW steps, For(S, steps), Block(steps)
        PROVE  Block(todo') /\ "plugins" \in DOMAIN held'
    <3>1. Block(Each(S, steps))
      BY <2>2, BlocksOfEach
    <3>2. QED
      BY <1>2, <2>1, <2>2, <3>1 DEF For
  <2>3. CASE PluginNames
    <3>1. Head(todo) = "named-plugins"
      BY <2>3 DEF PluginNames, At
    <3>2. CASE command = "plugins-install"
      BY <2>2, <2>3, <3>2, BlocksOfOne DEF PluginNames, Installs
    <3>3. CASE command = "plugins-link"
      <4>1. Block(<<>> \o <<"load-registry", "record-plugin">>)
        BY <3>3, BlocksJoin, BlocksOfOne
      <4>2. Block(<<"npm">> \o <<"load-registry", "record-plugin">>)
        BY <3>3, BlocksJoin, BlocksOfOne
      <4>3. QED
        BY <2>2, <2>3, <3>3, <4>1, <4>2 DEF PluginNames, Without
    <3>4. CASE command \notin {"plugins-install", "plugins-link"}
      <4>1. ~Installs
        BY <3>1, <3>4 DEF Installs
      <4>2. Block(OneRemoval)
        BY <4>1, BlocksOfOne
      <4>3. \E S : For(S, OneRemoval)
        BY <2>3, <3>4 DEF PluginNames
      <4>4. QED
        BY <2>2, <4>2, <4>3
    <3>5. QED
      BY <3>2, <3>3, <3>4
  <2>4. CASE InstalledPlugins
    <3>1. Head(todo) = "installed-plugins"
      BY <2>4 DEF InstalledPlugins, At
    <3>2. CASE command = "plugins-update"
      <4>1. Block(<<"npm">>)
        BY <3>2, BlocksOfOne
      <4>2. For(Installed, <<"npm">>)
        BY <2>4, <3>2 DEF InstalledPlugins
      <4>3. QED
        BY <2>2, <4>1, <4>2
    <3>3. CASE command # "plugins-update"
      <4>1. Installs
        BY <3>1, <3>3 DEF Installs
      <4>2. PICK q, r :
              /\ q \in {<<>>, <<"remove-all">>} /\ r \in {<<>>, Each(Installed, OneInstall)}
              /\ todo' = <<"clear-registry">> \o q \o r \o <<"exits">>
        BY <2>4, <3>3 DEF InstalledPlugins, Chosen
      <4>3. "plugins" \in DOMAIN held'
        BY <2>1, <2>4, <3>3 DEF InstalledPlugins
      <4>4. Block(<<"clear-registry">> \o q)
        <5>1. Block(<<"clear-registry">> \o <<>>)
          BY BlocksJoin, BlocksOfOne
        <5>2. QED
          BY <4>2, <5>1, BlocksOfOne
      <4>5. Block(r)
        BY <4>1, <4>2, BlocksOfOne, BlocksOfEach
      <4>6. Block(<<"clear-registry">> \o q \o r)
        BY <4>4, <4>5, BlocksJoin
      <4>7. QED
        BY <1>2, <4>2, <4>3, <4>6
    <3>4. QED
      BY <3>2, <3>3
  <2>5. QED
    BY <2>3, <2>4
<1>4. Sequence(todo') /\ Names(todo') \subseteq PluginSteps
  BY <1>3 DEF Block
<1>5. InTurn(todo)'
  BY <1>3 DEF Block, InTurn, Follows, Installs
<1>6. ASSUME todo' # <<>>
      PROVE  Ready(Head(todo))'
  <2>1. Head(todo') = todo'[1] /\ 1 \in DOMAIN todo'
    BY <1>4, <1>6, FrontOfPlan
  <2>2. todo'[1] \notin Firsts /\ \A before : Follows(todo'[1], before)
    BY <1>3, <2>1 DEF Block, Names
  <2>3. Follows(todo'[1], "exits")
    BY <2>2
  <2>4. QED
    BY <1>3, <2>1, <2>2, <2>3 DEF Ready, Follows, Knows, Installs
<1>7. QED
  BY <1>4, <1>5, <1>6 DEF RegistryKept, StaysBacked, Backed

(* RegistryKept is kept by every step.                                     *)
LEMMA RegistryGoesOn ==
  ASSUME PlanIsSound, RegistryKept, Taken, Tells
  PROVE  RegistryKept'
<1> USE DEF Accounted
<1>1. /\ Sequence(todo) /\ todo # <<>> /\ result = "none" /\ UNCHANGED command
      /\ "records" \in DOMAIN server' => "records" \in DOMAIN server
  BY RegistryStays DEF PlanIsSound, Taken, Planned, Same
<1>2. CASE command \notin PluginCommands
  BY <1>1, <1>2 DEF RegistryKept
<1>3. CASE command \in PluginCommands
  <2>1. /\ Names(todo) \subseteq PluginSteps /\ {"records", "artifacts", "raced"} \subseteq DOMAIN server
        /\ \A p \in Plugins : <<p, "installed">> \in server.records => p \in Accounted
        /\ InTurn(todo) /\ Ready(Head(todo))
    BY <1>1, <1>3 DEF RegistryKept, Backed
  <2>2. /\ Head(todo) = todo[1] /\ 1 \in DOMAIN todo /\ Len(todo) \in Nat \ {0} /\ Head(todo) \in PluginSteps
        /\ DOMAIN todo = 1..Len(todo)
    BY <1>1, <2>1, FrontOfPlan DEF Sequence
  <2>3. ASSUME StaysBacked, todo' = <<>>
        PROVE  RegistryKept'
    <3>1. Sequence(todo') /\ \A i : i \notin DOMAIN todo'
      BY <2>3 DEF Sequence
    <3>2. InTurn(todo)' /\ Names(todo') = {}
      BY <3>1 DEF InTurn, Names
    <3>3. QED
      BY <1>1, <2>3, <3>1, <3>2 DEF RegistryKept, StaysBacked, Backed
  <2>4. ASSUME StaysBacked, todo' = todo, Ready(Head(todo))'
        PROVE  RegistryKept'
    <3>1. InTurn(todo)'
      BY <1>1, <2>1, <2>4 DEF InTurn, Follows, Installs
    <3>2. QED
      BY <1>1, <2>1, <2>4, <3>1 DEF RegistryKept, StaysBacked, Backed
  <2>5. ASSUME StaysBacked, todo' = Tail(todo), Head(todo) \in Firsts \/ "plugins" \in DOMAIN held',
               SeesTo(Head(todo))
        PROVE  RegistryKept'
    <3>1. CASE Head(todo) \in Firsts
      <4>1. Len(todo) = 1
        BY <2>1, <2>2, <3>1 DEF InTurn
      <4>2. Sequence(todo') /\ Len(todo') = 0
        BY <1>1, <2>5, <4>1, FrontOfPlan
      <4>3. \A i : i \notin DOMAIN todo'
        <5>1. DOMAIN todo' = 1..0
          BY <4>2 DEF Sequence
        <5>2. QED
          BY <5>1
      <4>4. InTurn(todo)' /\ Names(todo') = {}
        BY <4>3 DEF InTurn, Names
      <4>5. ASSUME todo' # <<>> PROVE FALSE
        BY <4>2, <4>3, <4>5, FrontOfPlan
      <4>6. QED
        BY <1>1, <2>5, <4>2, <4>4, <4>5 DEF RegistryKept, StaysBacked, Backed
    <3>2. CASE Head(todo) \notin Firsts
      <4>1. 2 \in Nat /\ 2 >= 2 /\ 2 <= Len(todo) + 1 /\ 2 - 1 = 1
        BY <2>2
      <4>2. SeesTo(todo[2 - 1])
        BY <2>2, <2>5, <4>1
      <4>3. ASSUME NEW k \in Nat, k = 2, k >= 2, k <= Len(todo) + 1, SeesTo(todo[k - 1])
            PROVE  RegistryKept'
        BY <1>1, <1>3, <2>5, <3>2, <4>3, NextIsReady
      <4>4. QED
        BY <4>1, <4>2, <4>3
    <3>3. QED
      BY <3>1, <3>2
  <2>6. CASE Plain
    <3>1. /\ {"records", "artifacts", "raced"} \subseteq DOMAIN server'
          /\ server'.records = server.records /\ server'.artifacts = server.artifacts /\ server'.raced = server.raced
          /\ \A k \in {"plugins", "registry"} : (k \in DOMAIN held' <=> k \in DOMAIN held) /\ (k \in DOMAIN held => held'[k] = held[k])
      BY <2>1, <2>6 DEF Plain, Keeps, Services, Lessons
    <3>2. StaysBacked
      BY <2>1, <3>1 DEF StaysBacked
    <3>3. Head(todo) \notin Firsts => "plugins" \in DOMAIN held /\ "plugins" \in DOMAIN held' /\ held'.plugins = held.plugins
      BY <2>1, <3>1 DEF Ready, Knows
    <3>4. CASE todo' = todo
      <4>1. Ready(Head(todo))'
        BY <1>1, <2>1, <3>1, <3>3, <3>4 DEF Ready, Knows, Plugin, Backed, Installs, Firsts
      <4>2. QED
        BY <2>4, <3>2, <3>4, <4>1
    <3>5. CASE todo' = Tail(todo) /\ Head(todo) \notin Turns
      <4>1. SeesTo(Head(todo))
        BY <3>5 DEF SeesTo, Turns
      <4>2. QED
        BY <2>5, <3>2, <3>3, <3>5, <4>1
    <3>6. todo' = todo \/ todo' = <<>> \/ (todo' = Tail(todo) /\ Head(todo) \notin Turns)
      BY <2>6 DEF Plain, GoesOn, Passes, Advances
    <3>7. QED
      BY <2>3, <3>2, <3>4, <3>5, <3>6
  <2>7. CASE Head(todo) = "named-plugins" /\ PluginNames
    <3>1. server' = server /\ Len(todo) = 1 /\ command \notin {"plugins-reset", "plugins-update"}
      BY <2>1, <2>2, <2>7 DEF PluginNames, Quiet, InTurn, Firsts
    <3>2. StaysBacked
      BY <2>1, <3>1 DEF StaysBacked
    <3>3. QED
      BY <1>1, <1>3, <2>7, <3>1, <3>2, PluginsPlanned
  <2>8. CASE Head(todo) = "installed-plugins" /\ InstalledPlugins
    <3>1. server' = server /\ Len(todo) = 1 /\ command \in {"plugins-reset", "plugins-update"}
      BY <2>1, <2>2, <2>8 DEF InstalledPlugins, Quiet, InTurn, Firsts
    <3>2. StaysBacked
      BY <2>1, <3>1 DEF StaysBacked
    <3>3. QED
      BY <1>1, <1>3, <2>8, <3>1, <3>2, PluginsPlanned
  <2>9. CASE Head(todo) = "npm" /\ NpmWorks
    <3>1. /\ todo' = Tail(todo) /\ "plugins" \in DOMAIN held
          /\ \/ Installs /\ server' = [server EXCEPT !.artifacts = @ \union {Plugin}] /\ held' = held
             \/ ~Installs /\ server' = server /\ DOMAIN held' = DOMAIN held
      BY <2>1, <2>9 DEF NpmWorks, Pass, Installs, Ready, Knows, Firsts
    <3>2. StaysBacked /\ "plugins" \in DOMAIN held'
      BY <2>1, <3>1 DEF StaysBacked
    <3>3. SeesTo(Head(todo))
      BY <2>1, <2>9, <3>1 DEF SeesTo, Plugin
    <3>4. QED
      BY <2>5, <3>1, <3>2, <3>3
  <2>10. CASE Head(todo) = "npm" /\ NpmFails
    <3>1. server' = server /\ "plugins" \in DOMAIN held
      BY <2>1, <2>10 DEF NpmFails, Quiet, Ready, Knows, Firsts
    <3>2. StaysBacked
      BY <2>1, <3>1 DEF StaysBacked
    <3>3. CASE command \in {"plugins-install", "plugins-link"}
      BY <2>3, <2>10, <3>2, <3>3 DEF NpmFails, Return
    <3>4. CASE command = "plugins-reset"
      <4>1. DOMAIN held' = DOMAIN held /\ todo' = SubSeq(todo, 4, Len(todo))
        BY <2>10, <3>4 DEF NpmFails
      <4>2. 1 + 2 \in DOMAIN todo /\ todo[1 + 2] = "record-plugin"
        BY <2>1, <2>2, <2>10, <3>4 DEF InTurn
      <4>3. 4 \in Nat /\ 4 >= 2 /\ 4 <= Len(todo) + 1 /\ 4 - 1 = 1 + 2
        BY <2>2, <4>2
      <4>4. SeesTo(todo[4 - 1])
        BY <4>2, <4>3 DEF SeesTo
      <4>5. ASSUME NEW k \in Nat, k = 4, k >= 2, k <= Len(todo) + 1, SeesTo(todo[k - 1])
            PROVE  RegistryKept'
        BY <1>1, <1>3, <3>1, <3>2, <4>1, <4>5, NextIsReady
      <4>6. QED
        BY <4>3, <4>4, <4>5
    <3>5. CASE command \notin {"plugins-install", "plugins-link", "plugins-reset"}
      <4>1. DOMAIN held' = DOMAIN held /\ todo' = SubSeq(todo, 2, Len(todo))
        BY <2>10, <3>5 DEF NpmFails
      <4>3. 2 \in Nat /\ 2 >= 2 /\ 2 <= Len(todo) + 1 /\ 2 - 1 = 1
        BY <2>2
      <4>4. SeesTo(todo[2 - 1])
        BY <2>2, <2>10, <3>5, <4>3 DEF SeesTo, Installs
      <4>5. ASSUME NEW k \in Nat, k = 2, k >= 2, k <= Len(todo) + 1, SeesTo(todo[k - 1])
            PROVE  RegistryKept'
        BY <1>1, <1>3, <3>1, <3>2, <4>1, <4>5, NextIsReady
      <4>6. QED
        BY <4>3, <4>4, <4>5
    <3>6. QED
      BY <3>3, <3>4, <3>5
  <2>11. CASE Head(todo) = "load-registry" /\ LoadRegistry
    <3>1. /\ todo' = Tail(todo) /\ server' = server /\ "plugins" \in DOMAIN held
          /\ Learn("registry", server.records)
      BY <2>1, <2>11 DEF LoadRegistry, Pass, Quiet, Ready, Knows, Firsts
    <3>2. /\ "registry" \in DOMAIN held' /\ held'.registry = server.records
          /\ "plugins" \in DOMAIN held' /\ held'.plugins = held.plugins
      BY <3>1, Learning
    <3>3. StaysBacked
      BY <2>1, <3>1 DEF StaysBacked
    <3>4. SeesTo(Head(todo))
      BY <2>1, <2>11, <3>1, <3>2 DEF SeesTo, Ready, Plugin
    <3>5. QED
      BY <2>5, <3>1, <3>2, <3>3, <3>4
  <2>12. CASE Head(todo) = "record-plugin" /\ RecordPlugin
    <3>1. /\ todo' = Tail(todo) /\ "plugins" \in DOMAIN held /\ DOMAIN held' = DOMAIN held
          /\ server' = [server EXCEPT !.records =
                          held.registry \union {<<Plugin, IF command = "plugins-link" THEN "linked" ELSE "installed">>}]
      BY <2>1, <2>12 DEF RecordPlugin, Pass, Ready, Knows, Firsts
    <3>2. /\ \A p \in Plugins : <<p, "installed">> \in held.registry => p \in Accounted
          /\ Installs => Plugin \in Accounted
          /\ Installs \/ command = "plugins-link"
      BY <2>1, <2>2, <2>12 DEF Ready, Backed, InTurn
    <3>3. StaysBacked
      <4>1. server'.artifacts = server.artifacts /\ server'.raced = server.raced /\ {"records", "artifacts", "raced"} \subseteq DOMAIN server'
        BY <2>1, <3>1
      <4>2. ASSUME NEW p \in Plugins, <<p, "installed">> \in server'.records
            PROVE  p \in Accounted
        <5>1. <<p, "installed">> \in held.registry
              \/ <<p, "installed">> = <<Plugin, IF command = "plugins-link" THEN "linked" ELSE "installed">>
          BY <2>1, <3>1, <4>2
        <5>2. CASE command = "plugins-link"
          BY <3>2, <5>1, <5>2
        <5>3. CASE Installs
          BY <3>2, <5>1, <5>3
        <5>4. QED
          BY <3>2, <5>2, <5>3
      <4>3. QED
        BY <4>1, <4>2 DEF StaysBacked
    <3>4. SeesTo(Head(todo))
      BY <2>12 DEF SeesTo
    <3>5. QED
      BY <2>5, <3>1, <3>3, <3>4
  <2>13. CASE Head(todo) = "drop-plugin" /\ DropPlugin
    <3> DEFINE r == <<Plugin, held.kind>>
    <3>1. /\ "plugins" \in DOMAIN held /\ DOMAIN held' = DOMAIN held
          /\ server' = IF r \in held.registry THEN [server EXCEPT !.records = held.registry \ {r}] ELSE server
          /\ \/ r \in held.registry /\ held.kind = "installed" /\ todo' = Tail(todo) /\ held' = held
             \/ todo' = SubSeq(todo, 3, Len(todo))
      BY <2>1, <2>13 DEF DropPlugin, Pass, Ready, Knows, Firsts
    <3>2. \A p \in Plugins : <<p, "installed">> \in held.registry => p \in Accounted
      BY <2>1, <2>13 DEF Ready, Backed
    <3>3. StaysBacked
      BY <2>1, <3>1, <3>2 DEF StaysBacked
    <3>4. CASE r \in held.registry /\ held.kind = "installed" /\ todo' = Tail(todo) /\ held' = held
      <4>1. server'.records = held.registry \ {r} /\ r = <<Plugin, "installed">>
        BY <2>1, <3>1, <3>4
      <4>2. SeesTo(Head(todo))
        BY <2>13, <3>4, <4>1 DEF SeesTo, Plugin
      <4>3. QED
        BY <2>5, <3>1, <3>3, <3>4, <4>2
    <3>5. CASE todo' = SubSeq(todo, 3, Len(todo))
      <4>2. 1 + 1 \in DOMAIN todo /\ todo[1 + 1] = "remove-artifacts"
        BY <2>1, <2>2, <2>13 DEF InTurn
      <4>3. 3 \in Nat /\ 3 >= 2 /\ 3 <= Len(todo) + 1 /\ 3 - 1 = 1 + 1
        BY <2>2, <4>2
      <4>4. SeesTo(todo[3 - 1])
        BY <4>2, <4>3 DEF SeesTo
      <4>5. ASSUME NEW k \in Nat, k = 3, k >= 2, k <= Len(todo) + 1, SeesTo(todo[k - 1])
            PROVE  RegistryKept'
        BY <1>1, <1>3, <3>1, <3>3, <3>5, <4>5, NextIsReady
      <4>6. QED
        BY <4>3, <4>4, <4>5
    <3>6. QED
      BY <3>1, <3>4, <3>5
  <2>14. CASE Head(todo) = "remove-artifacts" /\ RemoveArtifacts
    <3>1. /\ todo' = Tail(todo) /\ "plugins" \in DOMAIN held /\ DOMAIN held' = DOMAIN held
          /\ server' = [server EXCEPT !.artifacts = @ \ {Plugin}]
          /\ (<<Plugin, "installed">> \in server.records => Plugin \in server.raced)
      BY <2>1, <2>14 DEF RemoveArtifacts, Pass, Ready, Knows, Firsts
    <3>2. StaysBacked
      BY <2>1, <3>1 DEF StaysBacked
    <3>3. SeesTo(Head(todo))
      BY <2>14 DEF SeesTo
    <3>4. QED
      BY <2>5, <3>1, <3>2, <3>3
  <2>15. CASE Head(todo) = "clear-registry" /\ ClearRegistry
    <3>1. /\ todo' = Tail(todo) /\ "plugins" \in DOMAIN held /\ held' = held
          /\ server' = [server EXCEPT !.records = {}]
      BY <2>1, <2>15 DEF ClearRegistry, Pass, OnServer, Ready, Knows, Firsts
    <3>2. StaysBacked
      BY <2>1, <3>1 DEF StaysBacked
    <3>3. SeesTo(Head(todo))
      BY <2>1, <2>15, <3>1 DEF SeesTo
    <3>4. QED
      BY <2>5, <3>1, <3>2, <3>3
  <2>16. CASE Head(todo) = "remove-all" /\ RemoveAllArtifacts
    <3>1. /\ todo' = Tail(todo) /\ "plugins" \in DOMAIN held /\ held' = held
          /\ server' = [server EXCEPT !.artifacts = {}]
          /\ \A p \in Plugins : <<p, "installed">> \in server.records => p \in server.raced
      BY <2>1, <2>16 DEF RemoveAllArtifacts, Pass, OnServer, Ready, Knows, Firsts
    <3>2. StaysBacked
      BY <2>1, <3>1 DEF StaysBacked
    <3>3. SeesTo(Head(todo))
      BY <2>16 DEF SeesTo
    <3>4. QED
      BY <2>5, <3>1, <3>2, <3>3
  <2>17. CASE OthersTell
    <3>1. UNCHANGED <<todo, result, held>> /\ (server' = server \/ OperationRuns \/ OtherPlugins \/ OtherRefreshes)
      BY <2>17, OthersTellLittle
    <3>2. /\ {"records", "artifacts", "raced"} \subseteq DOMAIN server'
          /\ Accounted \subseteq Accounted' /\ server.raced \subseteq server'.raced
          /\ \A p : <<p, "installed">> \in server'.records => <<p, "installed">> \in server.records \/ p \in server'.raced
      <4>1. CASE OperationRuns
        BY <2>1, <4>1 DEF OperationRuns
      <4>2. CASE OtherPlugins
        <5>1. CASE OtherStores
          <6>1. PICK r \in (Plugins \X Kinds) \union {<<"other", "linked">>} :
                  \/ Another(server.records \ {r}, server.artifacts, {})
                  \/ Another(server.records \union {r}, server.artifacts,
                             {p \in Plugins : ~Recorded(p) /\ r = <<p, "installed">>})
            BY <5>1 DEF OtherStores
          <6>2. \A p : r = <<p, "installed">> => p \in Plugins
            BY <6>1
          <6>3. QED
            BY <2>1, <6>1, <6>2 DEF Another, Recorded
        <5>2. CASE OtherChangesTree
          BY <2>1, <5>2 DEF OtherChangesTree, Another
        <5>3. QED
          BY <4>2, <5>1, <5>2 DEF OtherPlugins
      <4>3. CASE OtherRefreshes
        BY <2>1, <4>3 DEF OtherRefreshes
      <4>4. QED
        BY <2>1, <3>1, <4>1, <4>2, <4>3
    <3>3. StaysBacked
      BY <2>1, <3>2 DEF StaysBacked
    <3>4. Ready(Head(todo))'
      BY <1>1, <2>1, <3>1, <3>2 DEF Ready, Knows, Plugin, Backed, Installs
    <3>5. QED
      BY <2>4, <3>1, <3>3, <3>4
  <2>18. QED
    <3>1. ~RollBack
      BY <2>2 DEF RollBack, PluginSteps, Undone
    <3>2. QED
      BY <2>2, <2>6, <2>7, <2>8, <2>9, <2>10, <2>11, <2>12, <2>13, <2>14, <2>15, <2>16, <2>17, <3>1
         DEF PluginSteps, Tells, Telling, ToolsTell, ConfigurationTells, AdminTells, ScaffoldTells, HydrogenTells,
             StoresTell
<1>4. QED
  BY <1>2, <1>3

-----------------------------------------------------------------------------
(* What the commands begin with.                                           *)
Opens ==
  /\ held = <<>>
  /\ command # "upgrade" => "executable" \notin DOMAIN files
  /\ command \notin PluginCommands => "records" \notin DOMAIN server

(* Nothing is known as a command starts, only upgrade has an executable,   *)
(* and only the plugin commands a registry.                                *)
LEMMA Opening == Begins => Opens
<1> USE FilesAssumption DEF Opens, Begin, PluginCommands
<1>1. AdminBegins => Opens
  <2>1. BulkExecute => Opens
    BY DEF BulkExecute, Only
  <2>2. BulkStatus => Opens
    BY DEF BulkStatus
  <2>3. BulkCancel => Opens
    BY DEF BulkCancel
  <2>4. Execute => Opens
    BY DEF Execute, Only
  <2>5. Graphiql => Opens
    BY DEF Graphiql
  <2>6. Logs => Opens
    BY DEF Logs
  <2>7. WebhookTrigger => Opens
    BY DEF WebhookTrigger
  <2>8. QED
    BY <2>1, <2>2, <2>3, <2>4, <2>5, <2>6, <2>7 DEF AdminBegins
<1>2. ConfigurationBegins => Opens
  <2> files \in Projects \union Unpreferred => "executable" \notin DOMAIN files
    BY DEF Projects, Unpreferred
  <2>1. ConfigUse => Opens
    BY DEF ConfigUse
  <2>2. ConfigValidate => Opens
    BY DEF ConfigValidate
  <2>3. ConfigPull => Opens
    BY DEF ConfigPull
  <2>4. ConfigLink => Opens
    <3>1. ConfigLink => \A p \in DOMAIN files : p = Flagged
      BY DEF ConfigLink, Only
    <3>2. ConfigLink => command = "config-link" /\ held = <<>> /\ server.apps = 0 /\ DOMAIN server = {"apps"}
      BY DEF ConfigLink
    <3>3. Flagged # "executable"
      OBVIOUS
    <3>4. QED
      BY <3>1, <3>2, <3>3
  <2>5. AppInfo => Opens
    BY DEF AppInfo
  <2>6. EnvShow => Opens
    BY DEF EnvShow
  <2>7. EnvPull => Opens
    <3> SUFFICES ASSUME EnvPull PROVE Opens
      OBVIOUS
    <3>1. PICK e \in {<<>>} \union [{".env"} -> {"user", "unreadable"}] :
            files = Over(Only("default", "user"), e)
      BY DEF EnvPull
    <3>2. DOMAIN e \subseteq {".env"}
      OBVIOUS
    <3>3. DOMAIN files \subseteq {"default", ".env"}
      BY <3>1, <3>2 DEF Only, Over
    <3>4. QED
      BY <3>3 DEF EnvPull
  <2>8. VersionsList => Opens
    BY DEF VersionsList, Only
  <2>9. QED
    BY <2>1, <2>2, <2>3, <2>4, <2>5, <2>6, <2>7, <2>8 DEF ConfigurationBegins
<1>3. ScaffoldBegins => Opens
  <2>1. AppInit => Opens
    BY DEF AppInit, Directories
  <2>2. ThemeInit => Opens
    BY DEF ThemeInit, Directories
  <2>3. QED
    BY <2>1, <2>2 DEF ScaffoldBegins
<1>4. HydrogenBegins => Opens
  <2>a. ASSUME NEW paths, files \in With(paths, Caches), "executable" \notin paths
        PROVE  "executable" \notin DOMAIN files
    <3>1. PICK f \in Caches : files = Over([q \in paths |-> "user"], f)
      BY <2>a DEF With
    <3>2. "executable" \notin DOMAIN f
      BY DEF Caches
    <3>3. QED
      BY <2>a, <3>1, <3>2 DEF Over
  <2>b. ASSUME NEW contents, files \in Linkable(contents)
        PROVE  "executable" \notin DOMAIN files
    <3>1. PICK g \in SUBSET {".gitignore"}, f \in {<<>>} \union [{"project"} -> contents] :
            files = Over([p \in g |-> "user"], f)
      BY <2>b DEF Linkable, With
    <3>2. DOMAIN f \subseteq {"project"}
      OBVIOUS
    <3>3. QED
      BY <3>1, <3>2 DEF Over
  <2>1. HydrogenLink => Opens
    <3> SUFFICES ASSUME HydrogenLink PROVE Opens
      OBVIOUS
    <3>1. "executable" \notin DOMAIN files
      BY <2>b DEF HydrogenLink
    <3>2. QED
      BY <3>1 DEF HydrogenLink
  <2>2. HydrogenList => Opens
    BY DEF HydrogenList
  <2>3. HydrogenUnlink => Opens
    <3> SUFFICES ASSUME HydrogenUnlink PROVE Opens
      OBVIOUS
    <3>1. "executable" \notin DOMAIN files
      BY <2>b DEF HydrogenUnlink
    <3>2. QED
      BY <3>1 DEF HydrogenUnlink
  <2>4. GenerateRoutes => Opens
    <3> SUFFICES ASSUME GenerateRoutes PROVE Opens
      OBVIOUS
    <3>1. PICK o \in SUBSET {"vite", "route1", "locale-route"} : files \in With(o, Caches)
      BY DEF GenerateRoutes
    <3>2. QED
      BY <2>a, <3>1 DEF GenerateRoutes
  <2>5. SetupMarkets => Opens
    <3> SUFFICES ASSUME SetupMarkets PROVE Opens
      OBVIOUS
    <3>1. PICK o \in SUBSET {"i18n"} : files \in With({"context"} \union o, Caches)
      BY DEF SetupMarkets
    <3>2. QED
      BY <2>a, <3>1 DEF SetupMarkets
  <2>6. SetupCss => Opens
    <3> SUFFICES ASSUME SetupCss PROVE Opens
      OBVIOUS
    <3>1. PICK o \in SUBSET {"stylesheet"} : files \in With({"vite", "package", "root"} \union o, Caches)
      BY DEF SetupCss
    <3>2. QED
      BY <2>a, <3>1 DEF SetupCss
  <2>7. SetupVite => Opens
    <3> SUFFICES ASSUME SetupVite PROVE Opens
      OBVIOUS
    <3>1. PICK o \in ViteProjects :
            files \in With({"package", "server"} \union o, Caches)
      BY DEF SetupVite
    <3>2. "executable" \notin {"package", "server"} \union o
      BY DEF ViteProjects
    <3>3. "executable" \notin DOMAIN files
      BY <2>a, <3>1, <3>2
    <3>4. QED
      BY <3>3 DEF SetupVite
  <2>8. Shortcut => Opens
    BY DEF Shortcut
  <2>9. HydrogenOther => Opens
    BY DEF HydrogenOther
  <2>10. QED
    BY <2>1, <2>2, <2>3, <2>4, <2>5, <2>6, <2>7, <2>8, <2>9 DEF HydrogenBegins
<1>5. ToolsBegin => Opens
  <2>1. PluginsAdd \/ PluginsLink \/ PluginsRemove \/ PluginsUpdate \/ PluginsReset \/ PluginsInspect => Opens
    BY DEF PluginsAdd, PluginsLink, PluginsRemove, PluginsUpdate, PluginsReset, PluginsInspect
  <2>2. Upgrade => Opens
    BY DEF Upgrade
  <2>3. UpdateCheck => Opens
    BY DEF UpdateCheck
  <2>4. Settings => Opens
    BY DEF Settings
  <2>5. ClearCaches => Opens
    BY DEF ClearCaches
  <2>6. DocFetch => Opens
    BY DEF DocFetch
  <2>7. ThemePackage => Opens
    BY DEF ThemePackage
  <2>8. QED
    BY <2>1, <2>2, <2>3, <2>4, <2>5, <2>6, <2>7 DEF ToolsBegin
<1>6. StoreBegins => Opens
  <2>a. \A r \in Registry : "records" \notin DOMAIN r
    BY DEF Registry
  <2>1. StoreInfo \/ ListSessions => Opens
    BY <2>a DEF StoreInfo, ListSessions
  <2>2. StoreExecute => Opens
    BY DEF StoreExecute
  <2>3. StoreGraphiql => Opens
    BY DEF StoreGraphiql
  <2>4. StoreBulkExecute => Opens
    BY DEF StoreBulkExecute, Only
  <2>5. StoreBulkStatus => Opens
    BY DEF StoreBulkStatus
  <2>6. StoreBulkCancel => Opens
    BY DEF StoreBulkCancel
  <2>7. StoreAuth => Opens
    BY <2>a DEF StoreAuth
  <2>8. CreatePreview => Opens
    BY <2>a DEF CreatePreview
  <2>9. ListStores => Opens
    BY DEF ListStores
  <2>10. DeleteStore => Opens
    BY DEF DeleteStore
  <2>11. OpenStore => Opens
    BY DEF OpenStore
  <2>12. ImportDefinitions => Opens
    BY DEF ImportDefinitions
  <2>13. QED
    BY <2>1, <2>2, <2>3, <2>4, <2>5, <2>6, <2>7, <2>8, <2>9, <2>10, <2>11, <2>12 DEF StoreBegins
<1>7. QED
  BY <1>1, <1>2, <1>3, <1>4, <1>5, <1>6 DEF Begins

(* A command that opens has nothing to answer for but what it is for.      *)
LEMMA OpensWell ==
  ASSUME Opens
  PROVE  /\ command \notin {"config-pull", "config-link", "hydrogen-generate"} => Pathways
         /\ command # "upgrade" => Executable
         /\ command \notin PluginCommands => RegistryKept
         /\ command # "theme-package" => Archived
         /\ command # "app-init" => Initialised
         /\ command # "config-validate" => Validated
         /\ command \notin {"bulk-execute", "store-bulk-execute"} => Completed
         /\ command \notin {"store-info", "store-auth", "store-create"} => Granted
         /\ command # "import-custom-data" => Imported
<1>1. \A k : ~Knows(k)
  BY DEF Opens, Knows
<1>2. command # "upgrade" => Content("executable") = "none"
  BY DEF Opens, Content, Exists
<1>3. QED
  BY <1>1, <1>2 DEF Opens, Pathways, Executable, RegistryKept, Archived, Initialised, Validated, Completed,
     Granted, Imported

(* s reads as what is left of its own plan.                                *)
LEMMA WholePlan ==
  ASSUME NEW s, NEW t, Sequence(t), ReadsAs(s, t)
  PROVE  LeftOf(s, t) /\ Len(s) = Len(t) /\ Sequence(s) /\ Names(s) = Names(t)
BY DEF LeftOf, Sequence, ReadsAs, Names

-----------------------------------------------------------------------------
(* What the commands that answer for something begin with.                 *)
LEMMA PathwaysStart ==
  ASSUME ConfigPull \/ ConfigLink \/ GenerateRoutes
  PROVE  Pathways
<1>1. held = <<>>
  BY DEF ConfigPull, ConfigLink, GenerateRoutes, Begin
<1> USE DEF Pathways, Knows, Precedes, LinkSteps, RouteSteps, Names, ReadsAs
<1>2. CASE ConfigPull
  <2>1. command = "config-pull"
    BY <1>2 DEF ConfigPull, Begin
  <2>2. CASE "reset" \in given
    <3>1. ReadsAs(todo, <<"state", "clear", "configs", "choose", "session", "management", "app",
                          "write-config">>)
      BY <1>2, <2>2 DEF ConfigPull, Chosen
    <3>2. QED
      BY <1>1, <2>1, <3>1
  <2>3. CASE "reset" \notin given
    <3>1. ReadsAs(todo, <<"state", "configs", "choose", "session", "management", "app", "write-config">>)
      BY <1>2, <2>3 DEF ConfigPull, Chosen
    <3>2. QED
      BY <1>1, <2>1, <3>1
  <2>4. QED
    BY <2>2, <2>3
<1>3. CASE ConfigLink
  <2>1. command = "config-link"
    BY <1>3 DEF ConfigLink, Begin
  <2>2. CASE "delegate" \in given
    <3>1. ReadsAs(todo, <<"delegate">>)
      BY <1>3, <2>2 DEF ConfigLink, Chosen, Without
    <3>2. QED
      BY <1>1, <2>1, <3>1
  <2>3. CASE "delegate" \notin given /\ "new" \in given /\ "client-id" \notin given
    <3>1. ReadsAs(todo, <<"configs", "session", "management", "organizations", "organization",
                          "create-app", "mapping", "app", "write-config">>)
      BY <1>3, <2>3 DEF ConfigLink, Chosen, Without
    <3>2. QED
      BY <1>1, <2>1, <3>1
  <2>4. CASE "delegate" \notin given /\ given \intersect {"new", "client-id"} = {} /\ Present = {}
    <3>1. ReadsAs(todo, <<"configs", "session", "management", "organizations", "organization",
                          "choose-app", "mapping", "app", "write-config">>)
      BY <1>3, <2>4 DEF ConfigLink, Chosen, Without
    <3>2. QED
      BY <1>1, <2>1, <3>1
  <2>5. CASE /\ "delegate" \notin given
             /\ "client-id" \in given \/ (given \intersect {"new", "client-id"} = {} /\ Present # {})
    <3>1. ReadsAs(todo, <<"configs", "session", "management", "organizations", "organization",
                          "mapping", "app", "write-config">>)
      BY <1>3, <2>5 DEF ConfigLink, Chosen, Without
    <3>2. QED
      BY <1>1, <2>1, <3>1
  <2>6. QED
    BY <2>2, <2>3, <2>4, <2>5
<1>4. CASE GenerateRoutes
  <2>1. command = "hydrogen-generate"
    BY <1>4 DEF GenerateRoutes, Begin
  <2>2. CASE "locale" \in given
    <3>1. ReadsAs(todo, <<"directories", "source", "route-names", "routes", "locale-route">>)
      BY <1>4, <2>2 DEF GenerateRoutes, Chosen
    <3>2. QED
      BY <1>1, <2>1, <3>1
  <2>3. CASE "locale" \notin given
    <3>1. ReadsAs(todo, <<"directories", "source", "route-names", "routes">>)
      BY <1>4, <2>3 DEF GenerateRoutes, Chosen
    <3>2. QED
      BY <1>1, <2>1, <3>1
  <2>4. QED
    BY <2>2, <2>3
<1>5. QED
  BY <1>2, <1>3, <1>4

(* upgrade starts with the old executable.                                 *)
LEMMA ExecutableStarts ==
  ASSUME Upgrade
  PROVE  Executable
<1>1. command = "upgrade" /\ ReadsAs(todo, <<"detect">>)
  BY DEF Upgrade, Begin, ReadsAs
<1>2. Content("executable") = "old"
  BY DEF Upgrade, Begin, Content, Exists
<1>3. Sequence(<<"detect">>)
  BY DEF Sequence
<1>4. QED
  BY <1>1, <1>2, <1>3, WholePlan DEF Executable

(* The plugin commands start with a registry whose plugins have files.     *)
LEMMA RegistryStarts ==
  ASSUME PluginsAdd \/ PluginsLink \/ PluginsRemove \/ PluginsUpdate \/ PluginsReset \/ PluginsInspect
  PROVE  RegistryKept
<1>1. server \in Registries
  BY DEF PluginsAdd, PluginsLink, PluginsRemove, PluginsUpdate, PluginsReset, PluginsInspect, Begin
<1>2. \E x \in {"named-plugins", "installed-plugins", "inspect"} :
        /\ todo = <<x>>
        /\ x = "named-plugins" => command \notin {"plugins-reset", "plugins-update"}
        /\ x = "installed-plugins" => command \in {"plugins-reset", "plugins-update"}
  BY DEF PluginsAdd, PluginsLink, PluginsRemove, PluginsUpdate, PluginsReset, PluginsInspect, Begin
<1>3. command \in PluginCommands
  BY DEF PluginsAdd, PluginsLink, PluginsRemove, PluginsUpdate, PluginsReset, PluginsInspect, Begin,
     PluginCommands
<1>4. PICK i \in SUBSET Plugins, l \in {{}, {"p"}}, r \in BOOLEAN :
        server = [records |-> i \X {"installed"} \union l \X {"linked"}, artifacts |-> i, raced |-> {}, others |-> 0, readable |-> r]
  BY <1>1 DEF Registries
<1>5. {"records", "artifacts", "raced"} \subseteq DOMAIN server
  BY <1>4
<1>6. Backed(server.records)
  <2>1. server.records = i \X {"installed"} \union l \X {"linked"} /\ server.artifacts = i
    BY <1>4
  <2>2. QED
    BY <2>1 DEF Backed, Accounted
<1>7. /\ Sequence(todo) /\ Names(todo) \subseteq PluginSteps
      /\ Len(todo) = 1 /\ DOMAIN todo = {1}
      /\ todo[1] \in Firsts /\ Head(todo) \in Firsts
      /\ todo[1] = "named-plugins" => command \notin {"plugins-reset", "plugins-update"}
      /\ todo[1] = "installed-plugins" => command \in {"plugins-reset", "plugins-update"}
  BY <1>2 DEF Sequence, Names, PluginSteps, Firsts
<1>8. InTurn(todo)
  BY <1>7 DEF InTurn, Firsts
<1>9. Ready(Head(todo))
  BY <1>7 DEF Ready, Firsts
<1>10. QED
  BY <1>3, <1>5, <1>6, <1>7, <1>8, <1>9 DEF RegistryKept

(* theme package starts with all its steps to do.                          *)
LEMMA ArchivedStarts ==
  ASSUME ThemePackage, result = "none"
  PROVE  Archived
<1> DEFINE plan == <<"create-archive", "collect-files", "finish-archive">>
<1>1. ReadsAs(todo, plan)
  BY DEF ThemePackage, ReadsAs
<1>2. Sequence(plan)
  BY DEF Sequence
<1>3. LeftOf(todo, plan)
  BY <1>1, <1>2, WholePlan
<1>4. QED
  BY <1>3 DEF Archived

(* config validate starts before any part has been looked at.              *)
LEMMA ValidatedStarts ==
  ASSUME ConfigValidate, result = "none"
  PROVE  Validated
<1> DEFINE long == <<"state", "clear", "choose", "app-table", "extensions", "webs", "duplicates", "report">>
<1> DEFINE short == <<"state", "choose", "app-table", "extensions", "webs", "duplicates", "report">>
<1>3. (LeftOf(todo, long) \/ LeftOf(todo, short)) /\ Len(todo) \in {7, 8}
  <2>1. CASE "reset" \in given
    <3>1. ReadsAs(todo, long)
      BY <2>1 DEF ConfigValidate, Chosen, Graph, ReadsAs
    <3>2. Sequence(long) /\ Len(long) = 8
      BY DEF Sequence
    <3>3. QED
      BY <3>1, <3>2, WholePlan
  <2>2. CASE "reset" \notin given
    <3>1. ReadsAs(todo, short)
      BY <2>2 DEF ConfigValidate, Chosen, Graph, ReadsAs
    <3>2. Sequence(short) /\ Len(short) = 7
      BY DEF Sequence
    <3>3. QED
      BY <3>1, <3>2, WholePlan
  <2>3. QED
    BY <2>1, <2>2
<1>4. "flaws" \in DOMAIN server /\ server.flaws \subseteq {"app", "extension", "web", "duplicate"}
  BY DEF ConfigValidate, Begin, Flaws
<1>5. LookedAt
  <2>1. Len(todo) \in {7, 8}
    BY <1>3
  <2>2. \A n \in {7, 8} : ~(n <= 4) /\ ~(n <= 3) /\ ~(n <= 2) /\ ~(n <= 1)
    OBVIOUS
  <2>3. QED
    BY <2>1, <2>2 DEF LookedAt
<1>6. QED
  BY <1>3, <1>4, <1>5 DEF Validated

(* The import starts with every page to load.                              *)
LEMMA ImportedStarts ==
  ASSUME ImportDefinitions
  PROVE  Imported
<1> DEFINE plan == <<"environment", "session", "management", "secret", "exchange", "metafields",
                     "metaobjects", "report">>
<1>1. ReadsAs(todo, plan)
  BY DEF ImportDefinitions, ReadsAs
<1>2. Sequence(plan) /\ Len(plan) = 8
  BY DEF Sequence
<1>3. LeftOf(todo, plan) /\ Len(todo) = 8
  BY <1>1, <1>2, WholePlan
<1>4. "pages" \in DOMAIN server
  BY DEF ImportDefinitions, Begin
<1>5. Len(todo) = 8
  BY <1>3
<1>6. ~(Len(todo) <= 2) /\ ~(Len(todo) <= 1)
  BY <1>5
<1>7. QED
  BY <1>3, <1>4, <1>6 DEF Imported

(* The store commands start with nothing granted.                          *)
LEMMA GrantedStarts ==
  ASSUME StoreInfo \/ StoreAuth \/ CreatePreview, result = "none"
  PROVE  Granted
<1>1. ~Knows("granted")
  BY DEF StoreInfo, StoreAuth, CreatePreview, Begin, Knows
<1>2. server \in Registry
  BY DEF StoreInfo, StoreAuth, CreatePreview, Begin
<1>3. PICK S \in {{}, {"s"}}, c \in {{}, {"write"}}, n \in 0..1, f \in BOOLEAN, r \in BOOLEAN :
        server = [index |-> S, scopes |-> c, stored |-> n, issued |-> 1, fresh |-> f, renews |-> r,
                  executed |-> 0]
  BY <1>2 DEF Registry
<1>4. Tokens
  BY <1>1, <1>3 DEF Tokens
<1>5. CASE StoreInfo
  <2>1. command = "store-info"
    BY <1>5 DEF StoreInfo, Begin
  <2>2. ReadsAs(todo, InfoPlan)
    BY <1>5 DEF StoreInfo, Begin, Token, Without, InfoPlan, ReadsAs
  <2>3. Sequence(InfoPlan) /\ Len(InfoPlan) = 6
    BY DEF InfoPlan, Sequence
  <2>4. LeftOf(todo, InfoPlan) /\ Len(todo) = 6
    BY <2>2, <2>3, WholePlan
  <2>5. Len(todo) # 3
    BY <2>4
  <2>6. QED
    BY <1>1, <1>4, <2>1, <2>4, <2>5 DEF Granted
<1>6. CASE StoreAuth
  <2>1. command = "store-auth"
    BY <1>6 DEF StoreAuth, Begin
  <2>2. ReadsAs(todo, AuthPlan)
    BY <1>6 DEF StoreAuth, Begin, Saving, AuthPlan, ReadsAs
  <2>3. Sequence(AuthPlan) /\ Len(AuthPlan) = 8
    BY DEF AuthPlan, Sequence
  <2>4. LeftOf(todo, AuthPlan) /\ Len(todo) = 8
    BY <2>2, <2>3, WholePlan
  <2>a. Len(todo) = 8
    BY <2>4
  <2>5. ~(Len(todo) <= 6) /\ ~(Len(todo) <= 3) /\ ~(Len(todo) <= 2)
    BY <2>a
  <2>6. QED
    BY <1>1, <1>4, <2>1, <2>4, <2>5 DEF Granted
<1>7. CASE CreatePreview
  <2>1. command = "store-create"
    BY <1>7 DEF CreatePreview, Begin
  <2>2. ReadsAs(todo, CreatePlan)
    BY <1>7 DEF CreatePreview, Begin, Saving, CreatePlan, ReadsAs
  <2>3. Sequence(CreatePlan) /\ Len(CreatePlan) = 5
    BY DEF CreatePlan, Sequence
  <2>4. LeftOf(todo, CreatePlan) /\ Len(todo) = 5
    BY <2>2, <2>3, WholePlan
  <2>a. Len(todo) = 5
    BY <2>4
  <2>5. ~(Len(todo) <= 3) /\ ~(Len(todo) <= 2)
    BY <2>a
  <2>6. QED
    BY <1>1, <1>4, <2>1, <2>4, <2>5 DEF Granted
<1>8. QED
  BY <1>5, <1>6, <1>7

(* A bulk operation is run before it is polled, and polled before its      *)
(* results are downloaded.                                                 *)
LEMMA CompletedStarts ==
  ASSUME BulkExecute \/ StoreBulkExecute
  PROVE  Completed
<1>1. command \in {"bulk-execute", "store-bulk-execute"}
  BY DEF BulkExecute, StoreBulkExecute, Begin
<1>2. ~Knows("operation")
  <2>1. held = <<>>
    BY DEF BulkExecute, StoreBulkExecute, Begin
  <2>2. QED
    BY <2>1 DEF Knows
<1>3. "operation" \in DOMAIN server
  <2>1. BulkExecute => server \in [plan : Plans, operation : {"none"}, staged : {FALSE}]
    BY DEF BulkExecute, Begin
  <2>2. StoreBulkExecute => server \in [operation : {"none"}, staged : {FALSE}]
    BY DEF StoreBulkExecute, Begin
  <2>3. QED
    BY <2>1, <2>2
<1>4. Content("results") # "results"
  <2>1. files \in {Only("results", "user"), <<>>}
    BY DEF BulkExecute, StoreBulkExecute, Begin
  <2>2. QED
    BY <2>1 DEF Content, Exists, Only
<1>5. /\ Names(todo) \subseteq BulkSteps
      /\ \A i, j \in DOMAIN todo : i < j /\ todo[i] = "poll" => todo[j] # "run"
      /\ Precedes({"poll"}, todo, {"download"})
      /\ "watch" \in given => "poll" \in Names(todo)
  <2> USE DEF Names, BulkSteps, Precedes, ReadsAs
  <2>1. CASE BulkExecute
    <3> USE DEF Chosen, AppClient
    <3>1. CASE "mutation" \in given /\ "watch" \in given
      <4>1. ReadsAs(todo, <<"document", "environment", "session", "management", "secret", "exchange",
                            "version", "kind", "plan", "stage", "upload", "run", "poll", "download",
                            "report">>)
        BY <2>1, <3>1 DEF BulkExecute
      <4>2. QED
        BY <4>1
    <3>2. CASE "mutation" \in given /\ "watch" \notin given
      <4>1. ReadsAs(todo, <<"document", "environment", "session", "management", "secret", "exchange",
                            "version", "kind", "plan", "stage", "upload", "run", "report">>)
        BY <2>1, <3>2 DEF BulkExecute
      <4>2. QED
        BY <3>2, <4>1
    <3>3. CASE "mutation" \notin given /\ "watch" \in given
      <4>1. ReadsAs(todo, <<"document", "environment", "session", "management", "secret", "exchange",
                            "version", "kind", "run", "poll", "download", "report">>)
        BY <2>1, <3>3 DEF BulkExecute
      <4>2. QED
        BY <4>1
    <3>4. CASE "mutation" \notin given /\ "watch" \notin given
      <4>1. ReadsAs(todo, <<"document", "environment", "session", "management", "secret", "exchange",
                            "version", "kind", "run", "report">>)
        BY <2>1, <3>4 DEF BulkExecute
      <4>2. QED
        BY <3>4, <4>1
    <3>5. QED
      BY <3>1, <3>2, <3>3, <3>4
  <2>2. CASE StoreBulkExecute
    <3> USE DEF Chosen, Token, Without
    <3>0. "token" \in given
      BY <2>2 DEF StoreBulkExecute, Begin
    <3>1. CASE "mutation" \in given /\ "watch" \in given
      <4>1. ReadsAs(todo, <<"document", "version", "store-kind", "stage", "upload", "run", "poll",
                            "download", "report">>)
        BY <2>2, <3>0, <3>1 DEF StoreBulkExecute
      <4>2. QED
        BY <4>1
    <3>2. CASE "mutation" \in given /\ "watch" \notin given
      <4>1. ReadsAs(todo, <<"document", "version", "store-kind", "stage", "upload", "run", "report">>)
        BY <2>2, <3>0, <3>2 DEF StoreBulkExecute
      <4>2. QED
        BY <3>2, <4>1
    <3>3. CASE "mutation" \notin given /\ "watch" \in given
      <4>1. ReadsAs(todo, <<"document", "version", "store-kind", "run", "poll", "download", "report">>)
        BY <2>2, <3>0, <3>3 DEF StoreBulkExecute
      <4>2. QED
        BY <4>1
    <3>4. CASE "mutation" \notin given /\ "watch" \notin given
      <4>1. ReadsAs(todo, <<"document", "version", "store-kind", "run", "report">>)
        BY <2>2, <3>0, <3>4 DEF StoreBulkExecute
      <4>2. QED
        BY <3>4, <4>1
    <3>5. QED
      BY <3>1, <3>2, <3>3, <3>4
  <2>3. QED
    BY <2>1, <2>2
<1>6. QED
  BY <1>1, <1>2, <1>3, <1>4, <1>5 DEF Completed

(* app init starts with a plan that takes the clone back.                  *)
LEMMA InitialisedStarts ==
  ASSUME AppInit, result = "none"
  PROVE  Initialised
<1>1. command = "app-init"
  BY DEF AppInit, Begin
<1>2. Clean
  BY DEF AppInit, Begin, Directories, Clean, Content, Exists
<1> USE DEF ReadsAs
<1>3. InitPlan(todo) /\ "unstage" \in Names(todo)
  <2>1. CASE "client-id" \in given /\ "pnpm" \in given
    <3>1. ReadsAs(todo, <<"template", "inputs", "session", "business", "management", "organizations",
                         "find-app", "validate-app", "clone-app", "make", "copy", "package", "workspace",
                         "install", "git-init", "unstage", "link">>)
      BY <2>1 DEF AppInit, Chosen, IsNew
    <3>2. /\ Sequence(todo) /\ Len(todo) = 17 /\ todo[17] = "link"
          /\ 9 \in DOMAIN todo /\ todo[9] = "clone-app" /\ 16 \in DOMAIN todo /\ todo[16] = "unstage"
      BY <3>1 DEF Sequence
    <3>3. \A i \in 1..8 : todo[i] \in InitSteps
      BY <3>1 DEF InitSteps
    <3>4. \A i \in 10..17 : todo[i] \in Late
      BY <3>1 DEF Late, Undone
    <3>5. \A i \in DOMAIN todo : (i < 9 => todo[i] \in InitSteps) /\ (i > 9 => todo[i] \in Late)
      BY <3>2, <3>3, <3>4 DEF Sequence
    <3>6. QED
      BY <3>2, <3>5 DEF InitPlan, Names
  <2>2. CASE "client-id" \in given /\ "pnpm" \notin given
    <3>1. ReadsAs(todo, <<"template", "inputs", "session", "business", "management", "organizations",
                         "find-app", "validate-app", "clone-app", "make", "copy", "package", "install",
                         "git-init", "unstage", "link">>)
      BY <2>2 DEF AppInit, Chosen, IsNew
    <3>2. /\ Sequence(todo) /\ Len(todo) = 16 /\ todo[16] = "link"
          /\ 9 \in DOMAIN todo /\ todo[9] = "clone-app" /\ 15 \in DOMAIN todo /\ todo[15] = "unstage"
      BY <3>1 DEF Sequence
    <3>3. \A i \in 1..8 : todo[i] \in InitSteps
      BY <3>1 DEF InitSteps
    <3>4. \A i \in 10..16 : todo[i] \in Late
      BY <3>1 DEF Late, Undone
    <3>5. \A i \in DOMAIN todo : (i < 9 => todo[i] \in InitSteps) /\ (i > 9 => todo[i] \in Late)
      BY <3>2, <3>3, <3>4 DEF Sequence
    <3>6. QED
      BY <3>2, <3>5 DEF InitPlan, Names
  <2>3. CASE "client-id" \notin given /\ given \intersect {"name", "new"} = {} /\ "pnpm" \in given
    <3>1. ReadsAs(todo, <<"template", "inputs", "session", "business", "management", "organizations",
                         "pick-organization", "pick-app", "validate-app", "clone-app", "make", "copy",
                         "package", "workspace", "install", "git-init", "unstage", "link">>)
      BY <2>3 DEF AppInit, Chosen, IsNew
    <3>2. /\ Sequence(todo) /\ Len(todo) = 18 /\ todo[18] = "link"
          /\ 10 \in DOMAIN todo /\ todo[10] = "clone-app" /\ 17 \in DOMAIN todo /\ todo[17] = "unstage"
      BY <3>1 DEF Sequence
    <3>3. \A i \in 1..9 : todo[i] \in InitSteps
      BY <3>1 DEF InitSteps
    <3>4. \A i \in 11..18 : todo[i] \in Late
      BY <3>1 DEF Late, Undone
    <3>5. \A i \in DOMAIN todo : (i < 10 => todo[i] \in InitSteps) /\ (i > 10 => todo[i] \in Late)
      BY <3>2, <3>3, <3>4 DEF Sequence
    <3>6. QED
      BY <3>2, <3>5 DEF InitPlan, Names
  <2>4. CASE "client-id" \notin given /\ given \intersect {"name", "new"} = {} /\ "pnpm" \notin given
    <3>1. ReadsAs(todo, <<"template", "inputs", "session", "business", "management", "organizations",
                         "pick-organization", "pick-app", "validate-app", "clone-app", "make", "copy",
                         "package", "install", "git-init", "unstage", "link">>)
      BY <2>4 DEF AppInit, Chosen, IsNew
    <3>2. /\ Sequence(todo) /\ Len(todo) = 17 /\ todo[17] = "link"
          /\ 10 \in DOMAIN todo /\ todo[10] = "clone-app" /\ 16 \in DOMAIN todo /\ todo[16] = "unstage"
      BY <3>1 DEF Sequence
    <3>3. \A i \in 1..9 : todo[i] \in InitSteps
      BY <3>1 DEF InitSteps
    <3>4. \A i \in 11..17 : todo[i] \in Late
      BY <3>1 DEF Late, Undone
    <3>5. \A i \in DOMAIN todo : (i < 10 => todo[i] \in InitSteps) /\ (i > 10 => todo[i] \in Late)
      BY <3>2, <3>3, <3>4 DEF Sequence
    <3>6. QED
      BY <3>2, <3>5 DEF InitPlan, Names
  <2>5. CASE "client-id" \notin given /\ given \intersect {"name", "new"} # {} /\ "pnpm" \in given
    <3>1. ReadsAs(todo, <<"template", "inputs", "session", "business", "management", "organizations",
                         "pick-organization", "pick-app", "validate-app", "clone-app", "make", "copy",
                         "package", "workspace", "install", "git-init", "unstage", "create", "fetch",
                         "link">>)
      BY <2>5 DEF AppInit, Chosen, IsNew
    <3>2. /\ Sequence(todo) /\ Len(todo) = 20 /\ todo[20] = "link"
          /\ 10 \in DOMAIN todo /\ todo[10] = "clone-app" /\ 17 \in DOMAIN todo /\ todo[17] = "unstage"
      BY <3>1 DEF Sequence
    <3>3. \A i \in 1..9 : todo[i] \in InitSteps
      BY <3>1 DEF InitSteps
    <3>4. \A i \in 11..20 : todo[i] \in Late
      BY <3>1 DEF Late, Undone
    <3>5. \A i \in DOMAIN todo : (i < 10 => todo[i] \in InitSteps) /\ (i > 10 => todo[i] \in Late)
      BY <3>2, <3>3, <3>4 DEF Sequence
    <3>6. QED
      BY <3>2, <3>5 DEF InitPlan, Names
  <2>6. CASE "client-id" \notin given /\ given \intersect {"name", "new"} # {} /\ "pnpm" \notin given
    <3>1. ReadsAs(todo, <<"template", "inputs", "session", "business", "management", "organizations",
                         "pick-organization", "pick-app", "validate-app", "clone-app", "make", "copy",
                         "package", "install", "git-init", "unstage", "create", "fetch", "link">>)
      BY <2>6 DEF AppInit, Chosen, IsNew
    <3>2. /\ Sequence(todo) /\ Len(todo) = 19 /\ todo[19] = "link"
          /\ 10 \in DOMAIN todo /\ todo[10] = "clone-app" /\ 16 \in DOMAIN todo /\ todo[16] = "unstage"
      BY <3>1 DEF Sequence
    <3>3. \A i \in 1..9 : todo[i] \in InitSteps
      BY <3>1 DEF InitSteps
    <3>4. \A i \in 11..19 : todo[i] \in Late
      BY <3>1 DEF Late, Undone
    <3>5. \A i \in DOMAIN todo : (i < 10 => todo[i] \in InitSteps) /\ (i > 10 => todo[i] \in Late)
      BY <3>2, <3>3, <3>4 DEF Sequence
    <3>6. QED
      BY <3>2, <3>5 DEF InitPlan, Names
  <2>7. QED
    BY <2>1, <2>2, <2>3, <2>4, <2>5, <2>6
<1>4. QED
  BY <1>1, <1>2, <1>3 DEF Initialised

(* Which of the commands answer for something.                             *)
LEMMA SpecialCommands ==
  ASSUME Begins
  PROVE  /\ command \notin Silent
         /\ command \in {"config-pull", "config-link", "hydrogen-generate"} =>
              ConfigPull \/ ConfigLink \/ GenerateRoutes
         /\ command = "upgrade" => Upgrade
         /\ command \in PluginCommands =>
              PluginsAdd \/ PluginsLink \/ PluginsRemove \/ PluginsUpdate \/ PluginsReset \/ PluginsInspect
         /\ command = "theme-package" => ThemePackage
         /\ command = "app-init" => AppInit
         /\ command = "config-validate" => ConfigValidate
         /\ command \in {"bulk-execute", "store-bulk-execute"} => BulkExecute \/ StoreBulkExecute
         /\ command \in {"store-info", "store-auth", "store-create"} => StoreInfo \/ StoreAuth \/ CreatePreview
         /\ command = "import-custom-data" => ImportDefinitions
<1> USE DEF Begin
<1>1. AdminBegins =>
        \/ command \in {"bulk-status", "bulk-cancel", "execute", "graphiql", "logs", "webhook-trigger"}
        \/ command = "bulk-execute" /\ BulkExecute
  BY DEF AdminBegins, BulkExecute, BulkStatus, BulkCancel, Execute, Graphiql, Logs, WebhookTrigger
<1>2. ConfigurationBegins =>
        \/ command \in {"config-use", "info", "env-show", "env-pull", "versions-list"}
        \/ command = "config-validate" /\ ConfigValidate
        \/ command = "config-pull" /\ ConfigPull
        \/ command = "config-link" /\ ConfigLink
  BY DEF ConfigurationBegins, ConfigUse, ConfigValidate, ConfigPull, ConfigLink, AppInfo, EnvShow, EnvPull,
     VersionsList
<1>3. ScaffoldBegins => command = "theme-init" \/ (command = "app-init" /\ AppInit)
  BY DEF ScaffoldBegins, AppInit, ThemeInit
<1>4. HydrogenBegins =>
        \/ command \in {"hydrogen-link", "hydrogen-list", "hydrogen-unlink", "hydrogen-setup-markets",
                        "hydrogen-setup-css", "hydrogen-setup-vite", "hydrogen-shortcut", "hydrogen-tool"}
        \/ command = "hydrogen-generate" /\ GenerateRoutes
  BY DEF HydrogenBegins, HydrogenLink, HydrogenList, HydrogenUnlink, GenerateRoutes, SetupMarkets, SetupCss,
     SetupVite, Shortcut, HydrogenOther
<1>5. ToolsBegin =>
        \/ command \in {"any-command", "update-check", "config", "cache-clear", "doc-fetch"}
        \/ /\ command \in PluginCommands
           /\ PluginsAdd \/ PluginsLink \/ PluginsRemove \/ PluginsUpdate \/ PluginsReset \/ PluginsInspect
        \/ command = "upgrade" /\ Upgrade
        \/ command = "theme-package" /\ ThemePackage
  BY DEF ToolsBegin, PluginsAdd, PluginsLink, PluginsRemove, PluginsUpdate, PluginsReset, PluginsInspect,
     Upgrade, UpdateCheck, Settings, ClearCaches, DocFetch, ThemePackage, PluginCommands
<1>6. StoreBegins =>
        \/ command \in {"store-execute", "store-graphiql", "store-bulk-status", "store-bulk-cancel",
                        "store-auth-list", "store-list", "store-delete", "store-open"}
        \/ command = "store-info" /\ StoreInfo
        \/ command = "store-auth" /\ StoreAuth
        \/ command = "store-create" /\ CreatePreview
        \/ command = "store-bulk-execute" /\ StoreBulkExecute
        \/ command = "import-custom-data" /\ ImportDefinitions
  BY DEF StoreBegins, StoreInfo, StoreExecute, StoreGraphiql, StoreBulkExecute, StoreBulkStatus,
     StoreBulkCancel, StoreAuth, CreatePreview, ListSessions, ListStores, DeleteStore, OpenStore,
     ImportDefinitions
<1>7. QED
  BY <1>1, <1>2, <1>3, <1>4, <1>5, <1>6 DEF Begins, PluginCommands, Silent

-----------------------------------------------------------------------------
(* From the start to the exit.                                             *)

(* EndInv holds of every command as it starts.                             *)
LEMMA EndInvStarts == Init => EndInv
<1> SUFFICES ASSUME Init PROVE EndInv
  OBVIOUS
<1>1. result = "none" /\ Finished
  BY SpecialCommands DEF Init, Finished, Unplanned
<1>2. CASE Unplanned /\ command \in Silent
  <2>1. Opens
    BY <1>2 DEF Unplanned, Opens
  <2>2. QED
    BY <1>1, <1>2, <2>1, OpensWell DEF EndInv, Silent, PluginCommands
<1>3. CASE Begins
  <2>1. Opens
    BY <1>3, Opening
  <2>2. ConfigPull \/ ConfigLink \/ GenerateRoutes => Pathways
    BY PathwaysStart
  <2>3. command \in {"config-pull", "config-link", "hydrogen-generate"} =>
          ConfigPull \/ ConfigLink \/ GenerateRoutes
    BY <1>3, SpecialCommands
  <2>4. command = "upgrade" => Executable
    BY <1>3, SpecialCommands, ExecutableStarts
  <2>5. command \in PluginCommands => RegistryKept
    BY <1>3, SpecialCommands, RegistryStarts
  <2>6. command = "theme-package" => Archived
    BY <1>1, <1>3, SpecialCommands, ArchivedStarts
  <2>7. command = "app-init" => Initialised
    BY <1>1, <1>3, SpecialCommands, InitialisedStarts
  <2>8. command = "config-validate" => Validated
    BY <1>1, <1>3, SpecialCommands, ValidatedStarts
  <2>9. command \in {"bulk-execute", "store-bulk-execute"} => Completed
    BY <1>3, SpecialCommands, CompletedStarts
  <2>10. command \in {"store-info", "store-auth", "store-create"} => Granted
    BY <1>1, <1>3, SpecialCommands, GrantedStarts
  <2>11. command = "import-custom-data" => Imported
    BY <1>3, SpecialCommands, ImportedStarts
  <2>12. QED
    BY <1>1, <2>1, <2>2, <2>3, <2>4, <2>5, <2>6, <2>7, <2>8, <2>9, <2>10, <2>11, OpensWell DEF EndInv
<1>4. QED
  BY <1>2, <1>3 DEF Init, DeployInit, Silent

(* Every step of a command with a plan keeps EndInv.                       *)
LEMMA EndInvGoesOn ==
  ASSUME PlanIsSound, EndInv, Taken, Tells, EndsLast
  PROVE  EndInv'
<1>1. Finished'
  BY DEF EndInv, Finished, Taken, Planned, Same, EndsLast
<1>2. QED
  BY <1>1, PathwaysGoesOn, ExecutableGoesOn, RegistryGoesOn, ArchivedGoesOn, InitialisedGoesOn,
     ValidatedGoesOn, CompletedGoesOn, GrantedGoesOn, ImportedGoesOn DEF EndInv

(* Where nothing of a plan changes, nor how the command has ended, EndInv  *)
(* goes on; commands without a plan end as they like.                      *)
LEMMA EndInvStays ==
  ASSUME EndInv, UNCHANGED <<command, plannedVars>>, result' = result \/ command \in Silent
  PROVE  EndInv'
<1>1. UNCHANGED <<command, given, todo, held, files, server>>
  BY DEF plannedVars
<1>2. CASE result' = result
  <2>1. Finished' /\ Pathways' /\ Executable' /\ Archived'
    BY <1>1, <1>2 DEF EndInv, Finished, Pathways, Executable, Archived, Knows, Precedes, Content, Exists,
       LeftOf, Sequence, Names
  <2>2. RegistryKept'
    BY <1>1, <1>2 DEF EndInv, RegistryKept, Backed, Accounted, InTurn, Follows, Installs, Ready, Knows, Plugin,
       Sequence, Names
  <2>3. Initialised' /\ Validated'
    BY <1>1, <1>2 DEF EndInv, Initialised, InitPlan, Clean, Validated, LookedAt, Found, Knows, Content,
       Exists, LeftOf, Sequence, Names
  <2>4. Completed' /\ Granted' /\ Imported'
    BY <1>1, <1>2 DEF EndInv, Completed, Granted, Tokens, Imported, AllFields, AllObjects, Well, Knows,
       Content, Exists, Precedes, LeftOf, Sequence, Names
  <2>5. QED
    BY <2>1, <2>2, <2>3, <2>4 DEF EndInv
<1>3. CASE command \in Silent
  BY <1>1, <1>3 DEF EndInv, Finished, Pathways, Executable, RegistryKept, Archived, Initialised, Validated,
     Completed, Granted, Imported, Silent, PluginCommands, Knows, Content, Exists
<1>4. QED
  BY <1>2, <1>3

(* What EndInv says of an exit.                                            *)
LEMMA ExitsAreTrue == EndInv => EndIsTrue
<1> SUFFICES ASSUME EndInv PROVE EndIsTrue
  OBVIOUS
<1>1. result = "ok" => todo = <<>>
  BY DEF EndInv, Finished
<1>2. result = "ok" => Len(todo) = 0 /\ Names(todo) = {}
  BY <1>1 DEF Names
<1>3. ToolsEnd
  BY DEF EndInv, RegistryKept, Backed, Accounted, Recorded, Executable, Archived, ToolsEnd
<1>4. InitEnd
  BY DEF EndInv, Initialised, Clean, InitEnd
<1>5. ReportEnd
  <2>1. command = "config-validate" /\ result = "ok" => server.flaws = {}
    BY DEF EndInv, Validated
  <2>2. command \in {"bulk-execute", "store-bulk-execute"} /\ Content("results") = "results" =>
          server.operation = "completed"
    BY DEF EndInv, Completed, Ended
  <2>3. command = "bulk-execute" /\ result = "ok" /\ "watch" \in given => server.operation \in Ended
    BY <1>2 DEF EndInv, Completed, Well
  <2>4. QED
    BY <2>1, <2>2, <2>3 DEF ReportEnd
<1>6. StoreEnd
  <2> SUFFICES ASSUME result = "ok" PROVE StoreEnd
    BY DEF StoreEnd
  <2>0. Len(todo) = 0 /\ Len(todo) # 3 /\ Len(todo) <= 2 /\ Len(todo) <= 1
    BY <1>2
  <2>1. Knows("granted") => server.stored >= held.granted
    BY <2>0 DEF EndInv, Granted, Well
  <2>2. command \in {"store-auth", "store-create"} =>
          "s" \in server.index /\ held.requested \subseteq Expanded(server.scopes)
    BY DEF EndInv, Granted
  <2>3. command = "import-custom-data" => AllFields /\ AllObjects
    BY <2>0 DEF EndInv, Imported, Well
  <2>4. QED
    BY <2>1, <2>2, <2>3 DEF StoreEnd, AllFields, AllObjects
<1>7. QED
  BY <1>3, <1>4, <1>5, <1>6 DEF EndIsTrue

(* The commands of a deployment have no plan, and end by themselves.       *)
LEMMA DeploymentsEnd == DeployNext => command \in Silent
BY DEF DeployNext, Bundle, FinishBundle, List, Confirm, Read, RequestUpload, Put, PutAgain,
       CreateVersion, CreateUnanswered, Release, DeployFails, ConfirmRelease, FindVersion,
       ReleaseFails, CleanRemote, CleanLocal, CleanFails, OtherRelease, OtherBundle, Runs, Silent

-----------------------------------------------------------------------------
(* What a command says when it ends is true of what it leaves: no plugin   *)
(* is registered whose files are gone, the executable is the old or the    *)
(* verified new one, app init has taken back what it made if it says it    *)
(* has failed, a configuration found valid has no flaw, results are those  *)
(* of an operation that has completed, and a store's token is kept.        *)
THEOREM WhatIsSaidIsTrue == Spec => []EndIsTrue
<1>1. Init => EndInv
  BY EndInvStarts
<1>2. PlanInv /\ EndInv /\ [Next]_vars => EndInv'
  <2> SUFFICES ASSUME PlanInv, EndInv, [Next]_vars PROVE EndInv'
    OBVIOUS
  <2>1. PlanIsSound
    BY DEF PlanInv
  <2>2. CASE DeployNext /\ UNCHANGED <<plannedVars, buildVars>>
    BY <2>2, DeploymentsEnd, DeploymentsAlone, EndInvStays
  <2>3. CASE Steps \/ World \/ StepFails(Handled) \/ Killed(Listening)
    BY <2>1, <2>3, AnyStep, StepsTell, OnlyPlanned, EndInvGoesOn
  <2>4. CASE UNCHANGED <<commandVars, plannedVars>>
    BY <2>4, EndInvStays DEF commandVars
  <2>5. QED
    BY <2>2, <2>3, <2>4 DEF Next, vars, commandVars
<1>3. EndInv => EndIsTrue
  BY ExitsAreTrue
<1>4. QED
  BY <1>1, <1>2, <1>3, PlanInvHolds, PTL DEF Spec
=============================================================================
