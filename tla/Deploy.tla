------------------------------- MODULE Deploy -------------------------------
(***************************************************************************)
(* `app deploy`, `app release` and `app dev clean`: deploy of              *)
(* crates/cfy-deploy/src/lib.rs, its arm of app_command in                 *)
(* crates/cfy-cli/src/commands/app.rs, and the requests of                 *)
(* crates/cfy-app/src/lib.rs they make, beside another deployment of the   *)
(* same app.                                                               *)
(*                                                                         *)
(* A module is its identity (uid, "" where it has none), its handle and    *)
(* the number of its configuration; n tells apart two that look the same.  *)
(* A version is the set of its modules.                                    *)
(***************************************************************************)
EXTENDS Command, Naturals, Sequences, FiniteSets

CONSTANTS
  DeployOptions,   \* the options given: release, noBuild, updates, deletes, and a terminal to ask
  LocalModules,    \* the module sets the configuration may describe
  RemoteModules,   \* the module sets that may be active
  Damaged,         \* what a half-written archive, or an old one, holds
  Rebuilt,         \* the archives another deployment in the same directory may write
  Foreign,         \* a version of somebody else
  MaxPuts          \* SourceUploadPolicy::max_retries

ASSUME DeployAssumption ==
  /\ MaxPuts \in Nat
  /\ \A S \in LocalModules \union RemoteModules \union Rebuilt \union {Damaged, Foreign} :
       IsFiniteSet(S)

VARIABLES
  opts,        \* the options of the command
  project,     \* the modules of the configuration
  archive,     \* .catify/deploy-bundle.tar.br: a version, Damaged, or {} where there is none;
               \* all deployments of the directory share it
  active,      \* the modules of the released version
  versions,    \* the versions of the app
  listed,      \* the remote modules the command has listed
  allowed,     \* ModuleReconciliationPolicy
  source,      \* the archive it has read
  stored,      \* what the signed URL holds
  attempt,     \* put_complete_source's local `attempt`
  mine,        \* the version the answer named, 0 for none
  devState,    \* .catify/dev exists
  devSession   \* the store has a development session of the app

deployVars == <<opts, project, archive, active, versions, listed, allowed, source, stored, attempt,
                mine, devState, devSession>>

NoOptions == [release |-> FALSE, noBuild |-> FALSE, updates |-> FALSE, deletes |-> FALSE,
              prompt |-> FALSE]
Nobody == [updates |-> FALSE, deletes |-> FALSE]

(* Elsewhere, the app is of no interest.                                   *)
DeployIdle ==
  /\ opts = NoOptions
  /\ project = {} /\ archive = {} /\ active = {} /\ versions = <<>>
  /\ listed = {} /\ source = {} /\ stored = {}
  /\ allowed = Nobody
  /\ attempt = 0 /\ mine = 0
  /\ devState = FALSE /\ devSession = FALSE

DeployInit ==
  \/ /\ command \in {"deploy", "release"}
     /\ at = "load"
     /\ opts \in DeployOptions
     /\ command = "release" => ~opts.noBuild /\ opts.release
     /\ project \in (IF command = "deploy" THEN LocalModules ELSE {{}})
     /\ archive \in (IF opts.noBuild THEN {{}, Damaged} \union {project} ELSE {{}})
     /\ active \in (IF command = "deploy" THEN RemoteModules ELSE {{}})
     /\ versions \in (IF command = "deploy" THEN {<<>>} ELSE {<<>>, <<Foreign>>})
     /\ listed = {} /\ source = {} /\ stored = {} /\ allowed = Nobody /\ attempt = 0 /\ mine = 0
     /\ devState = FALSE /\ devSession = FALSE
  \/ /\ command = "dev-clean"
     /\ at = "load"
     /\ opts = NoOptions
     /\ project = {} /\ archive = {} /\ active = {} /\ versions = <<>>
     /\ listed = {} /\ source = {} /\ stored = {} /\ allowed = Nobody /\ attempt = 0 /\ mine = 0
     /\ devState \in BOOLEAN /\ devSession \in BOOLEAN

-----------------------------------------------------------------------------
(* reconcile_modules: identities that are unique on both sides first, then *)
(* handles that are unique among what is left.                             *)

Identified(S, m) == m.uid # "" /\ \A o \in S \ {m} : o.uid # m.uid
Alone(S, m) == \A o \in S \ {m} : o.handle # m.handle

ById(L, R) ==
  {p \in L \X R : Identified(L, p[1]) /\ Identified(R, p[2]) /\ p[1].uid = p[2].uid}

ByHandle(L, R) ==
  {p \in L \X R : Alone(L, p[1]) /\ Alone(R, p[2]) /\ p[1].handle = p[2].handle}

Locals(P) == {p[1] : p \in P}
Remotes(P) == {p[2] : p \in P}

(* Mutant: a handle need not be unique.                                    *)
MatchesAnyHandle(L, R) ==
  LET ids == ById(L, R)
  IN ids \union {p \in (L \ Locals(ids)) \X (R \ Remotes(ids)) : p[1].handle = p[2].handle}

Matches(L, R) ==
  LET ids == ById(L, R)
  IN ids \union ByHandle(L \ Locals(ids), R \ Remotes(ids))

Updated(L, R) == {p \in Matches(L, R) : p[1].conf # p[2].conf}
Deleted(L, R) == R \ Remotes(Matches(L, R))

(* enforce_reconciliation_policy.  Mutant: deletions are let through.      *)
PolicyOfUpdates(L, R) == Updated(L, R) # {} => allowed.updates
Policy(L, R) ==
  /\ Updated(L, R) # {} => allowed.updates
  /\ Deleted(L, R) # {} => allowed.deletes

-----------------------------------------------------------------------------
(* app deploy.                                                             *)

Keep == UNCHANGED <<opts, project, devState, devSession>>
Local == UNCHANGED <<active, versions, stored, attempt, mine>>

(* The archive is written in place; --no-build takes the one that is there.*)
Bundle ==
  /\ Runs("deploy", "load")
  /\ IF opts.noBuild
     THEN archive # {} /\ Goto("list") /\ UNCHANGED archive
     ELSE archive' = Damaged /\ Goto("archive")
  /\ UNCHANGED <<listed, allowed, source>> /\ Local /\ Keep

(* Brotli writes its last block when it is dropped, and an error of that   *)
(* is lost: the archive is taken for whole, whether it is or not.          *)
FinishBundle ==
  /\ Runs("deploy", "archive")
  /\ archive' \in {project, Damaged}
  /\ Goto("list")
  /\ UNCHANGED <<listed, allowed, source>> /\ Local /\ Keep

(* active_app_modules and remote_deploy_modules.                           *)
List ==
  /\ Runs("deploy", "list")
  /\ listed' = active
  /\ Goto("confirm")
  /\ UNCHANGED <<archive, allowed, source>> /\ Local /\ Keep

(* confirm_deploy_changes asks for what no flag allows.                    *)
Confirm ==
  /\ Runs("deploy", "confirm")
  /\ LET need == [updates |-> Updated(project, listed) # {},
                  deletes |-> Deleted(project, listed) # {}]
         flag == [updates |-> opts.updates, deletes |-> opts.deletes]
     IN IF opts.prompt
        THEN \E yes \in [{"updates", "deletes"} -> BOOLEAN] :
               allowed' = [k \in {"updates", "deletes"} |-> flag[k] \/ (need[k] /\ yes[k])]
        ELSE /\ \A k \in {"updates", "deletes"} : need[k] => flag[k]
             /\ allowed' = flag
  /\ Goto("read")
  /\ UNCHANGED <<archive, listed, source>> /\ Local /\ Keep

(* complete_source_from_build, then the policy.                            *)
Read ==
  /\ Runs("deploy", "read")
  /\ archive # {}
  /\ Policy(project, listed)
  /\ source' = archive
  /\ Goto("url")
  /\ UNCHANGED <<archive, listed, allowed>> /\ Local /\ Keep

RequestUpload ==
  /\ Runs("deploy", "url")
  /\ Goto("put")
  /\ UNCHANGED <<archive, listed, allowed, source>> /\ Local /\ Keep

(* put_complete_source: an attempt that is not answered may have stored it.*)
Put ==
  /\ Runs("deploy", "put")
  /\ stored' = source
  /\ Goto("version")
  /\ UNCHANGED <<archive, listed, allowed, source, active, versions, attempt, mine>> /\ Keep

PutAgain ==
  /\ Runs("deploy", "put")
  /\ attempt < MaxPuts
  /\ attempt' = attempt + 1
  /\ stored' \in {stored, source}
  /\ UNCHANGED <<commandVars, archive, listed, allowed, source, active, versions, mine>> /\ Keep

(* appVersionCreate; it is asked for once.                                 *)
CreateVersion ==
  /\ Runs("deploy", "version")
  /\ versions' = Append(versions, stored)
  /\ mine' = Len(versions')
  /\ IF opts.release THEN Goto("release") ELSE Succeed
  /\ UNCHANGED <<archive, listed, allowed, source, active, stored, attempt>> /\ Keep

(* Mutant: a request that is not answered is made again.                   *)
CreateAgain ==
  /\ Runs("deploy", "version")
  /\ Len(versions) < 2
  /\ versions' = Append(versions, stored)
  /\ UNCHANGED <<commandVars, archive, listed, allowed, source, active, stored, attempt, mine>>
  /\ Keep

CreateUnanswered ==
  /\ Runs("deploy", "version")
  /\ versions' = Append(versions, stored)
  /\ Fail
  /\ UNCHANGED <<archive, listed, allowed, source, active, stored, attempt, mine>> /\ Keep

(* appReleaseCreate, of deploy and of app release.                         *)
Release ==
  /\ command \in {"deploy", "release"} /\ at = "release"
  /\ active' = versions[mine]
  /\ \/ Succeed
     \/ Fail
  /\ UNCHANGED <<archive, versions, listed, allowed, source, stored, attempt, mine>> /\ Keep

DeployFails ==
  /\ command = "deploy"
  /\ at \in {"load", "archive", "list", "confirm", "read", "url", "put", "version", "release"}
  /\ Fail
  /\ UNCHANGED deployVars

-----------------------------------------------------------------------------
(* app release: one flag or a yes; then the version of that tag.           *)

ConfirmRelease ==
  /\ Runs("release", "load")
  /\ opts.updates \/ opts.deletes \/ opts.prompt
  /\ Goto("find")
  /\ UNCHANGED deployVars

FindVersion ==
  /\ Runs("release", "find")
  /\ versions # <<>>
  /\ mine' \in DOMAIN versions
  /\ Goto("release")
  /\ UNCHANGED <<archive, active, versions, listed, allowed, source, stored, attempt>> /\ Keep

ReleaseFails ==
  /\ command = "release"
  /\ at \in {"load", "find", "release"}
  /\ Fail
  /\ UNCHANGED deployVars

-----------------------------------------------------------------------------
(* app dev clean: the remote session first, then .catify/dev.              *)

CleanRemote ==
  /\ Runs("dev-clean", "load")
  /\ devSession' = FALSE
  /\ \/ Goto("clean")
     \/ Fail
  /\ UNCHANGED <<opts, project, archive, listed, allowed, source, devState>> /\ Local

CleanLocal ==
  /\ Runs("dev-clean", "clean")
  /\ devState' = FALSE
  /\ Succeed
  /\ UNCHANGED <<opts, project, archive, listed, allowed, source, devSession>> /\ Local

CleanFails ==
  /\ command = "dev-clean"
  /\ at \in {"load", "clean"}
  /\ Fail
  /\ UNCHANGED deployVars

-----------------------------------------------------------------------------
(* Somebody else releases a version between two steps of the command.      *)
OtherRelease ==
  /\ command = "deploy" /\ at \in {"list", "confirm", "release"}
  /\ \A i \in DOMAIN versions : versions[i] # Foreign
  /\ versions' = Append(versions, Foreign)
  /\ active' = Foreign
  /\ UNCHANGED <<commandVars, archive, listed, allowed, source, stored, attempt, mine>> /\ Keep

(* Another deployment in the same directory writes its own archive, which  *)
(* has the same name, where ours has been written and not yet read.        *)
OtherBundle ==
  /\ command = "deploy" /\ at \in {"list", "confirm", "read"}
  /\ archive' \in {Damaged} \union Rebuilt
  /\ UNCHANGED <<commandVars, listed, allowed, source>> /\ Local /\ Keep

DeployNext ==
  \/ Bundle \/ FinishBundle \/ List \/ Confirm \/ Read \/ RequestUpload \/ Put \/ PutAgain
  \/ CreateVersion \/ CreateUnanswered \/ Release \/ DeployFails
  \/ ConfirmRelease \/ FindVersion \/ ReleaseFails
  \/ CleanRemote \/ CleanLocal \/ CleanFails
  \/ OtherRelease \/ OtherBundle

-----------------------------------------------------------------------------
(* Properties.                                                             *)

Alike(m, r) == (m.uid = r.uid /\ m.uid # "") \/ m.handle = r.handle

Ours == {i \in DOMAIN versions : versions[i] # Foreign}

(* Whatever module was active when the command asked is still there, under *)
(* its identity or its handle, with its configuration, in the version the  *)
(* command releases, unless a change or a deletion was allowed; and no two *)
(* of them have become one; provided that what it releases is what it has  *)
(* compared: the archive was built (no --no-build), and was whole and not  *)
(* replaced by another deployment's when it was read.                      *)
NothingLostUnasked ==
  command = "deploy" /\ at = "release" /\ versions[mine] = project /\ ~allowed.deletes =>
    /\ Cardinality(versions[mine]) >= Cardinality(listed)
    /\ \A r \in listed : \E m \in versions[mine] :
         /\ Alike(m, r)
         /\ m.conf = r.conf \/ allowed.updates

Contents == LocalModules \union RemoteModules \union Rebuilt \union {{}, Damaged, Foreign}

DeployTypeOK ==
  /\ todo = <<>>
  /\ project \in LocalModules
  /\ {archive, active, listed, source, stored} \subseteq Contents
  /\ versions \in Seq(Contents) /\ mine \in Nat /\ attempt \in 0..MaxPuts
  /\ at \in {"load", "archive", "list", "confirm", "read", "url", "put", "version", "release", "done"}

(* What it has built, compared, read, stored and created, step by step:    *)
(* but for a torn archive and another deployment's, it reads its own.      *)
DeployStages ==
  /\ at \in {"list", "confirm", "read"} /\ ~opts.noBuild =>
       archive \in {project, Damaged} \union Rebuilt
  /\ at \in {"url", "put", "version", "release"} =>
       /\ Policy(project, listed)
       /\ opts.noBuild \/ source \in {project, Damaged} \union Rebuilt
  /\ at = "version" => stored = source
  /\ at \notin {"release", "done"} => Ours = {} /\ result = "none"
  /\ at = "release" => mine \in DOMAIN versions /\ versions[mine] = source
  /\ \A i, j \in Ours : i = j

(* A deployment makes one version, however its requests are lost; what it  *)
(* says it has deployed is what it has read, and that is what it has built *)
(* or a torn or another deployment's archive.                              *)
DeployIsTrue ==
  command = "deploy" =>
    /\ DeployTypeOK
    /\ DeployStages
    /\ Cardinality(Ours) <= 1
    /\ result = "ok" => versions[mine] = source
    /\ NothingLostUnasked
=============================================================================
