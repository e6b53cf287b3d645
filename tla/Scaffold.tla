------------------------------ MODULE Scaffold ------------------------------
(***************************************************************************)
(* app init (app_init of crates/cfy-cli/src/commands/app.rs, over          *)
(* crates/cfy-app-init/src/lib.rs) and theme init                          *)
(* (crates/cfy-theme-init/src/lib.rs): a template is cloned and becomes a  *)
(* project in a directory of its own.                                      *)
(*                                                                         *)
(* files["directory"] is the project's: "user" where somebody has files    *)
(* there, "empty", then "partial" until it is "ready"; files["staging"] is *)
(* the clone an app is copied from.  server.template is "bad" where a link *)
(* is in it, or a file that cannot be rendered or merged.                  *)
(***************************************************************************)
EXTENDS AppConfiguration

Directories == {<<>>} \union [{"directory"} -> {"user", "empty"}]

(* With --client-id the app exists; otherwise it is a new one if a name is *)
(* given, or if that is the answer.                                        *)
IsNew == "client-id" \notin given /\ given \intersect {"name", "new"} # {}

AppInit ==
  /\ Begin("app-init",
           {g \in SUBSET {"template", "client-id", "name", "organization", "pnpm", "prompt", "new"} :
              "new" \in g => "prompt" \in g},
           Directories, [template : {"good", "bad"}, apps : {0}])
  /\ todo = <<"template", "inputs", "session", "business", "management", "organizations">>
            \o (IF "client-id" \in given THEN <<"find-app">> ELSE <<"pick-organization", "pick-app">>)
            \o <<"validate-app", "clone-app", "make", "copy", "package">>
            \o Chosen("pnpm", <<"workspace">>)
            \o <<"install", "git-init", "unstage">>
            \o (IF IsNew THEN <<"create", "fetch">> ELSE <<>>)
            \o <<"link">>
  /\ agreed = {}

ThemeInit ==
  /\ Begin("theme-init", SUBSET {"name", "latest", "branch", "skeleton"}, Directories,
           [template : {"good"}, tags : BOOLEAN])
  /\ todo = <<"validate-theme", "clone-theme">>
            \o Chosen("latest", <<"describe", "checkout">>)
            \o <<"remotes", "origin">> \o Chosen("skeleton", <<"clean">>)
  /\ agreed = {}

ScaffoldBegins == AppInit \/ ThemeInit

-----------------------------------------------------------------------------
(* What is asked for; what is not given is prompted for.                   *)
ChooseTemplate == given \intersect {"template", "prompt"} # {} /\ Step("template")

CheckInputs ==
  /\ "client-id" \in given \/ "prompt" \in given \/ {"name", "organization"} \subseteq given
  /\ Step("inputs")

BusinessToken == Step("business")
FindApp == Step("find-app")

(* One organization needs no question.                                     *)
PickOrganization == Step("pick-organization")
PickApp == Step("pick-app")

-----------------------------------------------------------------------------
(* app init.                                                               *)

(* Mutant: it may.                                                         *)
ValidateNothing == Step("validate-app")

(* validate: nothing may be where the project goes.                        *)
ValidateApp == ~Exists("directory") /\ Step("validate-app")

CloneApp == Replace("clone-app", "staging", "clone")

MakeDirectory == ~Exists("directory") /\ Replace("make", "directory", "partial")

(* copy_template and the manifests: what is "bad" stops them.              *)
CopyTemplate == At("copy") /\ server.template = "good" /\ Step("copy")
UpdatePackage == Step("package")
UpdateWorkspace == Step("workspace")
InstallDependencies == Step("install")
InitGit == Replace("git-init", "directory", "ready")

(* What the system refuses to remove stays; that is no failure, and not    *)
(* modelled.                                                               *)
Unstage == At("unstage") /\ Gone("staging") /\ Then /\ OnDisk

(* app init makes its directory, and takes it back when a step fails: from *)
(* the clone to git init its staging too, and from createApp to the link,  *)
(* while the app of Shopify's stays.                                       *)
Removed == files' = [p \in DOMAIN files \ {"directory", "staging"} |-> files[p]]

Undone == {"clone-app", "make", "copy", "package", "workspace", "install", "git-init",
           "create", "fetch", "link"}

(* Mutant: the staging directory alone.                                    *)
RollBackStaging ==
  /\ Planned /\ Head(todo) \in Undone
  /\ IF Exists("staging") THEN Gone("staging") ELSE UNCHANGED files
  /\ Return("error")
  /\ OnDisk

RollBack ==
  /\ Planned /\ Head(todo) \in Undone
  /\ Removed
  /\ Return("error")
  /\ OnDisk

CreateInitApp ==
  /\ At("create")
  /\ sent' = Append(sent, "create")
  /\ server' = [server EXCEPT !.apps = @ + 1]
  /\ \/ Pass /\ UNCHANGED files
     \/ Return("error") /\ Removed
  /\ UNCHANGED <<held, agreed>>

FetchApp == Step("fetch")
LinkDirectory == Replace("link", "directory", "linked")

(* Another process makes the directory after validate has looked; create   *)
(* then fails, and RollBack takes that directory for the command's own.    *)
SomebodyMakes ==
  /\ Planned /\ command = "app-init"
  /\ Head(todo) \in {"clone-app", "make"} /\ ~Exists("directory")
  /\ Set("directory", "user")
  /\ Stay /\ OnDisk

-----------------------------------------------------------------------------
(* theme init: git writes into the directory itself, and what it has       *)
(* written stays when a later step fails.                                  *)

ValidateTheme ==
  /\ "name" \in given
  /\ Content("directory") \in {"none", "empty"}
  /\ ~{"latest", "branch"} \subseteq given
  /\ Step("validate-theme")

CloneTheme ==
  /\ Content("directory") \in {"none", "empty"}
  /\ Replace("clone-theme", "directory", "cloned")

DescribeTag == At("describe") /\ server.tags /\ Step("describe")
CheckoutTag == Step("checkout")
ListRemotes == Step("remotes")
RemoveOrigin == Replace("origin", "directory", "ready")
CleanSkeleton == Step("clean")

ScaffoldSteps ==
  \/ ChooseTemplate \/ CheckInputs \/ BusinessToken \/ FindApp \/ PickOrganization \/ PickApp
  \/ ValidateApp \/ CloneApp \/ MakeDirectory \/ CopyTemplate \/ UpdatePackage \/ UpdateWorkspace
  \/ InstallDependencies \/ InitGit \/ Unstage \/ RollBack \/ CreateInitApp \/ FetchApp \/ LinkDirectory
  \/ ValidateTheme \/ CloneTheme \/ DescribeTag \/ CheckoutTag \/ ListRemotes \/ RemoveOrigin \/ CleanSkeleton
=============================================================================
