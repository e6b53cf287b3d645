-------------------------- MODULE AppConfiguration --------------------------
(***************************************************************************)
(* The configuration of an app project: which of its shopify.app*.toml a   *)
(* command works on (crates/cfy-config/src/project.rs, active_config.rs    *)
(* and commands/app.rs, commands/app/config.rs), and the commands that     *)
(* read and write it: app config link, pull, use and validate, app info,   *)
(* app env show and pull, app versions list.                               *)
(*                                                                         *)
(* A project holds some of the configurations of Configs; "default" is     *)
(* shopify.app.toml.  files["state"] is Catify's choice for the project,   *)
(* files["preference"] the Shopify CLI's; both are names of files.         *)
(* --client-id is that of the configuration Flagged, CFY_CONFIG names the  *)
(* one of the environment.  --config is given in one of three spellings:   *)
(* Flagged by its name or its file's ("config"), by a path                 *)
(* ("config-path"), or as the word `default` ("config-default"), which is  *)
(* shopify.app.toml to some commands, and shopify.app.default.toml,        *)
(* NamedDefault, to all where there is one.                                *)
(***************************************************************************)
EXTENDS Command

CONSTANTS Configs, Flagged, FromEnvironment, NamedDefault

None == "none"
Unknown == "unknown"

ASSUME ConfigurationAssumption ==
  None \notin Configs /\ Unknown \notin Configs /\ NamedDefault # None

Present == DOMAIN files \intersect Configs
Saved == Content("state")
Preferred == Content("preference")

Projects ==
  {f \in UNION {[D -> {"user"} \union Configs] : D \in SUBSET (Configs \union {"state", "preference"})} :
     /\ DOMAIN f \intersect Configs # {}
     /\ \A p \in DOMAIN f : f[p] = "user" <=> p \in Configs}

(* config use, validate and pull do not look at the preference.            *)
Unpreferred == {f \in Projects : "preference" \notin DOMAIN f}

-----------------------------------------------------------------------------
(* select_config, and select_app_config_path of `config validate`.         *)
Default ==
  IF "default" \in Present THEN "default"
  ELSE IF Cardinality(Present) = 1 THEN CHOOSE c \in Present : TRUE
  ELSE None

Select(requested) ==
  IF requested = None THEN Default
  ELSE IF requested \in Present THEN requested ELSE None

First(a, b) == IF a = None THEN b ELSE a
Option(o, c) == IF o \in given THEN c ELSE None
Remembered == IF "reset" \in given THEN None ELSE Saved

(* --config for select_config: a path, a file name, or a name, the default *)
(* one included.                                                           *)
ByName ==
  IF {"config", "config-path"} \intersect given # {} THEN Flagged
  ELSE Option("config-default", IF NamedDefault \in Present THEN NamedDefault ELSE "default")

(* And for normalized_app_config_name, which makes a file name of it: a    *)
(* path is no file's name, and `default` a file like any other.            *)
ByFileName ==
  IF "config-path" \in given THEN Unknown
  ELSE IF "config" \in given THEN Flagged
  ELSE Option("config-default", NamedDefault)

(* selected_app_environment, then resolve_environment.                     *)
EnvironmentChoice ==
  LET explicit == First(ByName, Option("CFY_CONFIG", FromEnvironment))
      asked == First(explicit, First(Option("client-id", Flagged), Remembered))
  IN Select(First(asked, Preferred))

(* app_config_validate.                                                    *)
ValidateChoice ==
  Select(First(ByFileName, First(Option("client-id", Flagged), Remembered)))

(* Mutant: pull takes the default, whatever was saved.                     *)
PullDefault ==
  LET explicit == First(ByFileName, Option("client-id", Flagged))
  IN IF explicit # None THEN Select(explicit) ELSE Default

(* app config pull: a saved choice that is gone is passed over.            *)
PullChoice ==
  LET explicit == First(ByFileName, Option("client-id", Flagged))
  IN IF explicit # None THEN Select(explicit)
     ELSE IF Remembered \in Present THEN Remembered ELSE Default

-----------------------------------------------------------------------------
(* The commands.                                                           *)

(* AppConfigGraph::load_selected, and what may be wrong with the project;  *)
(* a file that does not parse counts as an empty one.                      *)
Graph == <<"app-table", "extensions", "webs", "duplicates">>
Flaws == IF given = {} THEN {{}} \union {{f} : f \in {"app", "extension", "web", "duplicate"}} ELSE {{}}

Spellings == {"config", "config-path", "config-default"}
ConfigOptions == {"client-id", "reset"}
OptionsWith(others) ==
  {g \union w : g \in SUBSET (ConfigOptions \union others), w \in {{}} \union {{s} : s \in Spellings}}
Choosing == OptionsWith({})

ConfigUse ==
  /\ Begin("config-use", OptionsWith({"prompt"}), Unpreferred, {<<>>})
  /\ todo = <<"state">> \o Chosen("reset", <<"clear">>)
            \o Without("reset", <<"configs", "choose", "save">>)
  /\ agreed = {"state"}

ConfigValidate ==
  /\ Begin("config-validate", Choosing, Unpreferred, [flaws : Flaws])
  /\ todo = <<"state">> \o Chosen("reset", <<"clear">>) \o <<"choose">> \o Graph \o <<"report">>
  /\ agreed = {"state"}

ConfigPull ==
  /\ Begin("config-pull", Choosing, Unpreferred, {<<>>})
  /\ todo = <<"state">> \o Chosen("reset", <<"clear">>)
            \o <<"configs", "choose", "session", "management", "app", "write-config">>
  /\ agreed = {"state"}

(* config link: the app is an existing one or a new one, and the file one  *)
(* that is there (Flagged), or the one that --file-name names.             *)
ConfigLink ==
  /\ Begin("config-link", (SUBSET {"client-id", "file", "force", "new", "prompt"}) \union {{"delegate"}},
           {Only(Flagged, "user"), <<>>}, [apps : {0}])
  /\ todo = Chosen("delegate", <<"delegate">>)
            \o Without("delegate",
                 <<"configs", "session", "management", "organizations", "organization">>
                 \o (IF "new" \in given /\ "client-id" \notin given THEN <<"create-app">> ELSE <<>>)
                 \o (IF "new" \notin given /\ "client-id" \notin given /\ Present = {}
                     THEN <<"choose-app">> ELSE <<>>)
                 \o <<"mapping", "app", "write-config">>)
  /\ agreed = {}

AppInfo ==
  /\ Begin("info", OptionsWith({"web-env", "CFY_CONFIG"}), Projects, {[flaws |-> {}]})
  /\ todo = <<"environment">> \o Without("web-env", Graph)
  /\ agreed = {"state"}

EnvShow ==
  /\ Begin("env-show", OptionsWith({"CFY_CONFIG"}), Projects, {<<>>})
  /\ todo = <<"environment">>
  /\ agreed = {"state"}

EnvPull ==
  /\ Begin("env-pull", {{}}, {Over(Only("default", "user"), e) : e \in {<<>>} \union [{".env"} -> {"user", "unreadable"}]},
           {<<>>})
  /\ todo = <<"environment", "write-env">>
  /\ agreed = {}

VersionsList ==
  /\ Begin("versions-list", {{}}, {Only("default", "user")}, {<<>>})
  /\ todo = <<"environment", "session", "management", "app", "versions">>
  /\ agreed = {}

ConfigurationBegins ==
  \/ ConfigUse \/ ConfigValidate \/ ConfigPull \/ ConfigLink
  \/ AppInfo \/ EnvShow \/ EnvPull \/ VersionsList

-----------------------------------------------------------------------------
(* Steps of several commands.                                              *)

(* The project and what it selects; --reset forgets the saved choice.      *)
ReadEnvironment ==
  /\ At("environment")
  /\ Present # {} => EnvironmentChoice # None
  /\ Learn("config", EnvironmentChoice)
  /\ IF "reset" \in given /\ Exists("state") THEN Gone("state") ELSE UNCHANGED files
  /\ Then
  /\ UNCHANGED <<agreed, server, sent>>

ReadSession == Step("session")
ManagementToken == Step("management")
ReadApp == Step("app")

(* What is found wrong is a diagnostic, and never stops the loading.       *)
Diagnoses(s, flaw) ==
  /\ At(s)
  /\ Learn("wrong", (IF Knows("wrong") THEN held["wrong"] ELSE {})
                    \union (server.flaws \intersect {flaw}))
  /\ Then /\ Quiet

ParseApp == Diagnoses("app-table", "app")
DiscoverExtensions == Diagnoses("extensions", "extension")
DiscoverWebs == Diagnoses("webs", "web")
FindDuplicates == Diagnoses("duplicates", "duplicate")

(* Mutant: only what is wrong with the app's own file counts.              *)
ReportApp ==
  /\ command = "config-validate" /\ At("report")
  /\ Return(IF "app" \in held["wrong"] THEN "error" ELSE "ok")
  /\ UNCHANGED held /\ Quiet

(* config validate exits with 1 where there is an error.                   *)
ReportValidity ==
  /\ command = "config-validate" /\ At("report")
  /\ Return(IF held["wrong"] = {} THEN "ok" ELSE "error")
  /\ UNCHANGED held /\ Quiet

(* load_local_app_configs: one that cannot be read stops the command.      *)
LoadConfigs ==
  /\ \A c \in Present : files[c] # "broken"
  /\ Step("configs")

(* ActiveConfigState: load, then clear or set, and write.                  *)
LoadState == Step("state")

ClearState ==
  /\ At("clear")
  /\ IF Exists("state") THEN Gone("state") ELSE UNCHANGED files
  /\ Then /\ OnDisk

Chooses(c, choice) ==
  /\ command = c /\ At("choose")
  /\ choice \in Present
  /\ Learn("config", choice)
  /\ Pass /\ Quiet

Named == Spellings \union {"client-id"}
ChooseNamed ==
  /\ given \intersect Named # {}
  /\ Chooses("config-use", First(ByFileName, Option("client-id", Flagged)))

AskForConfig ==
  /\ given \intersect Named = {} /\ "prompt" \in given
  /\ \E c \in Present : Chooses("config-use", c)

ChooseValidated == Chooses("config-validate", ValidateChoice)
ChoosePulled == Chooses("config-pull", PullChoice)

SaveState == Replace("save", "state", held["config"])

-----------------------------------------------------------------------------
(* app config link and pull.                                               *)

Delegate == Step("delegate")
ListOrganizations == Step("organizations")

(* One organization, --client-id to find it by, or somebody to ask.        *)
ChooseOrganization ==
  /\ given \intersect {"client-id", "prompt"} # {}
  /\ Step("organization")

(* Mutant: the app is created again when the answer is lost.               *)
CreateAppAgain ==
  \/ Mutation("create-app", Only("apps", server.apps + 1))
  \/ /\ At("create-app") /\ server.apps < 2
     /\ sent' = Append(sent, "create-app") /\ server' = [server EXCEPT !.apps = @ + 1]
     /\ Stay /\ OnServer

(* create_app: one request; its app stays if nothing after it succeeds.    *)
CreateApp ==
  /\ "prompt" \in given
  /\ Present # {}
  /\ Mutation("create-app", Only("apps", server.apps + 1))

(* Without configurations to name it, the app is one of the list.          *)
ChooseApp == "prompt" \in given /\ Step("choose-app")

(* linked_config_target: the file selected, which may be written over.     *)
MapLocal ==
  /\ At("mapping")
  /\ \E local \in IF Present = {} THEN {None}
                  ELSE Present \union (IF "new" \in given THEN {} ELSE {None}) :
       /\ held' = Over([config |-> IF local = None THEN Flagged ELSE local,
                        force |-> "force" \in given \/ local # None], held)
       /\ agreed' = agreed \union IF "force" \in given THEN {Flagged} ELSE {}
  /\ Pass
  /\ UNCHANGED <<files, server, sent>>

(* write_linked_config: the remote configuration over the file's own; what *)
(* cannot be parsed counts for nothing.                                    *)
Linked(c) ==
  IF ~Exists(c) THEN "new" ELSE IF files[c] = "broken" THEN "rebuilt" ELSE "merged"

Overwrites == command = "config-pull" \/ (Knows("force") /\ held["force"])

(* Mutant: the remote configuration alone.                                 *)
WriteRemote ==
  /\ At("write-config")
  /\ Replace("write-config", held["config"], "new")

WriteConfig ==
  /\ At("write-config")
  /\ held["config"] \in DOMAIN files => Overwrites
  /\ Replace("write-config", held["config"], Linked(held["config"]))

-----------------------------------------------------------------------------
(* app env pull: merge_dotenv keeps what is not the app's; a file that     *)
(* cannot be read counts for nothing.                                      *)
MergeEnv ==
  Replace("write-env", ".env",
          IF ~Exists(".env") THEN "new" ELSE IF files[".env"] = "unreadable" THEN "rebuilt" ELSE "merged")

ListVersions == Step("versions")

(* The user edits a configuration while the command runs, and may leave it *)
(* in a state that does not parse.                                         *)
Edit ==
  /\ Planned /\ command \in {"config-pull", "config-link"}
  /\ \E c \in Present, to \in {"user", "broken"} :
       files[c] \in {"user", "broken"} /\ files' = [files EXCEPT ![c] = to]
  /\ Stay /\ OnDisk

ConfigurationSteps ==
  \/ ReadEnvironment \/ ReadSession \/ ManagementToken \/ ReadApp
  \/ ParseApp \/ DiscoverExtensions \/ DiscoverWebs \/ FindDuplicates \/ ReportValidity
  \/ LoadConfigs \/ LoadState \/ ClearState \/ SaveState
  \/ ChooseNamed \/ AskForConfig \/ ChooseValidated \/ ChoosePulled
  \/ Delegate \/ ListOrganizations \/ ChooseOrganization \/ CreateApp \/ ChooseApp \/ MapLocal \/ WriteConfig
  \/ MergeEnv \/ ListVersions

-----------------------------------------------------------------------------
(* No two commands work on different configurations, as long as CFY_CONFIG *)
(* is not set, the Shopify CLI has no preference, and the saved choice is  *)
(* still there.  (`config validate` and `config pull` read neither of the  *)
(* first two, and the others stop at a choice that is gone.)  They all     *)
(* choose the same, except that `config validate` and `config pull` stop   *)
(* at a --config that is a path, or that is `default` and no file of that  *)
(* name, which the others understand.                                      *)
SameChoice ==
  /\ Present # {} /\ "CFY_CONFIG" \notin given
  /\ Preferred = None /\ Saved \in Present \union {None}
  => /\ ValidateChoice = PullChoice
     /\ ValidateChoice # None => ValidateChoice = EnvironmentChoice
     /\ EnvironmentChoice # None /\ ValidateChoice = None =>
          \/ "config-path" \in given
          \/ "config-default" \in given /\ NamedDefault \notin Present
=============================================================================
