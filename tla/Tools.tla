------------------------------- MODULE Tools -------------------------------
(***************************************************************************)
(* What the CLI does for itself: plugins (crates/cfy-plugins), its own     *)
(* upgrade and the check for one (cfy-upgrade, update_check.rs), settings  *)
(* and caches, the cached documents (cfy-docs), the archive of a theme.    *)
(*                                                                         *)
(* server is what the processes of one user share: the registry of plugins *)
(* (records, a set of <<name, kind>>) and the trees npm has made           *)
(* (artifacts).  The registry is read, changed and replaced with no lock:  *)
(* raced are the plugins whose installation another process has changed    *)
(* meanwhile.                                                              *)
(***************************************************************************)
EXTENDS Command

CONSTANT MaxOthers   \* how often another process changes the plugins

Plugins == {"p", "q"}
Kinds == {"installed", "linked"}
Registries ==
  {[records |-> i \X {"installed"} \union l \X {"linked"}, artifacts |-> i, raced |-> {}, others |-> 0,
    readable |-> r] :
     i \in SUBSET Plugins, l \in {{}, {"p"}}, r \in BOOLEAN}

-----------------------------------------------------------------------------
(* The commands.                                                           *)

OneInstall == <<"npm", "load-registry", "record-plugin">>
OneRemoval == <<"find-plugin", "load-registry", "drop-plugin", "remove-artifacts">>

PluginsAdd ==
  /\ Begin("plugins-install", {{"p"}, {"p", "q"}}, {<<>>}, Registries)
  /\ todo = <<"named-plugins">>

PluginsLink ==
  /\ Begin("plugins-link", {{"p"}, {"p", "no-install"}}, {<<>>}, Registries)
  /\ todo = <<"named-plugins">>

PluginsRemove ==
  /\ \E c \in {"plugins-remove", "plugins-uninstall", "plugins-unlink"} :
       Begin(c, {{"p"}, {"p", "q"}, {"prompt"}, {}}, {<<>>}, Registries)
  /\ todo = <<"named-plugins">>

PluginsUpdate ==
  /\ Begin("plugins-update", {{}}, {<<>>}, Registries)
  /\ todo = <<"installed-plugins">>

PluginsReset ==
  /\ Begin("plugins-reset", SUBSET {"hard", "reinstall"}, {<<>>}, Registries)
  /\ todo = <<"installed-plugins">>

PluginsInspect ==
  /\ Begin("plugins-inspect", {{"p"}, {}}, {<<>>}, Registries)
  /\ todo = <<"inspect">>

Upgrade ==
  /\ Begin("upgrade", SUBSET {"workspace", "homebrew", "cargo", "npm", "standalone", "prompt"},
           {[p \in {"executable", "version-file"} |-> "old"]}, {<<>>})
  /\ todo = <<"detect">>

UpdateCheck ==
  /\ \/ Begin("any-command", SUBSET {"eligible", "fresh"}, {<<>>, [p \in {"update-cache"} |-> "newer"]}, {<<>>})
        /\ todo = <<"notify">>
     \/ Begin("update-check", {{}}, {<<>>}, {<<>>}) /\ todo = <<"latest", "update-cache">>

Settings ==
  /\ Begin("config", {{"status"}, {"on"}}, {<<>>} \union [{"settings"} -> {"user", "unreadable"}], {<<>>})
  /\ todo = <<"settings">>

ClearCaches ==
  /\ Begin("cache-clear", SUBSET {"build-cache"}, {[p \in {"document", "builds"} |-> "cached"]}, {<<>>})
  /\ todo = <<"clear-documents">> \o Chosen("build-cache", <<"clear-builds">>)

DocFetch ==
  /\ Begin("doc-fetch", {{}}, {<<>>} \union [{"document"} -> {"cached", "torn"}], {<<>>})
  /\ todo = <<"read-document", "fetch-document", "write-document", "keep-document", "prune-documents">>

ThemePackage ==
  /\ Begin("theme-package", {{}}, {<<>>, [p \in {"archive"} |-> "old"]}, {<<>>})
  /\ todo = <<"create-archive", "collect-files", "finish-archive">>

ToolsBegin ==
  /\ \/ PluginsAdd \/ PluginsLink \/ PluginsRemove \/ PluginsUpdate \/ PluginsReset \/ PluginsInspect
     \/ Upgrade \/ UpdateCheck \/ Settings \/ ClearCaches \/ DocFetch \/ ThemePackage
  /\ agreed = {}

-----------------------------------------------------------------------------
(* Plugins.  held.plugins are those still to be dealt with, held.failed is *)
(* set where npm has failed and the command goes on.                       *)

Plugin == Head(held.plugins)
InOrder(S) == CHOOSE s \in [1 .. Cardinality(S) -> S] : \A p \in S : \E i \in DOMAIN s : s[i] = p
Installed == {r[1] : r \in {q \in server.records : q[2] = "installed"}}
Each(S, steps) == IF S = {} THEN <<>> ELSE IF Cardinality(S) = 1 THEN steps ELSE steps \o steps
Deal(S) == held' = Over([plugins |-> InOrder(S), failed |-> FALSE], held)
For(S, steps) == Deal(S) /\ todo' = Each(S, steps) \o Tail(todo) \o <<"exits">>
NextPlugin == Tail(held.plugins)
Whole == UNCHANGED <<commandVars, given, found>>

(* selected_plugin_names: without names, one of those there are is asked   *)
(* for.                                                                    *)
PluginNames ==
  /\ At("named-plugins")
  /\ \E S \in SUBSET Plugins :
       /\ IF given \intersect Plugins # {} THEN S = given \intersect Plugins
          ELSE /\ server.readable
               /\ LET choices == {r[1] : r \in {q \in server.records :
                                    \/ command = "plugins-remove"
                                    \/ q[2] = IF command = "plugins-unlink" THEN "linked" ELSE "installed"}}
                  IN IF choices = {} THEN S = {}
                     ELSE "prompt" \in given /\ S \subseteq choices /\ Cardinality(S) = 1
       /\ For(S, CASE command = "plugins-install" -> OneInstall
                   [] command = "plugins-link" -> Without("no-install", <<"npm">>) \o <<"load-registry", "record-plugin">>
                   [] OTHER -> OneRemoval)
  /\ Whole /\ Quiet

InstalledPlugins ==
  /\ At("installed-plugins")
  /\ server.readable
  /\ IF command = "plugins-update"
     THEN For(Installed, <<"npm">>)
     ELSE /\ Deal(Installed)
          /\ todo' = <<"clear-registry">>
                     \o (IF given \intersect {"hard", "reinstall"} = {} THEN <<>> ELSE <<"remove-all">>)
                     \o Chosen("reinstall", Each(Installed, OneInstall)) \o <<"exits">>
  /\ Whole /\ Quiet

(* run_package_manager: an installation or a link ends where npm fails; an *)
(* update or a reset goes on, and says so at its end.                      *)
NpmWorks ==
  /\ At("npm")
  /\ \/ /\ command \in {"plugins-install", "plugins-reset"}
        /\ server' = [server EXCEPT !.artifacts = @ \union {Plugin}]
        /\ UNCHANGED held
     \/ command = "plugins-link" /\ UNCHANGED <<held, server>>
     \/ command = "plugins-update" /\ held' = [held EXCEPT !.plugins = NextPlugin] /\ UNCHANGED server
  /\ Pass /\ UNCHANGED <<files, agreed, sent>>

NpmFails ==
  /\ At("npm")
  /\ IF command \in {"plugins-install", "plugins-link"} THEN Return("error") /\ UNCHANGED held
     ELSE /\ held' = [held EXCEPT !.plugins = NextPlugin, !.failed = TRUE]
          /\ todo' = SubSeq(todo, IF command = "plugins-reset" THEN 4 ELSE 2, Len(todo))
          /\ Whole
  /\ Quiet

LoadRegistry ==
  /\ At("load-registry")
  /\ server.readable
  /\ Learn("registry", server.records)
  /\ Pass /\ Quiet

RecordPlugin ==
  /\ At("record-plugin")
  /\ server' = [server EXCEPT !.records =
                  held.registry \union {<<Plugin, IF command = "plugins-link" THEN "linked" ELSE "installed">>}]
  /\ held' = [held EXCEPT !.plugins = NextPlugin]
  /\ Pass /\ UNCHANGED <<files, agreed, sent>>

FindPlugin ==
  /\ At("find-plugin")
  /\ command # "plugins-remove" \/ server.readable
  /\ Learn("kind", CASE command = "plugins-uninstall" -> "installed"
                     [] command = "plugins-unlink" -> "linked"
                     [] <<Plugin, "linked">> \in server.records -> "linked"
                     [] OTHER -> "installed")
  /\ Pass /\ Quiet

(* Mutant: the tree of a plugin goes before its record.                    *)
DropTreeFirst ==
  /\ At("drop-plugin")
  /\ server' = [server EXCEPT !.artifacts = @ \ {Plugin}]
  /\ Pass /\ UNCHANGED <<held, files, agreed, sent>>

DropPlugin ==
  /\ At("drop-plugin")
  /\ LET r == <<Plugin, held.kind>>
         there == r \in held.registry
     IN /\ server' = IF there THEN [server EXCEPT !.records = held.registry \ {r}] ELSE server
        /\ IF there /\ held.kind = "installed" THEN Pass /\ UNCHANGED held
           ELSE /\ held' = [held EXCEPT !.plugins = NextPlugin]
                /\ todo' = SubSeq(todo, 3, Len(todo)) /\ Whole
  /\ UNCHANGED <<files, agreed, sent>>

RemoveArtifacts ==
  /\ At("remove-artifacts")
  /\ server' = [server EXCEPT !.artifacts = @ \ {Plugin}]
  /\ held' = [held EXCEPT !.plugins = NextPlugin]
  /\ Pass /\ UNCHANGED <<files, agreed, sent>>

ClearRegistry ==
  /\ At("clear-registry")
  /\ server' = [server EXCEPT !.records = {}]
  /\ Pass /\ OnServer /\ UNCHANGED sent

RemoveAllArtifacts ==
  /\ At("remove-all")
  /\ server' = [server EXCEPT !.artifacts = {}]
  /\ Pass /\ OnServer /\ UNCHANGED sent

PluginExits ==
  /\ At("exits")
  /\ Return(IF held.failed THEN "error" ELSE "ok")
  /\ UNCHANGED held /\ Quiet

InspectPlugins ==
  /\ At("inspect")
  /\ server.readable
  /\ "p" \notin given \/ \E k \in Kinds : <<"p", k>> \in server.records
  /\ Step("inspect")

(* Another process stores the registry: what it had loaded, however long   *)
(* ago, with a plugin of its own, a link or an installation more or less.  *)
(* What this one has stored since is gone, what it has dropped is back.    *)
Recorded(p) == <<p, "installed">> \in server.records
Another(records, artifacts, changed) ==
  /\ Planned /\ "records" \in DOMAIN server /\ server.others < MaxOthers
  /\ server' = [server EXCEPT !.records = records, !.artifacts = artifacts, !.raced = @ \union changed,
                              !.others = @ + 1]
  /\ Stay /\ OnServer /\ UNCHANGED sent

OtherStores ==
  \E r \in (Plugins \X Kinds) \union {<<"other", "linked">>} :
    \/ Another(server.records \ {r}, server.artifacts, {})
    \/ Another(server.records \union {r}, server.artifacts,
               {p \in Plugins : ~Recorded(p) /\ r = <<p, "installed">>})

(* Another process has a plugin's tree made by npm, or removes it.         *)
OtherChangesTree ==
  \E p \in Plugins :
    \/ Another(server.records, server.artifacts \union {p}, {p})
    \/ Another(server.records, server.artifacts \ {p}, {p})

-----------------------------------------------------------------------------
(* The upgrade.                                                            *)

Standalone == <<"releases", "fetch-release", "verify", "extract-binary", "replace-executable", "set-mode", "version-file">>

(* detect_with: the first that fits; what it does not know, and a build    *)
(* from source, is not upgraded.                                           *)
DetectInstall ==
  /\ At("detect")
  /\ "workspace" \notin given
  /\ given \intersect {"homebrew", "cargo", "npm", "standalone"} # {}
  /\ "prompt" \in given
  /\ todo' = IF given \intersect {"homebrew", "cargo", "npm"} = {} THEN Standalone ELSE <<"package-manager">>
  /\ Whole /\ UNCHANGED held /\ Quiet

(* What the package manager does to the installation is its own.           *)
ExecuteUpgrade == Step("package-manager")

FindRelease ==
  /\ At("releases")
  /\ \/ Return("ok")
     \/ Pass
  /\ UNCHANGED held /\ Quiet

DownloadRelease ==
  /\ At("fetch-release")
  /\ \E a \in {"released", "altered"} : Learn("archive", a)
  /\ Pass /\ Quiet

(* Mutant: what was downloaded is not compared with its checksum.          *)
VerifyNothing == Step("verify")

VerifyChecksum ==
  /\ At("verify")
  /\ held.archive = "released"
  /\ Step("verify")

ExtractBinary == Step("extract-binary")
ReplaceExecutable == At("replace-executable") /\ Replace("replace-executable", "executable", held.archive)
SetMode == Step("set-mode")
WriteVersion == Replace("version-file", "version-file", "released")

(* maybe_notify_and_refresh, before any command; the check itself is a     *)
(* process of its own.                                                     *)
NotifyAndRefresh ==
  /\ At("notify")
  /\ IF "eligible" \in given /\ ~(Exists("update-cache") /\ "fresh" \in given)
     THEN todo' = <<"latest", "update-cache">> /\ Whole
     ELSE Return("ok")
  /\ UNCHANGED held /\ Quiet

(* A failed request is written down as no newer version, for a day.        *)
FetchLatest ==
  /\ At("latest")
  /\ \E v \in {"newer", "none"} : Learn("latest", v)
  /\ Pass /\ Quiet

WriteUpdateCache ==
  /\ At("update-cache")
  /\ \/ Set("update-cache", held.latest)
     \/ UNCHANGED files
  /\ Then /\ OnDisk

-----------------------------------------------------------------------------
(* Settings, caches, documents, archives.                                  *)

(* UserSettings::write_user writes what it knows of, and nothing else.     *)
WriteSettings ==
  /\ At("settings")
  /\ IF "on" \in given THEN Set("settings", IF Exists("settings") THEN "rebuilt" ELSE "new") ELSE UNCHANGED files
  /\ Then /\ OnDisk

ClearDocuments == At("clear-documents") /\ Gone("document") /\ Then /\ OnDisk
ClearBuilds == At("clear-builds") /\ Gone("builds") /\ Then /\ OnDisk

(* A cached document is returned; one that cannot be read is an error.     *)
ReadCachedDocument ==
  /\ At("read-document")
  /\ IF Exists("document") THEN files["document"] = "cached" /\ Return("ok") ELSE Pass
  /\ UNCHANGED held /\ Quiet

FetchDocument == Step("fetch-document")
WriteDocument == Replace("write-document", "temporary", "cached")

(* The temporary file has the same name in every process.                  *)
OtherWritesDocument ==
  /\ Planned /\ command = "doc-fetch" /\ Exists("temporary")
  /\ Set("temporary", "torn")
  /\ Stay /\ OnDisk

KeepDocument ==
  /\ At("keep-document") /\ Exists("temporary")
  /\ files' = Over(Only("document", files["temporary"]), [p \in DOMAIN files \ {"temporary"} |-> files[p]])
  /\ Pass /\ OnDisk

(* The oldest go until the limit is kept.                                  *)
PruneDocuments == Step("prune-documents")

(* Mutant: the archive is not closed.                                      *)
LeaveArchiveOpen == Step("finish-archive")

CreateArchive == Replace("create-archive", "archive", "torn")
CollectFiles == Step("collect-files")
FinishArchive == Replace("finish-archive", "archive", "complete")

ToolsSteps ==
  \/ PluginNames \/ InstalledPlugins \/ NpmWorks \/ NpmFails \/ LoadRegistry \/ RecordPlugin \/ FindPlugin
  \/ DropPlugin \/ RemoveArtifacts \/ ClearRegistry \/ RemoveAllArtifacts \/ PluginExits \/ InspectPlugins
  \/ DetectInstall \/ ExecuteUpgrade \/ FindRelease \/ DownloadRelease \/ VerifyChecksum \/ ExtractBinary
  \/ ReplaceExecutable \/ SetMode \/ WriteVersion \/ NotifyAndRefresh \/ FetchLatest \/ WriteUpdateCache
  \/ WriteSettings \/ ClearDocuments \/ ClearBuilds \/ ReadCachedDocument \/ FetchDocument \/ WriteDocument
  \/ KeepDocument \/ PruneDocuments \/ CreateArchive \/ CollectFiles \/ FinishArchive

OtherPlugins == OtherStores \/ OtherChangesTree
ToolsWorld == OtherPlugins \/ OtherWritesDocument
=============================================================================
