------------------------------ MODULE Hydrogen ------------------------------
(***************************************************************************)
(* The Hydrogen commands (crates/cfy-hydrogen): link, list and unlink a    *)
(* storefront; generate routes; set up markets, css and Vite; the shell    *)
(* shortcut; and the tool that everything else is left to.                 *)
(*                                                                         *)
(* A template comes from a cache all commands of the user share:           *)
(* files["cache"] is "complete", "stale" (older than a day) or "unmarked"; *)
(* "dependency" is a module that the routes import.  server.job is the     *)
(* creation of a storefront.                                               *)
(***************************************************************************)
EXTENDS AppConfiguration

CONSTANT MaxPolls   \* how often the job is asked for

RouteFiles == {"route1", "route2"}
Caches == {<<>>} \union [{"cache"} -> {"complete", "stale", "unmarked"}]
With(paths, disk) == {Over([p \in paths |-> "user"], f) : f \in disk}
Linkable(contents) ==
  UNION {With(g, {<<>>} \union [{"project"} -> contents]) : g \in SUBSET {".gitignore"}}

-----------------------------------------------------------------------------
(* The commands.                                                           *)

HydrogenLink ==
  /\ Begin("hydrogen-link",
           {g \in SUBSET {"force", "prompt", "shop", "storefront", "create"} : ~{"storefront", "create"} \subseteq g},
           Linkable({"user", "linked", "broken"}),
           [storefronts : 0..2, job : {"none"}])
  /\ todo = <<"project", "linked", "session", "storefronts", "storefront", "link-project", "gitignore">>
  /\ agreed = IF "force" \in given THEN {"project"} ELSE {}

HydrogenList ==
  /\ Begin("hydrogen-list", {{}}, {<<>>} \union [{"project"} -> {"user", "broken"}], {<<>>})
  /\ todo = <<"project", "session", "storefronts">>
  /\ agreed = {}

HydrogenUnlink ==
  /\ Begin("hydrogen-unlink", {{}}, Linkable({"user", "linked", "broken"}), {<<>>})
  /\ todo = <<"unlink", "gitignore">>
  /\ agreed = {}

GenerateRoutes ==
  /\ Begin("hydrogen-generate", (SUBSET {"force", "prompt", "locale"}) \union {{"offline"}},
           UNION {With(p, Caches) : p \in SUBSET {"vite", "route1", "locale-route"}}, {<<>>})
  /\ todo = <<"directories", "source", "route-names", "routes">> \o Chosen("locale", <<"locale-route">>)
  /\ agreed = IF "force" \in given THEN RouteFiles ELSE {}

SetupMarkets ==
  /\ Begin("hydrogen-setup-markets", SUBSET {"strategy", "prompt"},
           UNION {With({"context"} \union o, Caches) : o \in SUBSET {"i18n"}}, {<<>>})
  /\ todo = <<"strategy", "source", "context", "i18n", "rewrite", "write-i18n", "write-context">>
  /\ agreed = {}

SetupCss ==
  /\ Begin("hydrogen-setup-css",
           {g \in SUBSET {"strategy", "prompt", "force", "tailwind", "vanilla"} : ~{"tailwind", "vanilla"} \subseteq g},
           UNION {With({"vite", "package", "root"} \union o, Caches) : o \in SUBSET {"stylesheet"}}, {<<>>})
  /\ todo = <<"vite", "strategy">>
            \o (IF given \intersect {"tailwind", "vanilla"} = {} THEN <<>>
                ELSE <<"source">> \o Chosen("tailwind", <<"stylesheet">>)
                     \o <<"merge-package", "inject">> \o Chosen("tailwind", <<"root", "write-stylesheet">>)
                     \o <<"write-vite">> \o Chosen("tailwind", <<"write-root">>))
  /\ agreed = IF "force" \in given THEN {"stylesheet"} ELSE {}

(* The upgrade takes the configuration of Remix away; files that are named *)
(* in Remix's way may have their new names already.                        *)
ViteProjects ==
  (SUBSET {"vite", "remix", "env", "root", "route1"})
  \union {{"remix", "root"} \union o : o \in SUBSET {"remix-env", "env", ".eslintrc.js", ".eslintrc.cjs"}}

SetupVite ==
  /\ Begin("hydrogen-setup-vite", {{}},
           UNION {With({"package", "server"} \union o, Caches) : o \in ViteProjects}, {<<>>})
  /\ todo = <<"no-vite", "remix", "source", "merge-package", "drop-remix", "rename-env", "env", "eslint",
              "write-server", "root", "write-root", "css-imports", "new-vite">>
  /\ agreed = {"remix"}

Shortcut ==
  /\ Begin("hydrogen-shortcut", SUBSET {"zsh"},
           {<<>>} \union [{"zsh"} -> {"user", "alias", "unreadable"}], {<<>>})
  /\ todo = <<"shells">>
  /\ agreed = {}

HydrogenOther ==
  /\ Begin("hydrogen-tool", SUBSET {"CFY_HYDROGEN_BIN", "shopify", "npx"}, {<<>>}, {<<>>})
  /\ todo = <<"tool", "run-tool">>
  /\ agreed = {}

HydrogenBegins ==
  \/ HydrogenLink \/ HydrogenList \/ HydrogenUnlink \/ GenerateRoutes
  \/ SetupMarkets \/ SetupCss \/ SetupVite \/ Shortcut \/ HydrogenOther

-----------------------------------------------------------------------------
(* Storefronts.                                                            *)

Parses == Content("project") # "broken"

(* configured_shop: --shop, or the one of the project.                     *)
ReadProject ==
  /\ Parses
  /\ "shop" \in given \/ Exists("project")
  /\ Step("project")

CheckLinked ==
  /\ Content("project") # "linked" \/ "force" \in given
  /\ Step("linked")

ListStorefronts == Step("storefronts")

SelectStorefront ==
  /\ At("storefront")
  /\ \/ "storefront" \in given /\ server.storefronts > 0
     \/ given \intersect {"storefront", "create"} = {} /\ server.storefronts = 1
     \/ given \intersect {"storefront", "create"} = {} /\ "prompt" \in given /\ server.storefronts > 1
  /\ Learn("storefront", "selected") /\ Pass /\ Quiet

(* With --create-storefront, or as the answer; then the job is asked for.  *)
CreateStorefront ==
  /\ At("storefront") /\ ~Knows("polls")
  /\ "storefront" \notin given
  /\ \/ "create" \in given
     \/ "prompt" \in given /\ server.storefronts # 1
  /\ sent' = Append(sent, "create-storefront")
  /\ server' = [storefronts |-> server.storefronts + 1, job |-> "running"]
  /\ \/ Return("error") /\ UNCHANGED held
     \/ Stay /\ Learn("polls", 0)
  /\ UNCHANGED <<files, agreed>>

(* Mutant: a storefront whose job is not done is created again.           *)
CreateAgainWhenSlow ==
  /\ At("storefront") /\ Knows("polls")
  /\ IF server.job = "done" THEN Learn("storefront", "created") /\ Pass /\ UNCHANGED sent
     ELSE /\ held.polls < MaxPolls
          /\ sent' = Append(sent, "create-storefront")
          /\ Learn("polls", held.polls + 1) /\ Stay
  /\ UNCHANGED <<files, agreed, server>>

PollJob ==
  /\ At("storefront") /\ Knows("polls")
  /\ CASE held.polls = MaxPolls -> Return("error") /\ UNCHANGED held
       [] server.job = "failed" -> Return("error") /\ UNCHANGED held
       [] server.job = "done" -> Learn("storefront", "created") /\ Pass
       [] OTHER -> Learn("polls", held.polls + 1) /\ Stay
  /\ Quiet

JobRuns ==
  /\ Planned /\ "job" \in DOMAIN server /\ server.job = "running"
  /\ \E how \in {"done", "failed"} : server' = [server EXCEPT !.job = how]
  /\ Stay /\ UNCHANGED <<held, files, agreed, sent>>

(* Mutant: the link is all that is written.                                *)
LinkProjectOnly == Replace("link-project", "project", "new")

(* write_linked_storefront, and what else the file says.                   *)
LinkProject ==
  /\ Parses
  /\ Replace("link-project", "project", IF Exists("project") THEN "merged" ELSE "new")

UnlinkProject ==
  /\ At("unlink")
  /\ IF Content("project") \in {"none", "user"}
     THEN Return("ok") /\ UNCHANGED files
     ELSE Parses /\ Set("project", "unlinked") /\ Pass
  /\ OnDisk

(* fs::write over a file that is there: it is emptied, and then written.   *)
Truncate(s, p) == At(s) /\ Content(p) # "cut" /\ Set(p, "cut") /\ Stay /\ OnDisk
Fill(s, p, c) == Content(p) = "cut" /\ Replace(s, p, c)
Added(p) == IF p \in DOMAIN found THEN "merged" ELSE "new"

(* ensure_shopify_gitignore: nothing to add, or it is not said when this   *)
(* fails.                                                                  *)
IgnoreShopify ==
  \/ Truncate("gitignore", ".gitignore")
  \/ Fill("gitignore", ".gitignore", Added(".gitignore"))
  \/ Step("gitignore")

-----------------------------------------------------------------------------
(* resolve_template_source: an archive is unpacked beside the cache, takes *)
(* its place and is then marked.                                           *)

Fetching == <<"fetch-template", "extract", "remove-cache", "install-cache", "mark-cache">>

ResolveSource ==
  /\ At("source")
  /\ IF Content("cache") = "complete" THEN Pass
     ELSE /\ "offline" \notin given
          /\ todo' = Fetching \o Tail(todo)
          /\ UNCHANGED <<commandVars, given, found>>
  /\ UNCHANGED held /\ Quiet

DownloadArchive == Step("fetch-template")
ExtractArchive == Replace("extract", "extracted", "template")

RemoveCache == At("remove-cache") /\ Gone("cache") /\ Pass /\ OnDisk

InstallCache ==
  /\ At("install-cache") /\ ~Exists("cache")
  /\ files' = Over(Only("cache", "unmarked"), [p \in DOMAIN files \ {"extracted"} |-> files[p]])
  /\ Pass /\ OnDisk

MarkCache == Exists("cache") /\ Replace("mark-cache", "cache", "complete")

(* Another process finds the cache old, or not marked yet, and takes it    *)
(* away to replace it: a command that reads a template meanwhile fails.    *)
OtherReplacesCache ==
  /\ Planned
  /\ command \in {"hydrogen-generate", "hydrogen-setup-markets", "hydrogen-setup-css", "hydrogen-setup-vite"}
  /\ IF Exists("cache") THEN Gone("cache") ELSE Set("cache", "complete")
  /\ Stay /\ OnDisk

Reads == Exists("cache")

-----------------------------------------------------------------------------
(* Routes.                                                                 *)

ProjectDirectories == Exists("vite") /\ Step("directories")

RouteNames ==
  /\ At("route-names") /\ Reads
  /\ \E r \in {<<"route1">>, <<"route1", "route2">>} :
       held' = Over([routes |-> r, imported |-> FALSE], held)
  /\ Pass /\ Quiet

Generating == At("routes") /\ held.routes # <<>>
NextRoute == [held EXCEPT !.routes = Tail(@), !.imported = FALSE]
MayWrite == ~Exists(Head(held.routes)) \/ Head(held.routes) \in agreed

(* confirm_replace: without a terminal the route is skipped.               *)
ConfirmReplace ==
  /\ Generating /\ ~MayWrite
  /\ \/ "prompt" \in given /\ agreed' = agreed \union {Head(held.routes)} /\ UNCHANGED held
     \/ held' = NextRoute /\ UNCHANGED agreed
  /\ Stay /\ UNCHANGED <<files, server, sent>>

(* generate_route: what the route imports first, over what is there; only  *)
(* the route itself is asked about.                                        *)
WriteImports ==
  /\ Generating /\ MayWrite /\ Reads /\ ~held.imported
  /\ held' = [held EXCEPT !.imported = TRUE]
  /\ Set("dependency", "generated")
  /\ Stay /\ UNCHANGED <<agreed, server, sent>>

(* Mutant: a route is written whether it is there or not.                  *)
WriteAnyRoute ==
  /\ Generating /\ Reads
  /\ held' = NextRoute
  /\ Set(Head(held.routes), "generated")
  /\ Stay /\ UNCHANGED <<agreed, server, sent>>

WriteRoute ==
  /\ Generating /\ MayWrite /\ Reads /\ held.imported
  /\ held' = NextRoute
  /\ Set(Head(held.routes), "generated")
  /\ Stay /\ UNCHANGED <<agreed, server, sent>>

RoutesDone == At("routes") /\ held.routes = <<>> /\ Then /\ UNCHANGED held /\ Quiet

CopyLocaleRoute ==
  /\ IF Exists("locale-route") THEN Step("locale-route")
     ELSE Reads /\ Replace("locale-route", "locale-route", "generated")

-----------------------------------------------------------------------------
(* Setting up.  What a file already says stays; each file is written when  *)
(* its turn comes, and what was written stays when a later one fails.      *)

ChooseStrategy == given \intersect {"strategy", "prompt"} # {} /\ Step("strategy")

FindContext == Reads /\ Exists("context") /\ Step("context")
CheckI18n == ~Exists("i18n") /\ Step("i18n")
RewriteContext == Step("rewrite")
WriteI18n == Replace("write-i18n", "i18n", "new")
WriteContext == Replace("write-context", "context", "merged")

FindVite == Exists("vite") /\ Step("vite")
CheckStylesheet == (~Exists("stylesheet") \/ "force" \in given) /\ Step("stylesheet")
MergePackage == Reads /\ Exists("package") /\ Replace("merge-package", "package", "merged")
InjectPlugin == Step("inject")
FindRoot == Exists("root") /\ Step("root")
WriteStylesheet == Reads /\ Replace("write-stylesheet", "stylesheet", "new")
WriteVite == Replace("write-vite", "vite", "merged")
WriteRoot == Replace("write-root", "root", "merged")

CheckNoVite == ~Exists("vite") /\ Step("no-vite")
FindRemix == Exists("remix") /\ Step("remix")
DropRemix == At("drop-remix") /\ Gone("remix") /\ Then /\ OnDisk

(* rename_if_exists: over the file of the new name, if there is one.       *)
Move(s, from, to) ==
  /\ command = "hydrogen-setup-vite" /\ At(s)
  /\ files' = IF Exists(from) THEN Over(Only(to, "renamed"), [p \in DOMAIN files \ {from} |-> files[p]])
              ELSE files
  /\ Pass /\ OnDisk

(* Mutant: the file of the old name is removed.                            *)
RemoveEnv == At("rename-env") /\ Gone("remix-env") /\ Pass /\ OnDisk

RenameEnv == Move("rename-env", "remix-env", "env")
RewriteEnv ==
  IF Exists("env") THEN Replace("env", "env", IF files["env"] = "renamed" THEN "renamed" ELSE "merged")
  ELSE Step("env")
RenameEslint == Move("eslint", ".eslintrc.js", ".eslintrc.cjs")
RewriteServer == Replace("write-server", "server", "merged")
RewriteImports == IF Exists("route1") THEN Replace("css-imports", "route1", "merged") ELSE Step("css-imports")
NewVite == Replace("new-vite", "vite", "new")

(* An alias is added where there is none, in the same way in each shell    *)
(* that is installed; a file that cannot be read counts for nothing, and   *)
(* one that cannot be written is passed over.                              *)
AddAlias ==
  /\ given # {}
  /\ \/ Content("zsh") # "alias" /\ Truncate("shells", "zsh")
     \/ Fill("shells", "zsh",
             IF "zsh" \in DOMAIN found /\ found["zsh"] = "unreadable" THEN "rebuilt" ELSE Added("zsh"))
     \/ Step("shells")

DiscoverTool == given # {} /\ Step("tool")
RunTool == Step("run-tool")

HydrogenSteps ==
  \/ ReadProject \/ CheckLinked \/ ListStorefronts \/ SelectStorefront \/ CreateStorefront \/ PollJob
  \/ LinkProject \/ UnlinkProject \/ IgnoreShopify
  \/ ResolveSource \/ DownloadArchive \/ ExtractArchive \/ RemoveCache \/ InstallCache \/ MarkCache
  \/ ProjectDirectories \/ RouteNames \/ ConfirmReplace \/ WriteImports \/ WriteRoute \/ RoutesDone
  \/ CopyLocaleRoute \/ ChooseStrategy \/ FindContext \/ CheckI18n \/ RewriteContext \/ WriteI18n \/ WriteContext
  \/ FindVite \/ CheckStylesheet \/ MergePackage \/ InjectPlugin \/ FindRoot \/ WriteStylesheet \/ WriteVite
  \/ WriteRoot \/ CheckNoVite \/ FindRemix \/ DropRemix \/ RenameEnv \/ RewriteEnv \/ RenameEslint \/ RewriteServer
  \/ RewriteImports \/ NewVite \/ AddAlias \/ DiscoverTool \/ RunTool

HydrogenWorld == JobRuns \/ OtherReplacesCache
=============================================================================
