# Verification of Catify

TLA+ specifications of the parts of Catify (`cfy`, the Rust workspace under
`src/crates`) in which several tasks, processes, files or services have to
agree, with TLC configurations that check them on small instances and proofs
that TLAPS checks for every instance. The specifications are translated from
the source; `PROJECT.json` names, for every definition, the lines it stands for.

    tlc -workers 2 -config ProcessSupervisorOneChild.cfg MCProcessSupervisor
    tlapm ProcessSupervisor_proofs.tla

## The system

Catify is a command-line tool: one process per command, on a Tokio runtime. A
few libraries and long-running commands are concurrent in themselves; the other
commands are a sequence of requests and file edits, and what is hard about them
is what a failure, a lost answer, Ctrl-C or another process leaves behind.

| Component (crate) | State | Operations | What is hard, and what makes it correct |
|---|---|---|---|
| Process supervisor (cfy-process) | registry of children, one watch channel and one result channel per child, process groups | spawn, cancel, wait, wait with signals, drop, shutdown | everything runs in parallel: children leave while they are asked to, several shutdowns, descendants that outlive or escape the group. No lost wake-up, no result before the tree is gone, no child forgotten by a shutdown, every child that was asked leaves |
| Sessions and credentials (cfy-auth) | credential store with two entries per identity, refresh locks, cancellation | session, login, logout, load with migration | one refresh per expired session, whoever waits is served, no step that fails loses the session |
| Development session (cfy-dev) | snapshot per component, map of processes, outcome | start, wait with restarts, shutdown | processes that fail, restart, ignore Ctrl-C, or are spawned after Ctrl-C. Nothing left behind, every verdict earned |
| TLS proxy (cfy-dev) | listener, connection tasks | start, stop, drop | nothing is served after a stop or a drop |
| Theme development (cfy-cli `theme_dev`, cfy-config `theme_dev.rs`, cfy-api `theme.rs`) | directory, watcher's channel, batch, theme | scan, sync with retries, watch, coalesce, push, clean up | events, reads and uploads overlap with the editor. No change is lost, the created theme is deleted |
| Theme pull (cfy-config `theme.rs`, `write_atomic`) | files, backups, list of committed files | commit, rollback, discard | errors, cancellation and crashes in the middle. All or nothing, no original lost |
| Extension adapter (cfy-extension-adapter) | two semaphores, a task per job, responses | build_all | a task holds one permit and waits for another; jobs end in any order. No deadlock, no lost permit, each response to its job |
| App build (cfy-build, `build_app_graph`) | output directories, fingerprints, cache file | run clean or incremental | a fingerprint stands for an output made long before. A reported success is true, the cache is always readable |
| Theme commands and HTTP client (cfy-cli, cfy-api) | a store's themes, the directory, attempt counter | push, pull, share, duplicate, publish, delete, console; execute with retries | requests whose answer is lost, partial failures, other users. No request is sent twice that must not be, a reported success is true, a failed share takes its theme back |
| Tunnel (cfy-tunnel) | provider child, status, reconnections | start, reconnect, stop | readiness against exit, a supervisor shared with others. A tunnel that is not needed any more is asked to stop |
| App development (cfy-cli `app_dev`) | signal task, local session, GraphiQL, TLS proxy, dashboard, watcher; session, manifest and archive | prepare, start, select, reload, upload, stop | Ctrl-C and changes in the middle of an upload, cleanup on every path. Store, disk and archive agree whenever the loop is idle; edits arrive; a cancellation ends it, unless a request is never answered |
| App deployment (cfy-deploy) | modules, archive, version, release | deploy, release, dev clean | matching by uid or handle, confirmation against what was listed, retried uploads. One version, and nothing lost unasked |
| Bulk operations, GraphiQL, logs, webhooks (cfy-bulk, cfy-app) | polled operation, server with a client made on demand, log cursor | run, poll, cancel, serve, subscribe, trigger | mutations only where they are allowed, results of completed operations only, no log entry lost |
| Configuration (cfy-config, cfy-app) | configuration files, saved choice, `.env` | use, link, pull, validate, info, env | several sources of the choice, files edited meanwhile. One choice for all commands, the user's files kept |
| App and theme initialisation (cfy-app-init, cfy-theme-init) | directory, staging directory | initialise | failures at any step, a directory that somebody else makes. A failed run leaves nothing of its own |
| Hydrogen (cfy-hydrogen) | project file, routes, template cache shared by all commands | link, unlink, generate, set up, shortcut | lost answers, polling that gives up, a cache replaced while it is used. One storefront, the user's files kept |
| Plugins (cfy-plugins) | registry file, artifacts | install, link, update, uninstall, reset | two processes write one file without a lock. A process leaves no record whose files it has removed |
| Upgrade, settings, caches, documents (cfy-upgrade, cfy-docs) | executable, version file, caches | upgrade, check, clear, fetch | a stop between two replacements. The executable is the old or the new one |
| Stores (cfy-store) | index file, credentials, callback listener | login, refresh, execute, bulk, create, delete, import | tokens refreshed by two processes, index and credential that must agree, pages. What was granted is kept |
| Everything else (organizations, functions, profiling, output) | none between calls | requests, parsing, formatting | sequential; tests reach it |

The components meet as follows. Every command that starts a child does so
through the process supervisor; the development session, the adapters, the
tunnel and hydrogen are its clients, and each of them sees a child as
`ChildLifecycle` describes it: it may leave at any time, and it leaves after it
was asked to. `app dev` runs the development session, the tunnel, a theme
session, a watcher and the app build; the app build runs the adapters.
`Cancellation` (cfy-core) is one flag that Ctrl-C sets, read at the points the
modules show. Every authenticated command asks the session manager first, and
the commands that change a store do so through the HTTP client, whose retries
decide whether a lost answer is a second change. The dispatcher runs one
command to its exit; what two runs of the CLI share is on disk, in the
credential store or in the services.

## Modules

| Module | Models | Lines in `PROJECT.json` under |
|---|---|---|
| `ChildLifecycle` | abstract: what the supervisor promises of a child and of shutdown | `ChildLifecycle` |
| `ProcessSupervisor` | `Supervisor`, `RunningProcess`, `supervise_child`, `shutdown` | `ProcessSupervisor` |
| `SessionManager` | `SessionManager::session`, `NativeCredentialStore`, login, logout | `SessionManager` |
| `DevSession` | `DevSession::start/wait/shutdown`, the signal task of `app_dev` | `DevSession` |
| `ThemeCommit` | `commit_staged_files_cancellable` over `write_atomic` | `ThemeCommit` |
| `ThemeDev` | `theme_dev`, `sync_with_retry`, `coalesce`, `ThemeClient::push` | `ThemeDev` |
| `ThemeStore` | the theme commands of several users on one store, `ThemeClient`, `HttpClient::execute` | `ThemeStore` |
| `AdmissionControl` | abstract: a job is admitted when both budgets allow it, atomically | `AdmissionControl` |
| `AdapterScheduler` | `build_all` with its two semaphores | `AdapterScheduler` |
| `BuildPipeline` | `BuildPipeline::run`, the cache, `build_app_graph` around it | `BuildPipeline` |
| `TunnelSession`, `TlsProxy` | the tunnel and the TLS proxy, as components of `AppDev` | `TunnelSession`, `TlsProxy` |
| `AppDev` | `app_dev` and the tasks beside it | `AppDev` |
| `Command` | one command of the CLI: its plan, its steps, failure and Ctrl-C | `Command` |
| `AppConfiguration` | choice of a configuration, config and env commands | `AppConfiguration` |
| `AdminCommands` | bulk operations, execute, GraphiQL, logs, webhooks | `AdminCommands` |
| `Deploy` | deploy, release, dev clean, beside another deployment | `Deploy` |
| `Scaffold` | app init and theme init | `Scaffold` |
| `Hydrogen` | the Hydrogen commands | `Hydrogen` |
| `Tools` | plugins, upgrade, settings, caches, documents, theme package | `Tools` |
| `Stores` | the store commands, store sessions, custom data | `Stores` |
| `Commands` | the dispatch over all of these and over `BuildPipeline` | `Commands` |

`MC...` modules give the constants values; `..._proofs` modules hold the theorems.

### ProcessSupervisor

A child's `phase` is where `supervise_child` stands between two awaits;
`request` is the value of its watch channel, `handle` what became of the
`RunningProcess`. `direct`, `group`, `signalled` and `killed` are the kernel's
view: the direct child, its descendant, and the signals its group was sent. A
descendant may escape the group with the pipes (`Escape`), which is why
`JoinOutput` may never be enabled. `shutdown` is modelled step by step
(`Snapshot`, `SendTerminate`, `Arm`, `CheckRegistry`, `Sleep`, `Wake`), since
`Notify` only reaches futures that were made before the notification.
`DropHandle` and `AbandonWait` are the two ways to lose a handle: the second
drops a future of `wait` that has taken the completion receiver out of the
handle, after which `Drop` sends nothing. `docs/process-supervision.md` says
that dropping a running handle requests cleanup; `DropRequestsCleanup` is
therefore about the first way only.
Output chunks, environment and argument handling are left out. Every child has
a process group of its own number; reuse of numbers by the kernel is not
modelled.

### SessionManager

A session is the number of the refresh token it came with; `entry` and `legacy`
are the two entries of the operating system's store. `load` is four steps, for
each is a call to that store and the migration holds no lock. Two managers are
two processes: the locks are fields of the manager. `expired` grows at any
time. The order in which tokio's mutex serves is kept by strong fairness on
`Acquire`.

Four things this model shows and no run asserts: a logout that leaves the
legacy entry behind (crates/cfy-auth/src/storage.rs:213) is undone by the next load,
which migrates it, although crates/cfy-auth/tests/auth.rs:253 expects no session then; two processes can refresh one
identity at once (the lock is per process, `docs/architecture/credential-storage.md:43`
says per identity); a logout during a refresh is undone by the save of its
result; and a slow migration can write the old session over one refreshed
meanwhile. This is why `SingleFlight` and `NoSecondExchange` are stated per
manager, and the latter where there was no legacy entry.

### DevSession

`state`, `restarts` and `held` are the snapshots and the map of running
processes; `at` and `cur` say what the session's task awaits. `wait` takes an
arbitrary entry out of the map and awaits it alone (`Take`), and the model
keeps that. `signal` is the task of `app_dev` that sets the flag and then calls
the supervisor's shutdown. A child's leaving is one action (`Leave`), justified
by `StopCompletes` of ProcessSupervisor. Note that `shutdown` sets every
snapshot to Stopped, the failed component's too.

A consequence that no run asserts: a sibling that exits while another process is
awaited is neither restarted nor reported, and nothing is shut down, until the
awaited process leaves (crates/cfy-dev/src/lib.rs:228).
docs/architecture/app-dev.md:17 says that a component that has used up its
restarts "shuts down sibling processes".

### ThemeCommit

Its actions are those of `CommitSpec`, a name of its own because the proofs about
the two theme modules share a module. A file's contents are `old`, `new` or
absent; a backup may be half written. `cancellation` is Ctrl-C during a pull,
`outcome` what the caller is told.
Each action is one system call, or the part of the code between two of them;
`write_atomic` is `Replace`, followed by `SyncFails` or `Commit`. A crash is
not an action: nothing repairs a transaction afterwards, so what must hold
after a crash is stated of every state before the cleanup. `faults` is chosen
at the start: `io` (anything before the rename), `sync` (the directory after
the rename), `rollback` and `cleanup`. When a sync fails the file has been
replaced but is not on the list of committed files; `AllOrNothing` is stated
for runs without that fault. When restoring a file fails, `Discard` still removes
the directory with its backup: `OriginalsSurvive` speaks of the time before.

### ThemeDev

A file is the number of the write that made its contents. The editor writes,
removes and renames at any time. `queue` is the channel of the watcher, `batch`
what was gathered until the debounce ended, `changes` what was read. A request
may fail before or after it had its effect, and `sync_with_retry` sends a whole
batch again, as it was read. `missed` are the paths that the session has passed
over until another event is about them: those changed between their scan and
the creation of the watcher (which comes after "Ready and watching" is printed),
those of the theme that never were in the directory, and files that are there
but whose metadata, canonical path or contents cannot be read when their event
is handled, which the code skips without a word (`ReadPath`). The properties
leave them out: nothing in the code brings such a file up to date before it
changes again. The creation of the theme comes before what the cleanup covers,
so that a creation whose answer is lost leaves a theme in the store (`lost`):
`ThemeIsDeleted` says so, and that this theme is empty.
`Interrupt` is Ctrl-C at each point, before and after tokio has replaced the
signal's disposition. Directories and overflow of the platform's event queue
are not modelled.

### ThemeStore

Each user runs one command; `pc` is its next step and `tries` the local
`attempt` of `execute`. A request has its effect or not, and is answered or
not: `Create` with `Unanswered` is a theme that was made by a request that
failed, and `Push(u, k, FALSE)` an asset that was written although the summary
calls it failed. Only GET requests are repeated here, since every change says
`RetrySafety::Unsafe`. `pull`'s writes to the directory are one step, which is
what ThemeCommit is about. `disturbed` marks a command whose theme somebody
else has written or deleted in the meantime; what the command claims is then
no longer its own. A share makes a theme for each environment it is asked for,
in turn (`left`, and `shared` for `results`), each from a directory of its own;
when a later one fails or is cancelled, the command ends in an error and the
themes of those before stay: `ShareTakesBack` speaks of the theme whose upload
failed. All environments are of one store. A share whose answer to the creation
is lost leaves a theme it does not know of, and ends in an error:
`ShareTakesBack` is stated from the answered creation on. Two windows that the code does not close are in the
model and in no property: `theme push` asks about the live theme by the role it
has listed, so that a publish right after makes it write to the live theme
unasked; and two consoles that list at the same time make two console themes.
What Shopify does (ids are not used again, the live theme is not deleted) is
marked external or commented.

### AdapterScheduler and AdmissionControl

A task takes a slot, gets in line for its memory, runs and returns both. The
line is kept as a sequence, since tokio's semaphores are fair and a large
request at the head blocks smaller ones behind it. AdmissionControl says what
this amounts to: a job starts when slots and memory both allow it. Estimates
include zero and values beyond the budget (refused by `Validate`).

### BuildPipeline

A fingerprint is the version of the configuration file; an output directory is
the version it was built from and whether it is whole. `Invoke` reads the graph
as `build_app_graph` does, `run` proceeds file by file, the cache is written
through a temporary file in three steps, and `Kill` ends a build anywhere.
`Worlds` says which mishaps may happen together. The passing run (`Commands`)
has failures and kills in one world and removed outputs and clean builds in the
other: the two together break `ReportIsTrue`, which the violation run shows. Two
further mishaps the model can express are in neither: a configuration edited
between the load of the graph and its fingerprint is cached as built though the
old one was, and of two builders (`app dev` and `app build` of one project) that
share `build-cache.json.tmp` one may rename what the other has truncated.

### AppDev, TunnelSession and TlsProxy

One task runs `app_dev`: `at` is where it stands, in one of three stretches
(`Preparing`, `Looping`, `Leaving`). Beside it run the signal task, the local
development session (`local`, as DevSession leaves it), the GraphiQL server, the
dashboard, the proxy, and the processes of the supervisor they all share, of
which `asked` have been asked to stop; `AskAll` is `Supervisor::shutdown` up to
where it waits, and StopCompletes of ProcessSupervisor is why a process that was
asked leaves. The project is the number of its edits, and a manifest, an
archive, the remote session and the two files under `.catify/dev` hold the
number of the edit they were made from. `select!` takes any arm that is ready.
A request may have its effect and still fail (`CreateFails`, `InitializeFails`), and
the answer to a deletion may say nothing of the session, which the code takes for
success (cfy-app/src/lib.rs:420; `DeleteSession` makes the result "unsaid").

No HTTP client of the command has a timeout (cfy-api/src/lib.rs:243,
cfy-deploy/src/lib.rs:595, app.rs:1726), and none of its requests is awaited beside
the cancellation, which is looked at before each attempt of the upload alone. A
request that nobody answers therefore holds the command for ever, Ctrl-C or not
(`RequestHangs`, which leaves the task at "held"); `CancelEndsAppDev` and `EditsArrive`
are stated up to that. A connection of GraphiQL is answered by a task of its own
(cfy-bulk/src/lib.rs:241) that nobody awaits or aborts: `questions` are the browsers it
answers, at any time or never, after the server has stopped and after `app_dev` has
returned. `CleanEnd` asks of GraphiQL that it takes no more of them, and of the TLS
proxy, which owns its tasks, that its connections are closed.

What the model shows and no run asserts. When the URLs cannot be printed after
the session was made, `app dev` returns and leaves it in the store
(app.rs:1313-1326), so that `CleanEnd` asks for the deletion of the session after
a success only. When creating the session fails, the error path deletes the
session of the app that another `app dev` may own (app.rs:1184). Before the signal
task is spawned Ctrl-C kills the command where it is (`KilledByCtrlC`). With
`--notify` naming a file of the project, the notification itself is a change
(`Notify`), and the loop uploads again.

### Command, and the modules of single commands

A command is a plan (`todo`), the steps of its handler in their order, which its
options (`given`) decide; an action takes the step at the head. What the command
has learnt is `held`, the files it deals with `files` (and `found`, as they were
at the start), what the services know `server`, and the requests that change
something `sent`. `StepFails` is the `?` of the code at any step, which undoes
nothing unless the handler does (`Handled`), `Killed` is Ctrl-C where no handler
listens (`Listening`). `Mutation` is a request that is sent once and whose answer
may be lost. So each module states a command in two places: its plan, and an
action for every step that the properties can see; a step that can only succeed
or fail is `Step`. The user, the services and other processes of the CLI are
the `...World` actions.

*AppConfiguration*: three selections of a configuration that the code spells out
three times (`EnvironmentChoice`, `ValidateChoice`, `PullChoice`), and the
commands that use them. The first alone reads `CFY_CONFIG` and the Shopify CLI's
preference; docs/configuration.md:53 knows no such difference, and
`SameChoice` is stated for projects where these are not set. An option is resolved by
two rules: `select_config` (project.rs:454-460, `ByName`) takes a path, a file name or a
configuration's name, so that `default` is shopify.app.toml, unless there is a
shopify.app.default.toml; `normalized_app_config_name` (config.rs:429-435,
`ByFileName`) makes a file name of it, so that a path is no configuration and `default`
is shopify.app.default.toml and nothing else. `--config default` thus works for `env`
and fails for `config validate` and `config pull`; `SameChoice` says that the
commands never choose two different configurations, and that these two spellings are
the only ones where some choose and the others fail. `config link --force`
treats a file that does not parse as empty (cfy-app/src/lib.rs:1963), which
`UserFilesKept` calls "rebuilt".

*AdminCommands*: `CheckPlan` reads the plan of the store and is followed by the
upload of variables and the mutation itself; a plan that changes meanwhile
(`PlanChanges`) is not seen by the code, and `MutationAllowed` speaks of the plan
that was read. GraphiQL's requests come at once and make the client on demand
under a lock. `Logs` renews a subscription that has run out with the cursor it had;
but a page may come without a cursor, and the next poll then has none
(app.rs:3291, cfy-app/src/logs.rs:177), so that the log is read from its start again
and entries are shown twice. `NoLogLost` is stated with that exception.

*Deploy* has variables of its own (`deployVars`). Modules match by uid, then by
handle, if neither is missing nor shared; the archive is one file that may be
torn, old, or another deployment's. It has one name for all deployments of a
directory, is written in place (app.rs:655), and is read again after the requests and
the question to the user (cfy-deploy/src/lib.rs:835): another deployment may write its
own over it in between (`OtherBundle`), and an error of brotli's last write is lost
with the encoder (app.rs:691, `FinishBundle`). Nothing compares what is read with what
was built and agreed to, so that modules nobody asked about are lost in these cases,
as they may be with `--no-build` (app.rs:3535). `DeployStages` says that there are no
others, and `NothingLostUnasked` speaks of a release of what was compared.

*Scaffold*: `RollBack` removes the directory whoever made it
(cfy-app-init/src/lib.rs:322), which a directory that another process makes after
the check shows (`SomebodyMakes`); CONTRIBUTING.md:142 asks for rollback, and no
document says whose directory it may be, so that no property speaks of that one.

*Hydrogen*: the template cache is shared by all commands of a user and is replaced
while another may read it. A module that a route imports is written over unasked
(cfy-hydrogen/src/lib.rs:1948), and the upgrade to Vite renames and rewrites file
by file with no way back (vite.rs:261); CONTRIBUTING.md:142-143 asks otherwise.
It renames remix.env.d.ts over an env.d.ts of the user's, and .eslintrc.js over an
.eslintrc.cjs, unasked (vite.rs:262-278, `Move`). A shell's startup file and
.gitignore are written in place by `fs::write` (shortcut.rs:129, lib.rs:2148), which
empties them first (`Truncate`, then `Fill`): a stop in between leaves them cut short.
`UserFilesKept` names these as the exceptions it has (`MayBe`, `Renamed`), leaves
imported modules out and calls a rewritten file "merged".

*Tools*: the plugins' registry is read, changed and replaced with no lock
(cfy-plugins/src/lib.rs:121-142), so that another process may take a record away or
bring one back (`OtherStores`), and may install over a plugin's tree or remove it
(`OtherChangesTree`). A record may be left without its files in this way: an uninstall
between this process's load and store, or the other way round. `server.raced` has the
plugins whose tree or record the other process has changed so, and `ToolsEnd` says that a
record of any other plugin has its files, whatever fails. Settings are rewritten with the two values they know
(cfy-config/src/lib.rs:160), and anything else in the file is dropped.

*Stores*: a session is an entry of an index and a credential; the index that was
read before a refresh is saved after it. Scopes are saved as they were granted, and
cover what was asked for when `write` is taken to include `read` (`Expanded`). `store info` takes every route of
`store_access_token`, the other commands take the token from the environment, since
it is one function. `store execute` sends its document as a query, whatever it is
(the violation run `CommandsStoreExecute`).

*Commands* puts the modules under one dispatcher and takes BuildPipeline in by
INSTANCE for `app build`.

## Runs

| Configuration | Instance | What it shows |
|---|---|---|
| `ProcessSupervisorTwoChildren` | 2 children, 1 shutdown, inherited output, plain wait | the inductive invariant `IInv`, no lost wake-up, drops request cleanup, no kill without a signal, and the refinement of `ChildLifecycle` |
| `ProcessSupervisorOneChild` | 1 forking child, 2 shutdowns, captured output, wait with or without forwarded signals, fairness | a result means the tree is gone; and `StopCompletes`: a requested child leaves, shutdown reaches every target and returns |
| `SessionManager` | 2 clients in one process, 1 in another, 2 generations, with and without a legacy entry, fairness | no second exchange, the session is kept, `SInv` (with single flight), every call returns |
| `DevSession` | 3 components with 2, 1 and 0 restarts, fairness | nothing left behind, `DInv` (with verdicts earned), no verdict on the cancelled, cancellation ends the session |
| `ThemeCommit` | 3 files, every mix of absent, file and directory, every set of faults | all or nothing, no original lost, `CInv` |
| `ThemeDev` | 2 assets, 3 edits, fairness | no change is lost (`NoChangeLost`) and the session converges, but for files passed over; a theme whose creation was answered is deleted |
| `ThemeStore` | 2 users with any two commands, 3 themes, 2 assets, 1 retry, shares of 1 or 2 environments | a success is true; `ThemesAccountedFor`: a share that fails in an upload asks for that theme's deletion and for no other's, no command makes two themes for one environment |
| `AdapterScheduler` | 3 jobs, 2 slots, estimates 0 to more than the budget | `AInv` (types, permits add up, responses in order), refinement of `AdmissionControl`, every batch returns |
| `AppDev` | 4 processes, 2 edits, 1 reconnection, 1 browser, 3 sets of options, fairness | `AppDevInv` (store, disk and archive agree when the loop is idle), clean end, edits arrive, cancellation ends it but for a request that is never answered |
| `Commands` | any one command; up to 2 local and 2 remote modules, 3 configurations, 2 browsers, 3 log entries, 2 polls, 1 change of the plugins by another process; 1 builder, 2 extensions, 3 builds | one version, of the archive read, and nothing lost unasked if that is what was compared (`DeployIsTrue`), `MutationAllowed`, `NoLogLost`, `SameChoice`, `UserFilesKept`, `MutatesOnce`, `EndIsTrue`; for `app build`, a success is true and the cache is readable |
| `CommandsStoreExecute` | as above | violation: a mutation is executed twice |
| `BuildPipelinePartial` | 1 builder, 1 extension, removals and failures together | violation: a half-made output is skipped as built |

Why the bounds are enough to be interesting. Two children let one be spawned
after a shutdown took its snapshot of the other; two shutdowns compete for one
notification. Three clients are a holder of the lock, one that waits, and one
that the lock does not stop; two generations are a session and its successor.
Budgets of 2, 1 and 0 restarts have the boundary and the case of no budget.
Three files have one before, one at and one after the failing step. Three edits
let a file be written, removed and written again within one batch, or renamed
onto another. Two users are a command and whoever disturbs it; three themes are
the live one and two that a command made twice would make; with one retry a
request can be repeated and can be given up. Three jobs over two slots have one in line for a slot while two
compete for memory. Three builds make, damage and skip an output. Two edits let
one come while the other is uploaded, and the four processes are one of each
kind. A deployment of two modules has the pair that agrees in uid but not in
handle, the pair that agrees in both, and the duplicate. The two handles are alike,
so of the described sets those suffice that have the first one; it is created without
a release where both flags allow everything. `MaxPuts = 1` is an
upload that is repeated and one that is given up, `MaxPolls = 2` a job that is
done at the first, the second or no look, `MaxAttempts = 3` sends of one request,
one less than the code's four, since the second is the one that matters.
`MaxTokens = 3` are a token, our refresh and another process's; `MaxLogs = 3`
entries straddle the end of a subscription. Three configurations are the default,
the one of the option and the one of the environment or of the saved choice, which is
also shopify.app.default.toml (`NamedDefault = "b"`), so that projects with and without
that file occur. `MaxOthers = 1` is another process's store of the registry, or its
change of a tree, at any point of a plugin command; the theorem is for any number.
Deadlock is not checked in any run, because each of these components stops by
design: all children gone, the session ended, the call returned, the bound on
edits or builds used up.

Fairness. Tokio polls a task that can run (weak fairness on the steps of each
task), timers fire, tokio's mutex hands the lock out in order (strong fairness
on `Acquire`), a process sent SIGKILL dies. In `AppDev` the main task and the
tasks beside it are fair, unless a request holds the main task for ever, and a process that
was asked to stop leaves, which is what ProcessSupervisor shows. Edits end
(`MaxEdits`), as a debounce with no longest wait needs. In `SessionManager` a refresh
is answered or fails, in `AdapterScheduler` an adapter ends: the identity client
(identity.rs:119) and the adapters have no timeout, so that `EveryCallReturns` and
`EveryBatchReturns` hold as far as these do. In `DevSession` a process whose exit is awaited
leaves with what it has forked: a descendant that escapes its group with the pipes
is ProcessSupervisor's. Commands states safety only. Nobody owes a call, an exit by
itself, a success of a request, the end of a process that escaped its group,
or a Ctrl-C.

## Proofs

The theorems hold for every value of the constants that satisfies the named
assumptions of the module.

*ProcessSupervisor_proofs.* The safety properties are not inductive by
themselves: that a sleeping shutdown has been notified needs to know that the
registry is exactly the set of supervised children (`RegistryExact`), and that
the flags agree with the signals needs what a task has done by the time it
stands at a phase (`ChildShape`), and a shutdown likewise (`ShutShape`).
`IInv` is their conjunction with `TypeOK`; `Invariance` proves it, one step
per action, and from it follow `TypeCorrect`, `NoWakeupIsLost`,
`TreeGoneAtResult`, `CancelledFlagIsTrue`, `DropCleansUp`, `OkStopsTargets`,
the action properties `OkMeansDrained` and `SignalBeforeKill`, and `Refinement`:
every step is a step of ChildLifecycle or a stutter.

*SessionManager_proofs.* That no session is exchanged twice rests on its
successor being unknown to everybody until it is saved (`FreshIsUnknown`), on
numbers issued being new (`IssuedBound`), and on the stored session and the one
a holder works on having no saved successor (`NotSucceeded`). `SInv` is their
conjunction with single flight; `SessionInvariance`, `RefreshIsSingleFlight` and
`NobodyExchangesTwice` are proved for any number of clients, managers and
generations. `ASessionIsKept` needs one more fact: what a client carries between
reading one entry and writing the other is a session (`InHand`), so that a
migration that stops half way has stored it in one of the two.

*DevSession_proofs.* Nothing is left behind because what runs is in the map, is
being awaited, or was asked to stop (`HeldOrAsked`); the verdict is earned
because of what is true of each place of the session's task (`Progress`).
`DInv` is inductive for any set of components and any budgets.

*Themes_proofs*, about ThemeStore: what a command works on is settled by the
steps it has behind it. `Sound(u)` says that its theme has been made, where it
does not make one itself, and that its step belongs to its command (`Live`,
`Route`), that of the themes it has made all but the one at hand have been shared,
one for each environment it is through with, that it has made none for the one
at hand before the step that makes it and one at
most after it, and that it asks for a deletion only in its last step; `True(u)`,
which holds unless somebody else has written to the theme, that the files it has
passed are what it has read or written. A step of one user touches nothing of
the others' (`OthersUntouched`) and spares their themes or marks them disturbed
(`DeletionDisturbs`), so that `StoreInv`, both of every user with the types, is
inductive (`StoreInvHolds`) for any users, themes, files, retries and environments, where
`NoTheme` is no theme (`ThemesAssumption`). `NoThemeIsLost` is
`ThemesAccountedFor`, and `WhatSucceedsIsDone` the action property
`SuccessIsTrue`. About ThemeCommit: a file differs from what it was only if it
is new and has a backup (`BackedUp`), and, without the later faults, only if it
is on the list that a rollback undoes (`Listed`); `Steps` says where in the
transaction that is so. `CInv` is inductive for any set of files and faults.

*ThemeDev_proofs.* `NoChangeLost` says where the last word about a path is: in the
channel, in the batch, among the changes or in the theme. Each of the steps
between them joins or empties a sequence of events, and the lemmas `Places`,
`TouchedByBoth` and `LastDecides` say what that does to the paths it touches
and to the event that decides. It is inductive with the types.
`CreatedThemeIsDeleted` strengthens its property to every place of the session
from which it can end (`Disposed`).

*AdapterScheduler_proofs.* The permits of a semaphore and those its tasks hold
add up to its size. The memory that a set of jobs holds is the cardinality of
the set of their permits (`PermitsOf`), so that sums need no induction: a job
more or less adds or takes a disjoint set. `AInv` is inductive for any number
of jobs and limits (`SchedulerInvariant`), and makes every step a step of
AdmissionControl or a stutter (`SchedulerImplementsAdmission`): the job at the
head of the line takes its memory only where both budgets allow it.

*AppDev_proofs.* `AppDevInv` says for every place of the main task which of the
edits the store, the two files and the archive stand for; it is inductive for
any processes, options and number of edits (`PreviewIsInStep`). With it, every
way out passes through `Return` or `Shut`, and `NothingIsLeft` proves the whole
of the invariant `CleanEnd`. `Open` also says that Ctrl-C is listened to before anything
is served, so that a command it kills had opened nothing.

*Commands_proofs.* Three kinds of command share one specification, and the steps
of each leave the others' variables alone (`OnlyPlanned`, `NoPlanFor`).

- A deployment (`NothingIsLostUnasked`): the property is strengthened to every
  stage of `Deploy` (`DeployStages`), and rests on two lemmas about the matching, for any
  two sets of modules: no local module stands for two remote ones (`MatchedOnce`), and
  where nothing is deleted every remote module has a counterpart that is alike
  (`NoneDeleted`), so that a comparison that asks for no leave loses nothing
  (`LetThrough`).
- `app build` (`OneBuilderKeepsTheCache`): the only file a builder has open is the
  temporary one, which is whole before it is renamed (`Build!Written`). The theorem is
  for one builder at a time, and needs that hypothesis: two of them share
  `build-cache.json.tmp`, and one may rename what the other has truncated.
  What a build reports as built or skipped is there, and whole
  (`WhatIsReportedIsBuilt`), because a fingerprint in the cache that is still right is
  that of an output that is fresh, was removed by hand, or is being built again, and
  an extension without a job is fresh, at every place of the build (`OutputsInv`). The
  theorem has three hypotheses, and the code fails without each: one builder; no
  configuration edited while it builds, between the load of the graph and its
  fingerprint; and failures or outputs removed by hand, but not both, which is the
  violation `build_pipeline_partial_output` shows. The passing run's worlds satisfy
  them.
- A command with a plan. `PlanInv` is inductive for all of them together. What is
  left of a plan is an end of what there was, behind steps that are harmless to it
  (`Shifted`; only nine steps put others in their place), and then: a request is
  sent by a step that is left in the plan once (`SentOnce`), a mutation is
  preceded by the check that allows it (`AskedFirst`), a browser's request is
  served after its own check and by the client made under the lock
  (`ServedRight`), and the log is shown up to its cursor (`CursorIsTrue`).
  `AsksForAChangeOnce`, `OnlyWhatIsAllowed` and `LogsAreShownInOrder` follow.
- The user's files (`UserFilesAreKept`). `FilesInv` adds to the property where the
  leave to replace a file comes from: a step that writes over a file, and does not
  look itself, is behind one that has found the file missing, or the file is one
  whose replacement an option allows (`Looks`, `Allowed`); what the upgrade to Vite has
  moved stays under its new name (`ViteOnly`, `RenamedStay`); and the two commands
  that go by what a file was do so before anything else (`Untouched`).
  `StepsAreCareful` then goes through the steps of all commands, the user's
  edits and those of other processes.
- What a command says when it ends (`WhatIsSaidIsTrue`). `EndInv` has a part for each
  kind of command whose exit says something of what it leaves: the registry names
  no plugin without its files, unless another process changed that plugin
  (`RegistryKept`), what replaces the executable is
  verified (`Executable`), app init has something to take back from the clone on and
  takes it (`Initialised`), what is wrong with a project is known once its part was
  looked at (`Validated`), an operation seen to have ended stays as it is
  (`Completed`), a granted token is kept two steps later (`Granted`), a kind of
  definitions is passed with its last page (`Imported`), the archive is closed by the
  last step (`Archived`). `Pathways` is why no route and no configuration is written
  over the executable. Every part ties what the command has learnt to how much
  of its plan is left (`LeftOf`, or which steps are in turn, `InTurn`). The steps of all
  commands are sorted once (`StepsTell`): all but some seventy are `Plain`, they leave
  alone what the parts are about and pass no step that matters, and each part
  then looks at the few steps of its own command. `EndInv` is inductive
  together with `PlanIsSound`.
- `CommandsAgree`: with no variable and no preference in play, the three selections
  of a configuration choose the same or nothing, for any files, and choose together but
  for the two spellings of `--config` that only `select_config` understands.

The assumptions of Commands, beyond types: `None` is no configuration
(`ConfigurationAssumption`), a browser's request has a name of its own
(`ConnectionsAssumption`), sets of modules are finite (`DeployAssumption`), and a
configuration, which is a `shopify.app*.toml`, is none of the files the CLI keeps
for itself (`FilesAssumption`). TLC evaluates them in the run `Commands`.

Only model-checked: the liveness properties (`StopCompletes`, `CancelEndsSession`,
`EveryCallReturns`, `Converges`, `EveryBatchReturns`, `EditsArrive`, `CancelEndsAppDev`),
since fairness and ENABLED are beyond the prover, and the two counterexamples.
Every other property a run checks is stated by a theorem, with the hypotheses named
above where it has some.

## What disagrees with the documentation

Two runs end in a violation, each of one statement of the documentation:
`ReportIsTrue` (a partial output is skipped as built) and `ExecutedOnce` (a
mutation given to `store execute` is sent again). `PROJECT.json` quotes them
under `findings`. Divergences without a run are named above with their module:
the failing sibling in DevSession, the legacy entry in SessionManager, those of
AppDev, and those of the single commands.

## Not modelled

- *Core types, theme profiling, organizations, functions, output*: requests one
  after another, parsing and formatting, with no state that outlives a call.
- *Contents*: TOML, JSON, GraphQL, routes and templates are what the properties tell
  apart of them (whether they parse, whether they change a store, which version).
- *Output streams* of supervised processes: the bounded channel between a reader and
  a consumer, which changes nothing about the life of the child.
- *Extension generation and import*: file templates; the transaction they would need is
  ThemeCommit's question.
- *Two commands at once* are modelled where they meet (theme commands of two users,
  sessions of two processes, another deployment, another refresh, other
  changes of the plugins), not for every pair of commands.

## Plan

Next, by importance:

1. The plaintext credential file beside SessionManager's native store.
2. Functions, and the import of extensions, as far as they keep state.
