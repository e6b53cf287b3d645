--------------------------- MODULE BuildPipeline ---------------------------
(***************************************************************************)
(* BuildPipeline::run of crates/cfy-build, as build_app_graph of the CLI   *)
(* calls it, build after build: which extensions are skipped because the   *)
(* build cache has their fingerprint, and when a fingerprint is cached.    *)
(*                                                                         *)
(* A fingerprint stands for the version of an extension's configuration    *)
(* file (its length and modification time).  An output directory is the    *)
(* version it was built from and whether the adapter has finished it.  The *)
(* scheduling of the adapter jobs is AdapterScheduler's; here they start   *)
(* and end in any order.                                                   *)
(***************************************************************************)
EXTENDS Naturals

CONSTANTS
  Builders,     \* processes that build the app
  Extensions,
  MaxVersion,   \* bound: edits of a configuration file
  MaxBuilds,    \* bound: builds of one process
  Worlds        \* the mishaps that may happen together

(* "failure": an adapter fails, or the build is killed.  "removal": an     *)
(* output directory is removed, by hand or by a clean build.  "edit": a    *)
(* configuration is edited while a build runs, not between builds only.    *)
Mishaps == {"failure", "removal", "edit"}

Version == 0..MaxVersion
Never == MaxVersion + 1
Absent == [of |-> Never, whole |-> FALSE]
Fingerprints == [Extensions -> Version \union {Never}]
NoPrints == [e \in Extensions |-> Never]

(* A file that holds a cache: complete, truncated, or not there.           *)
Holding(fingerprints) == [state |-> "whole", prints |-> fingerprints]
Torn == [state |-> "torn", prints |-> NoPrints]
NoFile == [state |-> "none", prints |-> NoPrints]

VARIABLES
  world,   \* the mishaps that do happen
  config,  \* the version of each extension's configuration file
  output,  \* each extension's output directory
  cache,   \* .catify/build-cache.json
  tmp,     \* .catify/build-cache.json.tmp
  fd,      \* which of the two files a builder has open for writing
  pc,      \* where each builder is
  mode,    \* its BuildOptions::mode
  graph,   \* the configuration it has loaded
  known,   \* its `cache`
  todo,    \* the extensions it has yet to clean or schedule
  prints,  \* the fingerprints it has taken
  job,     \* its adapter jobs
  builds,  \* how many builds it has started
  report   \* how the last one ended

disk == <<world, config, output, cache, tmp, fd>>
run == <<mode, graph, known, todo, prints, job, builds, report>>
vars == <<disk, pc, run>>

TypeOK ==
  /\ world \in Worlds
  /\ config \in [Extensions -> Version]
  /\ output \in [Extensions -> [of : Version \union {Never}, whole : BOOLEAN]]
  /\ cache \in [state : {"whole", "torn"}, prints : Fingerprints]
  /\ tmp \in [state : {"whole", "torn"}, prints : Fingerprints] \union {NoFile}
  /\ fd \in [Builders -> {"tmp", "cache", "none"}]
  /\ pc \in [Builders -> {"idle", "clean", "load", "schedule", "building", "write", "writing", "rename"}]
  /\ mode \in [Builders -> {"incremental", "clean"}]
  /\ graph \in [Builders -> [Extensions -> Version]]
  /\ known \in [Builders -> Fingerprints]
  /\ todo \in [Builders -> SUBSET Extensions]
  /\ prints \in [Builders -> Fingerprints]
  /\ job \in [Builders -> [Extensions -> {"none", "queued", "running", "ok", "failed"}]]
  /\ builds \in [Builders -> 0..MaxBuilds]
  /\ report \in [Builders -> {"none", "ok", "error"}]
  /\ \A p \in Builders : pc[p] \in {"building", "write", "writing", "rename"} => todo[p] = {}

Init ==
  /\ world \in Worlds
  /\ config = [e \in Extensions |-> 0]
  /\ output = [e \in Extensions |-> Absent]
  /\ cache = Holding(NoPrints)
  /\ tmp = NoFile
  /\ fd = [p \in Builders |-> "none"]
  /\ pc = [p \in Builders |-> "idle"]
  /\ mode = [p \in Builders |-> "incremental"]
  /\ graph = [p \in Builders |-> config]
  /\ known = [p \in Builders |-> NoPrints]
  /\ todo = [p \in Builders |-> {}]
  /\ prints = [p \in Builders |-> NoPrints]
  /\ job = [p \in Builders |-> [e \in Extensions |-> "none"]]
  /\ builds = [p \in Builders |-> 0]
  /\ report = [p \in Builders |-> "none"]

Goto(p, where) == pc' = [pc EXCEPT ![p] = where]

-----------------------------------------------------------------------------
(* The app's configuration graph is loaded and the adapter discovered.     *)
Invoke(p, m) ==
  /\ pc[p] = "idle"
  /\ builds[p] < MaxBuilds
  /\ m = "clean" => "removal" \in world
  /\ builds' = [builds EXCEPT ![p] = @ + 1]
  /\ mode' = [mode EXCEPT ![p] = m]
  /\ graph' = [graph EXCEPT ![p] = config]
  /\ todo' = [todo EXCEPT ![p] = Extensions]
  /\ prints' = [prints EXCEPT ![p] = NoPrints]
  /\ job' = [job EXCEPT ![p] = [e \in Extensions |-> "none"]]
  /\ report' = [report EXCEPT ![p] = "none"]
  /\ Goto(p, IF m = "clean" THEN "clean" ELSE "load")
  /\ UNCHANGED <<disk, known>>

(* clean_outputs, one directory after the other.                           *)
CleanOutput(p, e) ==
  /\ pc[p] = "clean"
  /\ e \in todo[p]
  /\ output' = [output EXCEPT ![e] = Absent]
  /\ todo' = [todo EXCEPT ![p] = @ \ {e}]
  /\ UNCHANGED <<world, config, cache, tmp, fd, pc, mode, graph, known, prints, job, builds, report>>

Cleaned(p) ==
  /\ pc[p] = "clean"
  /\ todo[p] = {}
  /\ todo' = [todo EXCEPT ![p] = Extensions]
  /\ Goto(p, "load")
  /\ UNCHANGED <<disk, mode, graph, known, prints, job, builds, report>>

(* A cache that cannot be parsed fails the build.                          *)
LoadCache(p) ==
  /\ pc[p] = "load"
  /\ IF cache = Torn
     THEN /\ Goto(p, "idle")
          /\ report' = [report EXCEPT ![p] = "error"]
          /\ UNCHANGED known
     ELSE /\ Goto(p, "schedule")
          /\ known' = [known EXCEPT ![p] = cache.prints]
          /\ UNCHANGED report
  /\ UNCHANGED <<disk, mode, graph, todo, prints, job, builds>>

(* The loop over the inputs: fingerprint, and skip or queue a job.         *)
Schedule(p, e) ==
  /\ pc[p] = "schedule"
  /\ e \in todo[p]
  /\ todo' = [todo EXCEPT ![p] = @ \ {e}]
  /\ prints' = [prints EXCEPT ![p][e] = config[e]]
  /\ job' = [job EXCEPT ![p][e] =
       IF mode[p] = "incremental" /\ known[p][e] = config[e] /\ output[e] # Absent
       THEN "none" ELSE "queued"]
  /\ UNCHANGED <<disk, pc, mode, graph, known, builds, report>>

(* A cancellation, no fingerprint, an extension without a type, or jobs    *)
(* and no adapter.                                                         *)
Refuse(p) ==
  /\ pc[p] = "schedule"
  /\ todo[p] # {} \/ \E e \in Extensions : job[p][e] = "queued"
  /\ Goto(p, "idle")
  /\ report' = [report EXCEPT ![p] = "error"]
  /\ UNCHANGED <<disk, mode, graph, known, todo, prints, job, builds>>

(* Mutant: jobs start while others are being scheduled.                    *)
StartJobsEarly(p) ==
  /\ pc[p] = "schedule"
  /\ Goto(p, "building")
  /\ UNCHANGED <<disk, run>>

StartJobs(p) ==
  /\ pc[p] = "schedule"
  /\ todo[p] = {}
  /\ Goto(p, "building")
  /\ UNCHANGED <<disk, run>>

(* An adapter begins to write the output.                                  *)
JobStarts(p, e) ==
  /\ pc[p] = "building"
  /\ job[p][e] = "queued"
  /\ job' = [job EXCEPT ![p][e] = "running"]
  /\ output' = [output EXCEPT ![e] = [of |-> graph[p][e], whole |-> FALSE]]
  /\ UNCHANGED <<world, config, cache, tmp, fd, pc, mode, graph, known, todo, prints, builds, report>>

JobSucceeds(p, e) ==
  /\ job[p][e] = "running"
  /\ pc[p] = "building"
  /\ job' = [job EXCEPT ![p][e] = "ok"]
  /\ output' = [output EXCEPT ![e] = [of |-> graph[p][e], whole |-> TRUE]]
  /\ UNCHANGED <<world, config, cache, tmp, fd, pc, mode, graph, known, todo, prints, builds, report>>

(* It fails, before or after it has written something.                     *)
JobFails(p, e) ==
  /\ "failure" \in world
  /\ pc[p] = "building"
  /\ job[p][e] \in {"queued", "running"}
  /\ job' = [job EXCEPT ![p][e] = "failed"]
  /\ UNCHANGED <<disk, pc, mode, graph, known, todo, prints, builds, report>>

(* Mutant: the fingerprints of a failed build are saved with the others.   *)
JobsEndInAnyCase(p) ==
  /\ pc[p] = "building"
  /\ \A e \in Extensions : job[p][e] \in {"none", "ok", "failed"}
  /\ known' = [known EXCEPT ![p] = [e \in Extensions |->
                 IF job[p][e] = "none" THEN known[p][e] ELSE prints[p][e]]]
  /\ Goto(p, "write")
  /\ UNCHANGED <<disk, mode, graph, todo, prints, job, builds, report>>

(* build_all has returned: an error, or responses whose artifacts must     *)
(* exist and whose fingerprints are then known.                            *)
JobsEnd(p) ==
  /\ pc[p] = "building"
  /\ \A e \in Extensions : job[p][e] \in {"none", "ok", "failed"}
  /\ IF \A e \in Extensions : job[p][e] = "none" \/ (job[p][e] = "ok" /\ output[e] # Absent)
     THEN /\ known' = [known EXCEPT ![p] = [e \in Extensions |->
                         IF job[p][e] = "ok" THEN prints[p][e] ELSE known[p][e]]]
          /\ Goto(p, "write")
          /\ UNCHANGED report
     ELSE /\ report' = [report EXCEPT ![p] = "error"]
          /\ Goto(p, "idle")
          /\ UNCHANGED known
  /\ UNCHANGED <<disk, mode, graph, todo, prints, job, builds>>

(* Mutant: the cache itself is opened for writing.                         *)
OpenCache(p) ==
  /\ pc[p] = "write"
  /\ cache' = Torn
  /\ fd' = [fd EXCEPT ![p] = "cache"]
  /\ Goto(p, "writing")
  /\ UNCHANGED <<world, config, output, tmp, run>>

(* save_cache: fs::write truncates the temporary file and then fills it.   *)
OpenTemporary(p) ==
  /\ pc[p] = "write"
  /\ tmp' = Torn
  /\ fd' = [fd EXCEPT ![p] = "tmp"]
  /\ Goto(p, "writing")
  /\ UNCHANGED <<world, config, output, cache, run>>

FillTemporary(p) ==
  /\ pc[p] = "writing"
  /\ tmp' = IF fd[p] = "tmp" THEN Holding(known[p]) ELSE tmp
  /\ cache' = IF fd[p] = "cache" THEN Holding(known[p]) ELSE cache
  /\ fd' = [fd EXCEPT ![p] = "none"]
  /\ Goto(p, "rename")
  /\ UNCHANGED <<world, config, output, run>>

(* fs::rename fails if another builder has renamed the file already; one   *)
(* that has it open is then writing the cache itself.                      *)
Rename(p) ==
  /\ pc[p] = "rename"
  /\ Goto(p, "idle")
  /\ IF tmp = NoFile
     THEN report' = [report EXCEPT ![p] = "error"] /\ UNCHANGED <<cache, tmp, fd>>
     ELSE /\ cache' = tmp
          /\ tmp' = NoFile
          /\ fd' = [q \in Builders |-> IF fd[q] = "tmp" THEN "cache" ELSE "none"]
          /\ report' = [report EXCEPT ![p] = "ok"]
  /\ UNCHANGED <<world, config, output, mode, graph, known, todo, prints, job, builds>>

(* The process is killed.  An adapter that outlives it is not modelled.    *)
Kill(p) ==
  /\ "failure" \in world
  /\ pc[p] # "idle"
  /\ Goto(p, "idle")
  /\ fd' = [fd EXCEPT ![p] = "none"]
  /\ report' = [report EXCEPT ![p] = "error"]
  /\ UNCHANGED <<world, config, output, cache, tmp, mode, graph, known, todo, prints, job, builds>>

-----------------------------------------------------------------------------
AllIdle == \A p \in Builders : pc[p] = "idle"

(* The user edits a configuration file.                                    *)
Edit(e) ==
  /\ "edit" \in world \/ AllIdle
  /\ config[e] < MaxVersion
  /\ config' = [config EXCEPT ![e] = @ + 1]
  /\ UNCHANGED <<world, output, cache, tmp, fd, pc, run>>

(* The user removes an output directory, and not the cache.                *)
RemoveOutput(e) ==
  /\ "removal" \in world /\ AllIdle
  /\ output' = [output EXCEPT ![e] = Absent]
  /\ UNCHANGED <<world, config, cache, tmp, fd, pc, run>>

Building(p) ==
  \/ Cleaned(p) \/ LoadCache(p) \/ StartJobs(p) \/ JobsEnd(p)
  \/ OpenTemporary(p) \/ FillTemporary(p) \/ Rename(p)
  \/ \E e \in Extensions : CleanOutput(p, e) \/ Schedule(p, e) \/ JobStarts(p, e) \/ JobSucceeds(p, e)

Next ==
  \/ \E p \in Builders, m \in {"incremental", "clean"} : Invoke(p, m)
  \/ \E p \in Builders : Building(p) \/ Refuse(p) \/ Kill(p)
  \/ \E p \in Builders, e \in Extensions : JobFails(p, e)
  \/ \E e \in Extensions : Edit(e) \/ RemoveOutput(e)

Spec == Init /\ [][Next]_vars

-----------------------------------------------------------------------------
(* Properties.                                                             *)

(* A build that reports success leaves every extension's output whole and  *)
(* built from the configuration the build was given, those it has skipped  *)
(* included ("skips an extension only when its config fingerprint and      *)
(* output directory are unchanged", docs/build-pipeline.md).               *)
ReportIsTrue ==
  [][\A p \in Builders :
       pc[p] = "rename" /\ pc'[p] = "idle" /\ report'[p] = "ok" =>
         \A e \in Extensions : output[e] = [of |-> graph[p][e], whole |-> TRUE]]_vars

(* No build, wherever it is killed, leaves a cache that the next one       *)
(* cannot read ("The cache is written through a temporary file", the same  *)
(* document).                                                              *)
CacheIsReadable == cache # Torn

(* That is so where there is one builder at a time: the file it has open   *)
(* is the temporary one, which is complete before it is renamed.           *)
Written ==
  /\ cache.state = "whole"
  /\ \A p \in Builders :
       /\ fd[p] = IF pc[p] = "writing" THEN "tmp" ELSE "none"
       /\ pc[p] = "rename" => tmp.state = "whole"
=============================================================================
