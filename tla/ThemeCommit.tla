---------------------------- MODULE ThemeCommit ----------------------------
(***************************************************************************)
(* commit_staged_files_cancellable of crates/cfy-config: the downloaded    *)
(* files of `cfy theme pull` replace those of a directory as one           *)
(* transaction, with a backup of each replaced file and a rollback.        *)
(*                                                                         *)
(* A file is its contents: those it had, those that were downloaded, or    *)
(* half a copy.  The steps are the system calls; the process may be killed *)
(* after any of them, and nothing ever repairs what it leaves, so that     *)
(* what holds after a crash is what holds in every state.                  *)
(***************************************************************************)
CONSTANT Files  \* the downloaded files

FaultKinds == {"io", "sync", "rollback", "cleanup"}

VARIABLES
  faults,       \* which kinds of error the file system returns
  original,     \* what was at each path before
  disk,         \* what is there
  backup,       \* what is in the transaction's backup directory
  remaining,    \* the files not yet committed
  committed,    \* the files in `committed`, which a rollback undoes
  at,           \* the next step
  cur,          \* the file being committed
  unrestored,   \* rollback_error is set
  cancellation, \* the Cancellation flag
  outcome       \* what the call returned

commitVars == <<faults, original, disk, backup, remaining, committed, at, cur, unrestored, cancellation, outcome>>

Writing == {"next", "backup", "copying", "write", "sync"}

CommitTypeOK ==
  /\ faults \subseteq FaultKinds
  /\ original \in [Files -> {"absent", "old", "directory"}]
  /\ disk \in [Files -> {"absent", "old", "directory", "new"}]
  /\ backup \in [Files -> {"none", "half", "old"}]
  /\ remaining \in SUBSET Files
  /\ committed \in SUBSET (Files \ remaining)
  /\ at \in {"validate", "rollback", "discard", "done"} \union Writing
  /\ cur \in Files
  /\ unrestored \in BOOLEAN
  /\ cancellation \in BOOLEAN
  /\ outcome \in {"none", "ok", "error"}

CommitInit ==
  /\ faults \in SUBSET FaultKinds
  /\ original \in [Files -> {"absent", "old", "directory"}]
  /\ disk = original
  /\ backup = [f \in Files |-> "none"]
  /\ remaining = Files
  /\ committed = {}
  /\ at = "validate"
  /\ cur \in Files
  /\ unrestored = FALSE
  /\ cancellation = FALSE
  /\ outcome = "none"

(* An unsafe path, one named twice, a symbolic link, or a directory that   *)
(* cannot be made; or the pull is cancelled already.                       *)
Reject ==
  /\ at = "validate"
  /\ cancellation \/ "io" \in faults
  /\ at' = "done"
  /\ outcome' = "error"
  /\ UNCHANGED <<faults, original, disk, backup, remaining, committed, cur, unrestored, cancellation>>

Accept ==
  /\ at = "validate"
  /\ ~cancellation
  /\ at' = "next"
  /\ UNCHANGED <<faults, original, disk, backup, remaining, committed, cur, unrestored, cancellation, outcome>>

(* Mutant: a file that exists is replaced without a backup.                *)
PickWithoutBackup(f) ==
  /\ at = "next"
  /\ ~cancellation
  /\ f \in remaining
  /\ disk[f] # "directory"
  /\ cur' = f
  /\ at' = "write"
  /\ UNCHANGED <<faults, original, disk, backup, remaining, committed, unrestored, cancellation, outcome>>

(* The next file, in whatever order they were downloaded.                  *)
Pick(f) ==
  /\ at = "next"
  /\ ~cancellation
  /\ f \in remaining
  /\ disk[f] # "directory"
  /\ cur' = f
  /\ at' = IF disk[f] = "old" THEN "backup" ELSE "write"
  /\ UNCHANGED <<faults, original, disk, backup, remaining, committed, unrestored, cancellation, outcome>>

(* A cancellation, a path at which there is a directory, or an error.      *)
Fail ==
  /\ \/ at = "next" /\ cancellation /\ remaining # {}
     \/ at = "next" /\ ~cancellation /\ \E f \in remaining : disk[f] = "directory"
     \/ at \in Writing \ {"sync"} /\ remaining # {} /\ "io" \in faults
  /\ at' = "rollback"
  /\ UNCHANGED <<faults, original, disk, backup, remaining, committed, cur, unrestored, cancellation, outcome>>

(* Mutant: the file is replaced while it is being copied.                  *)
StartCopyInBackground ==
  /\ at = "backup"
  /\ backup' = [backup EXCEPT ![cur] = "half"]
  /\ at' = "write"
  /\ UNCHANGED <<faults, original, disk, remaining, committed, cur, unrestored, cancellation, outcome>>

(* fs::copy is not atomic.                                                 *)
StartCopy ==
  /\ at = "backup"
  /\ backup' = [backup EXCEPT ![cur] = "half"]
  /\ at' = "copying"
  /\ UNCHANGED <<faults, original, disk, remaining, committed, cur, unrestored, cancellation, outcome>>

FinishCopy ==
  /\ at = "copying"
  /\ backup' = [backup EXCEPT ![cur] = "old"]
  /\ at' = "write"
  /\ UNCHANGED <<faults, original, disk, remaining, committed, cur, unrestored, cancellation, outcome>>

(* write_atomic: the temporary file is complete and is renamed ...         *)
Replace ==
  /\ at = "write"
  /\ disk' = [disk EXCEPT ![cur] = "new"]
  /\ at' = "sync"
  /\ UNCHANGED <<faults, original, backup, remaining, committed, cur, unrestored, cancellation, outcome>>

(* Mutant: only the files that have a backup are recorded.                 *)
CommitReplaced ==
  /\ at = "sync"
  /\ committed' = IF backup[cur] = "none" THEN committed ELSE committed \union {cur}
  /\ remaining' = remaining \ {cur}
  /\ at' = "next"
  /\ UNCHANGED <<faults, original, disk, backup, cur, unrestored, cancellation, outcome>>

(* ... and the directory is synced, which makes the file a committed one.  *)
Commit ==
  /\ at = "sync"
  /\ committed' = committed \union {cur}
  /\ remaining' = remaining \ {cur}
  /\ at' = "next"
  /\ UNCHANGED <<faults, original, disk, backup, cur, unrestored, cancellation, outcome>>

(* sync_directory fails: write_atomic does, although the file is replaced. *)
SyncFails ==
  /\ at = "sync"
  /\ "sync" \in faults
  /\ at' = "rollback"
  /\ UNCHANGED <<faults, original, disk, backup, remaining, committed, cur, unrestored, cancellation, outcome>>

Before(f) == IF backup[f] = "none" THEN "absent" ELSE backup[f]

(* Files are restored from their backups, new ones are removed.  The code  *)
(* goes in reverse order; the paths are distinct, so any order will do.    *)
Restore(f) ==
  /\ at = "rollback"
  /\ f \in committed
  /\ disk' = [disk EXCEPT ![f] = Before(f)]
  /\ committed' = committed \ {f}
  /\ UNCHANGED <<faults, original, backup, remaining, at, cur, unrestored, cancellation, outcome>>

(* An error, before or after the file was restored; the rollback goes on.  *)
RestoreFails(f) ==
  /\ at = "rollback"
  /\ f \in committed
  /\ "rollback" \in faults
  /\ \/ UNCHANGED disk
     \/ disk' = [disk EXCEPT ![f] = Before(f)]
  /\ committed' = committed \ {f}
  /\ unrestored' = TRUE
  /\ UNCHANGED <<faults, original, backup, remaining, at, cur, cancellation, outcome>>

(* The transaction's directory is removed, whatever became of the files;   *)
(* that it cannot be is ignored.                                           *)
RolledBack ==
  /\ at = "rollback"
  /\ committed = {}
  /\ at' = "done"
  /\ outcome' = "error"
  /\ \/ backup' = [f \in Files |-> "none"]
     \/ "cleanup" \in faults /\ UNCHANGED backup
  /\ UNCHANGED <<faults, original, disk, remaining, committed, cur, unrestored, cancellation>>

AllWritten ==
  /\ at = "next"
  /\ remaining = {}
  /\ at' = "discard"
  /\ UNCHANGED <<faults, original, disk, backup, remaining, committed, cur, unrestored, cancellation, outcome>>

Discard ==
  /\ at = "discard"
  /\ at' = "done"
  /\ outcome' = "ok"
  /\ backup' = [f \in Files |-> "none"]
  /\ UNCHANGED <<faults, original, disk, remaining, committed, cur, unrestored, cancellation>>

(* This time the error is returned.                                        *)
DiscardFails ==
  /\ at = "discard"
  /\ "cleanup" \in faults
  /\ at' = "done"
  /\ outcome' = "error"
  /\ UNCHANGED <<faults, original, disk, backup, remaining, committed, cur, unrestored, cancellation>>

CancelPull ==
  /\ ~cancellation
  /\ cancellation' = TRUE
  /\ UNCHANGED <<faults, original, disk, backup, remaining, committed, at, cur, unrestored, outcome>>

Call ==
  \/ Reject \/ Accept \/ Fail \/ StartCopy \/ FinishCopy \/ Replace \/ Commit \/ SyncFails
  \/ \E f \in Files : Pick(f) \/ Restore(f) \/ RestoreFails(f)
  \/ RolledBack \/ AllWritten \/ Discard \/ DiscardFails

CommitNext == Call \/ CancelPull

CommitSpec == CommitInit /\ [][CommitNext]_commitVars

-----------------------------------------------------------------------------
(* Properties.                                                             *)

(* One transaction: a pull that fails or is cancelled has left every file  *)
(* as it was, one that succeeds has replaced all of them.  The doc comment *)
(* of commit_staged_files: "If any replacement fails, every prior          *)
(* replacement is restored and newly-created files are removed."  It is so *)
(* unless the sync of a directory, a rollback or a cleanup fails.          *)
AllOrNothing ==
  faults \subseteq {"io"} =>
    /\ outcome = "error" => disk = original
    /\ outcome = "ok" => \A f \in Files : disk[f] = "new"

(* Wherever the process is killed, the old contents of every file are at   *)
(* its path or, complete, in the backup directory, until every file has    *)
(* been written or the call returns.                                       *)
OriginalsSurvive ==
  at \notin {"discard", "done"} => \A f \in Files : original[f] = "old" => "old" \in {disk[f], backup[f]}

(* The inductive invariant.  A file differs from what it was only if it is *)
(* new and was backed up; without the faults after which write_atomic has  *)
(* replaced a file it does not report, those are the files on the list.    *)
BackedUp ==
  \A f \in Files :
    /\ disk[f] \in {original[f], "new"}
    /\ backup[f] # "none" => original[f] = "old"
    /\ original[f] = "directory" => disk[f] = "directory"
    /\ at # "done" /\ original[f] = "old" /\ disk[f] = "new" => backup[f] = "old"
    /\ at # "done" /\ f \in committed => disk[f] = "new"

Steps ==
  /\ at \in {"backup", "copying", "write", "sync"} => cur \in remaining
  /\ at \in {"backup", "copying"} => original[cur] = "old" /\ disk[cur] = "old"
  /\ at \in {"validate"} \union Writing =>
       \A f \in remaining : disk[f] = original[f] \/ (at = "sync" /\ f = cur)
  /\ at = "write" => original[cur] # "directory"
  /\ at = "write" /\ original[cur] = "old" => backup[cur] = "old"
  /\ at = "sync" => disk[cur] = "new"
  /\ at = "discard" => remaining = {}
  /\ at \in Writing \union {"discard"} => committed = Files \ remaining
  /\ at = "validate" => committed = {} /\ remaining = Files
  /\ outcome # "none" <=> at = "done"
  /\ outcome = "ok" => \A f \in Files : disk[f] = "new"

Listed ==
  faults \subseteq {"io"} =>
    /\ ~unrestored
    /\ at # "done" => \A f \in Files :
         disk[f] # original[f] => f \in committed \/ (at = "sync" /\ f = cur)
    /\ outcome = "error" => disk = original

CInv == CommitTypeOK /\ BackedUp /\ Steps /\ Listed
=============================================================================
