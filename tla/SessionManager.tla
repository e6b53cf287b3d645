--------------------------- MODULE SessionManager ---------------------------
(***************************************************************************)
(* Sessions of one identity in crates/cfy-auth: SessionManager::session    *)
(* with its refresh lock, login and logout, over the credential store of   *)
(* the operating system and the entry an older release left in it.         *)
(*                                                                         *)
(* A client is one request for a session, a login or a logout under way;   *)
(* the clients of one manager share its lock.  Every command makes its own *)
(* manager, so two managers are two cfy processes.  A session is           *)
(* represented by its generation: the n-th refresh token ever issued.      *)
(***************************************************************************)
EXTENDS Naturals

CONSTANTS
  Clients,       \* requests under way
  Managers,      \* SessionManager values, one per cfy process
  ManagerOf,     \* the manager a client uses
  MaxGen         \* bound: refresh tokens issued

ASSUME SessionAssumption ==
  /\ ManagerOf \in [Clients -> Managers]
  /\ MaxGen \in Nat \ {0}

VARIABLES
  hadLegacy,  \* the generation in the legacy entry at first, 0 if none
  entry,      \* the generation in the store's entry, 0 if there is none
  legacy,     \* the generation in the legacy entry, 0 if there is none
  issued,     \* the newest generation the identity service has issued
  expired,    \* generations that are not valid outside the refresh skew
  pc,         \* per client: its next step
  got,        \* per client: the generation its last load returned
  fresh,      \* per client: a generation issued to it and not yet saved
  holders,    \* the clients that hold their manager's refresh lock
  succeeded,  \* <<m, g>>: manager m has saved a successor of generation g
  loggedOut   \* a logout has returned, and no login has saved since

vars == <<hadLegacy, entry, legacy, issued, expired, pc, got, fresh, holders, succeeded, loggedOut>>

Gen == 1..MaxGen

Loading == {"read", "readLegacy", "setEntry", "dropLegacy"}
PC == Loading \union {"idle", "check", "acquire", "refresh", "save", "saveLogin"}

(* Only a client that owns the lock has got this far.                      *)
MustHold == {"refresh", "save"}

TypeOK ==
  /\ hadLegacy \in {0, 1}
  /\ entry \in {0} \union Gen
  /\ legacy \in {0} \union Gen
  /\ issued \in Gen
  /\ expired \in SUBSET Gen
  /\ pc \in [Clients -> PC]
  /\ got \in [Clients -> {0} \union Gen]
  /\ fresh \in [Clients -> {0} \union Gen]
  /\ holders \in SUBSET Clients
  /\ succeeded \in SUBSET (Managers \X Gen)
  /\ loggedOut \in BOOLEAN
  /\ \A c \in holders : pc[c] \in Loading \union MustHold \union {"check"}
  /\ \A c \in Clients : pc[c] \in MustHold => got[c] # 0

(* One session was saved before, by this release or by the older one.      *)
Init ==
  /\ hadLegacy \in {0, 1}
  /\ entry = 1 - hadLegacy
  /\ legacy = hadLegacy
  /\ issued = 1
  /\ expired \in SUBSET {1}
  /\ pc = [c \in Clients |-> "idle"]
  /\ got = [c \in Clients |-> 0]
  /\ fresh = [c \in Clients |-> 0]
  /\ holders = {}
  /\ succeeded = {}
  /\ loggedOut = FALSE

Goto(c, from, to) ==
  /\ pc[c] = from
  /\ pc' = [pc EXCEPT ![c] = to]

(* The call returns, with a session, none or an error; the guard of the    *)
(* lock is dropped on every path.                                          *)
Return(c) ==
  /\ pc' = [pc EXCEPT ![c] = "idle"]
  /\ got' = [got EXCEPT ![c] = 0]
  /\ fresh' = [fresh EXCEPT ![c] = 0]
  /\ holders' = holders \ {c}

-----------------------------------------------------------------------------
(* NativeCredentialStore::load, inside session().                          *)

StartSession(c) ==
  /\ Goto(c, "idle", "read")
  /\ UNCHANGED <<hadLegacy, entry, legacy, issued, expired, got, fresh, holders, succeeded, loggedOut>>

ReadEntry(c) ==
  /\ pc[c] = "read"
  /\ got' = [got EXCEPT ![c] = entry]
  /\ pc' = [pc EXCEPT ![c] =
              IF entry = 0 /\ hadLegacy # 0 THEN "readLegacy" ELSE "check"]
  /\ UNCHANGED <<hadLegacy, entry, legacy, issued, expired, fresh, holders, succeeded, loggedOut>>

(* Mutant: the legacy entry is taken out as it is read.                    *)
TakeLegacy(c) ==
  /\ pc[c] = "readLegacy"
  /\ got' = [got EXCEPT ![c] = legacy]
  /\ legacy' = 0
  /\ pc' = [pc EXCEPT ![c] = IF legacy = 0 THEN "check" ELSE "setEntry"]
  /\ UNCHANGED <<hadLegacy, entry, issued, expired, fresh, holders, succeeded, loggedOut>>

ReadLegacy(c) ==
  /\ pc[c] = "readLegacy"
  /\ got' = [got EXCEPT ![c] = legacy]
  /\ pc' = [pc EXCEPT ![c] = IF legacy = 0 THEN "check" ELSE "setEntry"]
  /\ UNCHANGED <<hadLegacy, entry, legacy, issued, expired, fresh, holders, succeeded, loggedOut>>

(* The payload read a step ago is written to the new entry.                *)
SetEntry(c) ==
  /\ Goto(c, "setEntry", "dropLegacy")
  /\ entry' = got[c]
  /\ UNCHANGED <<hadLegacy, legacy, issued, expired, got, fresh, holders, succeeded, loggedOut>>

DropLegacy(c) ==
  /\ Goto(c, "dropLegacy", "check")
  /\ legacy' = 0
  /\ UNCHANGED <<hadLegacy, entry, issued, expired, got, fresh, holders, succeeded, loggedOut>>

(* Any of these calls on the operating system's store may fail.            *)
LoadFails(c) ==
  /\ pc[c] \in Loading
  /\ Return(c)
  /\ UNCHANGED <<hadLegacy, entry, legacy, issued, expired, succeeded, loggedOut>>

-----------------------------------------------------------------------------
(* SessionManager::session.                                                *)

(* Nothing stored, or a session that is still valid: that is the answer.   *)
Answer(c) ==
  /\ pc[c] = "check"
  /\ got[c] \notin expired
  /\ Return(c)
  /\ UNCHANGED <<hadLegacy, entry, legacy, issued, expired, succeeded, loggedOut>>

(* An expired session, seen without the lock: ask for it.                  *)
WantLock(c) ==
  /\ got[c] \in expired
  /\ c \notin holders
  /\ Goto(c, "check", "acquire")
  /\ UNCHANGED <<hadLegacy, entry, legacy, issued, expired, got, fresh, holders, succeeded, loggedOut>>

LockIsFree(m) == \A d \in holders : ManagerOf[d] # m

(* Mutant: the session loaded before the lock is the one refreshed.        *)
AcquireWithoutReload(c) ==
  /\ LockIsFree(ManagerOf[c])
  /\ Goto(c, "acquire", "check")
  /\ holders' = holders \union {c}
  /\ UNCHANGED <<hadLegacy, entry, legacy, issued, expired, got, fresh, succeeded, loggedOut>>

(* With the lock, the store is read again.                                 *)
Acquire(c) ==
  /\ LockIsFree(ManagerOf[c])
  /\ Goto(c, "acquire", "read")
  /\ holders' = holders \union {c}
  /\ UNCHANGED <<hadLegacy, entry, legacy, issued, expired, got, fresh, succeeded, loggedOut>>

(* Still expired under the lock: refresh.                                  *)
StartRefresh(c) ==
  /\ got[c] \in expired
  /\ c \in holders
  /\ Goto(c, "check", "refresh")
  /\ UNCHANGED <<hadLegacy, entry, legacy, issued, expired, got, fresh, holders, succeeded, loggedOut>>

(* The refresher returns a new session.                                    *)
Exchange(c) ==
  /\ issued < MaxGen
  /\ Goto(c, "refresh", "save")
  /\ issued' = issued + 1
  /\ fresh' = [fresh EXCEPT ![c] = issued + 1]
  /\ UNCHANGED <<hadLegacy, entry, legacy, expired, got, holders, succeeded, loggedOut>>

(* Mutant: a failed refresh leaves with the lock.                          *)
RefreshFailsLocked(c) ==
  /\ Goto(c, "refresh", "idle")
  /\ UNCHANGED <<hadLegacy, entry, legacy, issued, expired, got, fresh, holders, succeeded, loggedOut>>

(* It returns an error, or a session of another identity.                  *)
RefreshFails(c) ==
  /\ pc[c] = "refresh"
  /\ Return(c)
  /\ UNCHANGED <<hadLegacy, entry, legacy, issued, expired, succeeded, loggedOut>>

Save(c) ==
  /\ pc[c] = "save"
  /\ entry' = fresh[c]
  /\ succeeded' = succeeded \union {<<ManagerOf[c], got[c]>>}
  /\ Return(c)
  /\ UNCHANGED <<hadLegacy, legacy, issued, expired, loggedOut>>

(* The refreshed session is lost; the stored one has been exchanged.       *)
SaveFails(c) ==
  /\ pc[c] \in {"save", "saveLogin"}
  /\ Return(c)
  /\ UNCHANGED <<hadLegacy, entry, legacy, issued, expired, succeeded, loggedOut>>

-----------------------------------------------------------------------------
(* Login and logout take no lock.                                          *)

LoginGranted(c) ==
  /\ issued < MaxGen
  /\ Goto(c, "idle", "saveLogin")
  /\ issued' = issued + 1
  /\ fresh' = [fresh EXCEPT ![c] = issued + 1]
  /\ UNCHANGED <<hadLegacy, entry, legacy, expired, got, holders, succeeded, loggedOut>>

SaveLogin(c) ==
  /\ pc[c] = "saveLogin"
  /\ entry' = fresh[c]
  /\ loggedOut' = FALSE
  /\ Return(c)
  /\ UNCHANGED <<hadLegacy, legacy, issued, expired, succeeded>>

(* NativeCredentialStore::delete: the legacy entry is not touched.         *)
Logout(c) ==
  /\ pc[c] = "idle"
  /\ entry' = 0
  /\ loggedOut' = TRUE
  /\ UNCHANGED <<hadLegacy, legacy, issued, expired, pc, got, fresh, holders, succeeded>>

(* Time passes.                                                            *)
Expire(g) ==
  /\ g \in 1..issued
  /\ expired' = expired \union {g}
  /\ UNCHANGED <<hadLegacy, entry, legacy, issued, pc, got, fresh, holders, succeeded, loggedOut>>

-----------------------------------------------------------------------------
Load(c)    == ReadEntry(c) \/ ReadLegacy(c) \/ SetEntry(c) \/ DropLegacy(c) \/ LoadFails(c)
Refresh(c) == StartRefresh(c) \/ Exchange(c) \/ RefreshFails(c) \/ Save(c) \/ SaveFails(c)

Next ==
  \/ \E c \in Clients : StartSession(c) \/ Load(c) \/ Answer(c) \/ WantLock(c)
                          \/ Acquire(c) \/ Refresh(c)
                          \/ LoginGranted(c) \/ SaveLogin(c) \/ Logout(c)
  \/ \E g \in Gen : Expire(g)

Spec == Init /\ [][Next]_vars

(* A call that can go on does; the lock is handed out in order of request  *)
(* (tokio's Mutex is fair).  Nobody has to start a call.                   *)
Fairness ==
  \A c \in Clients :
    /\ WF_vars(Load(c) \/ Answer(c) \/ WantLock(c) \/ Refresh(c) \/ SaveLogin(c))
    /\ SF_vars(Acquire(c))

FairSpec == Spec /\ Fairness

-----------------------------------------------------------------------------
(* Properties.                                                             *)

(* Within a manager one client at a time refreshes, and it holds the lock. *)
SingleFlight ==
  \A c, d \in Clients :
     /\ pc[c] \in MustHold => c \in holders
     /\ ManagerOf[c] = ManagerOf[d] /\ {c, d} \subseteq holders => c = d

(* A session whose successor this manager has saved is never sent to the   *)
(* refresher by it again, whatever logins, logouts and other processes do: *)
(* "only the first request exchanges the refresh token; the rest consume   *)
(* the new session" (docs/architecture/credential-storage.md).             *)
ExchangedOnce ==
  \A c \in Clients : pc[c] \in MustHold => <<ManagerOf[c], got[c]>> \notin succeeded

(* It is so where there was no legacy entry to migrate.                    *)
NoSecondExchange == hadLegacy = 0 => ExchangedOnce

(* A session() call that waits for the lock is served in the end, whatever *)
(* became of the refreshes before it.                                      *)
EveryCallReturns ==
  \A c \in Clients : pc[c] # "idle" ~> pc[c] = "idle"

(* Wherever a migration, a refresh or a save stops half way, the identity  *)
(* keeps a stored session until it logs out.                               *)
SessionIsKept == loggedOut \/ entry # 0 \/ legacy # 0

(* The inductive invariant, where there is no legacy entry.  A generation  *)
(* that was issued and not yet saved is known to nobody else, the stored   *)
(* one has no saved successor, nor has the one a holder of the lock works  *)
(* on, since nobody else in its manager can save.                          *)
IssuedBound ==
  /\ entry <= issued
  /\ \A c \in Clients : got[c] <= issued /\ fresh[c] <= issued
  /\ \A m \in Managers, g \in Gen : <<m, g>> \in succeeded => g <= issued

FreshIsUnknown ==
  \A c \in Clients :
    /\ fresh[c] # 0 <=> pc[c] \in {"save", "saveLogin"}
    /\ fresh[c] # 0 =>
         /\ entry # fresh[c]
         /\ \A m \in Managers : <<m, fresh[c]>> \notin succeeded
         /\ \A d \in Clients : got[d] # fresh[c] /\ (d # c => fresh[d] # fresh[c])

NotSucceeded ==
  /\ \A m \in Managers : <<m, entry>> \notin succeeded
  /\ \A c \in holders : pc[c] \in MustHold \union {"check"} =>
        <<ManagerOf[c], got[c]>> \notin succeeded

NoMigration == \A c \in Clients : pc[c] \notin {"readLegacy", "setEntry", "dropLegacy"}

(* What a client is about to store is a session, and the legacy entry is   *)
(* taken away only when the entry has been written.                        *)
InHand ==
  \A c \in Clients :
    /\ pc[c] = "setEntry" => got[c] # 0
    /\ pc[c] \in {"save", "saveLogin"} => fresh[c] # 0
    /\ pc[c] = "dropLegacy" => loggedOut \/ entry # 0

SInv ==
  /\ TypeOK
  /\ SingleFlight
  /\ InHand
  /\ hadLegacy = 0 => NoMigration /\ IssuedBound /\ FreshIsUnknown /\ NotSucceeded
=============================================================================
