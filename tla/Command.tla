------------------------------ MODULE Command ------------------------------
(***************************************************************************)
(* One command of the CLI (run of crates/cfy-cli/src/lib.rs): which one,   *)
(* what it has still to do, and how it has ended.                          *)
(*                                                                         *)
(* Most commands follow a plan, the steps of their handler in order, which *)
(* the options given decide.  An action takes the step the plan is at; a   *)
(* step may stay, in a loop, or return early.  Any step may fail: the `?`  *)
(* of the code returns the error and undoes nothing, unless a handler says *)
(* so.  Ctrl-C ends the process where it is, unless a handler listens.     *)
(***************************************************************************)
EXTENDS Naturals, Sequences, FiniteSets

VARIABLES
  command,   \* the command that was given
  at,        \* its next step; "plan" where it follows one
  result,    \* its exit: none yet, "ok", "error" or "killed"
  given,     \* the options, and the facts about the terminal it runs in
  todo,      \* the steps left of its plan
  held,      \* what it has learnt: a function from names to values
  files,     \* the files it deals with: a function from paths to contents
  found,     \* the files as they were when it started
  agreed,    \* the paths an option or an answer lets it replace
  server,    \* what the services know, by name
  sent       \* the requests that change something, in order

commandVars == <<command, at, result>>
plannedVars == <<given, todo, held, files, found, agreed, server, sent>>

Runs(c, step) == command = c /\ at = step
Goto(step) == at' = step /\ UNCHANGED <<command, result>>
End(how) == at' = "done" /\ result' = how /\ UNCHANGED command
Fail == End("error")
Succeed == End("ok")

(* Where there is no plan.                                                 *)
Unplanned ==
  /\ given = {} /\ todo = <<>> /\ agreed = {} /\ sent = <<>>
  /\ held = <<>> /\ files = <<>> /\ found = <<>> /\ server = <<>>

-----------------------------------------------------------------------------
Chosen(option, steps) == IF option \in given THEN steps ELSE <<>>
Without(option, steps) == IF option \in given THEN <<>> ELSE steps

Begin(c, options, disk, services) ==
  /\ command = c
  /\ given \in options
  /\ files \in disk
  /\ found = files
  /\ server \in services
  /\ held = <<>> /\ sent = <<>>

Planned == result = "none" /\ todo # <<>>
At(s) == Planned /\ Head(todo) = s
Pass == todo' = Tail(todo) /\ UNCHANGED <<commandVars, given, found>>
Stay == UNCHANGED <<commandVars, given, found, todo>>
Return(how) == todo' = <<>> /\ result' = how /\ UNCHANGED <<command, at, given, found>>
Then == IF Len(todo) = 1 THEN Return("ok") ELSE Pass

(* A function of one name; one function over another.                      *)
Only(k, v) == [x \in {k} |-> v]
Over(f, g) == [x \in DOMAIN f \union DOMAIN g |-> IF x \in DOMAIN f THEN f[x] ELSE g[x]]

Learn(k, v) == held' = Over(Only(k, v), held)
Knows(k) == k \in DOMAIN held
Set(p, c) == files' = Over(Only(p, c), files)
Exists(p) == p \in DOMAIN files
Content(p) == IF Exists(p) THEN files[p] ELSE "none"
Gone(p) == files' = [q \in DOMAIN files \ {p} |-> files[q]]

Quiet == UNCHANGED <<files, agreed, server, sent>>
OnDisk == UNCHANGED <<held, agreed, server, sent>>
OnServer == UNCHANGED <<held, files, agreed>>

(* A request or a check that the properties see only succeed or fail.      *)
Step(s) == At(s) /\ Then /\ UNCHANGED held /\ Quiet

(* A request that changes something is sent once; the answer may be lost   *)
(* after the change was made, and the command then says it failed.         *)
Mutation(s, change) ==
  /\ At(s)
  /\ sent' = Append(sent, s)
  /\ server' = Over(change, server)
  /\ Then \/ Return("error")
  /\ OnServer

(* A file replaced through write_atomic is the old or the new one; what    *)
(* fs::write or fs::copy writes may be cut short.                          *)
Replace(s, p, c) == At(s) /\ Set(p, c) /\ Then /\ OnDisk

StepFails(undone) ==
  /\ Planned
  /\ Head(todo) \notin undone
  /\ Return("error")
  /\ UNCHANGED held /\ Quiet

Killed(listening) ==
  /\ Planned
  /\ Head(todo) \notin listening
  /\ Return("killed")
  /\ UNCHANGED held /\ Quiet
=============================================================================
