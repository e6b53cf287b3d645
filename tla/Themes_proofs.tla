--------------------------- MODULE Themes_proofs ---------------------------
(***************************************************************************)
(* Theorems about the theme commands: about ThemeStore, the commands of    *)
(* any number of users against one store, and about ThemeCommit, the       *)
(* transaction in which one of them, theme pull, writes its files, for any *)
(* set of downloaded files.                                                *)
(***************************************************************************)
EXTENDS ThemeStore, ThemeCommit, FiniteSetTheorems, TLAPS

-----------------------------------------------------------------------------
(* The store.                                                              *)

(* What user u does.                                                       *)
Act(u) == Start(u) \/ Downloading(u) \/ Making(u) \/ Uploading(u) \/ Cancel(u)

(* The theme a command works on has been made.                             *)
Live(u) == target[u] \in Themes /\ role[target[u]] # "none"

(* The steps a command has.                                                *)
Route(u) ==
  pc[u] \in {"start", "done"} \union
    (CASE cmd[u] = "push"    -> {"list", "read", "keys", "asset", "push"}
       [] cmd[u] = "pull"    -> {"keys", "asset", "commit"}
       [] cmd[u] = "share"   -> {"read", "create", "push", "cleanup"}
       [] cmd[u] = "console" -> {"list", "create", "push"}
       [] OTHER              -> {"act"})

Unmade == {"start", "list", "read", "keys", "asset", "commit", "create", "act"}

(* A command makes its theme at one step, which a share passes once for    *)
(* each of its environments: but for the theme it is at, what it has made  *)
(* it has shared.                                                          *)
Sound(u) ==
  /\ Route(u)
  /\ \/ Live(u)
     \/ /\ target[u] = NoTheme /\ cmd[u] \in {"share", "console"}
        /\ pc[u] \in {"start", "list", "read", "create", "done"}
  /\ \A t \in made[u] : role[t] # "none"
  /\ shared[u] \subseteq made[u] /\ asked[u] \subseteq made[u] \ shared[u]
  /\ pc[u] \in Unmade => made[u] = shared[u] /\ (cmd[u] = "share" => target[u] = NoTheme)
  /\ cmd[u] = "share" /\ pc[u] \in {"push", "cleanup"} => target[u] \in made[u] \ shared[u]
  /\ \A s, t \in made[u] \ shared[u] : s = t
  /\ pc[u] # "done" => asked[u] = {}
  /\ cmd[u] = "share" =>
       /\ result[u] = "error" /\ target[u] \in made[u] => target[u] \in asked[u]
       /\ result[u] = "ok" => left[u] = 0 /\ made[u] = shared[u]

(* What has been downloaded so far is what is in the theme, and what has   *)
(* been pushed so far.                                                     *)
True(u) ==
  /\ pc[u] = "asset" => \A k \in Paths \ todo[u] : got[u][k] = files[target[u]][k]
  /\ pc[u] = "commit" => \A k \in Paths : got[u][k] = files[target[u]][k]
  /\ pc[u] = "push" /\ ~failed[u] =>
       \A k \in Paths \ todo[u] :
         /\ Wanted(u, k) # 0 => files[target[u]][k] = Wanted(u, k)
         /\ cmd[u] = "push" /\ deleting[u] => files[target[u]][k] = local[u][k]

StoreInv == TypeOK /\ \A u \in Users : Sound(u) /\ (~disturbed[u] => True(u))

(* Nobody else's command is touched.                                       *)
Alone(u) ==
  \A v \in Users \ {u} :
    /\ cmd'[v] = cmd[v] /\ target'[v] = target[v] /\ deleting'[v] = deleting[v] /\ local'[v] = local[v]
    /\ pc'[v] = pc[v] /\ todo'[v] = todo[v] /\ got'[v] = got[v] /\ failed'[v] = failed[v]
    /\ result'[v] = result[v] /\ made'[v] = made[v] /\ asked'[v] = asked[v]
    /\ left'[v] = left[v] /\ shared'[v] = shared[v]

Spares(u) ==
  /\ \A t \in Themes : role[t] # "none" => role'[t] # "none"
  /\ \A v \in Users \ {u} :
       Live(v) /\ ~disturbed'[v] => ~disturbed[v] /\ files'[target[v]] = files[target[v]]

(* A theme that is deleted is one a command that works on it misses.       *)
LEMMA DeletionDisturbs ==
  ASSUME TypeOK, NEW u \in Users, Put(target[u], "deleted", Nothing), Disturb(u, target[u])
  PROVE  Spares(u)
<1>1. \A t \in Themes : t # target[u] => role'[t] = role[t] /\ files'[t] = files[t]
  BY DEF Put, TypeOK
<1>2. \A t \in Themes : role[t] # "none" => role'[t] # "none"
  BY DEF Put, TypeOK
<1>3. \A v \in Users \ {u} : ~disturbed'[v] => ~disturbed[v] /\ target[v] # target[u]
  BY DEF Disturb
<1>4. QED
  BY <1>1, <1>2, <1>3 DEF Spares, Live

(* A command changes nothing of another user's, and what it does to another *)
(* user's theme disturbs that user.                                        *)
LEMMA OthersUntouched ==
  ASSUME TypeOK, NEW u \in Users, Sound(u), Act(u)
  PROVE  Alone(u) /\ Spares(u)
<1> USE DEF TypeOK, Alone, Spares, Live, store, asking, Goto, End, Answered, Unanswered, SendAgain,
   Exists, Put, Roles
<1>1. ASSUME Start(u) PROVE Alone(u) /\ Spares(u)
  BY <1>1 DEF Start
<1>2. ASSUME ListForPush(u) PROVE Alone(u) /\ Spares(u)
  BY <1>2 DEF ListForPush
<1>3. ASSUME ListForConsole(u) PROVE Alone(u) /\ Spares(u)
  BY <1>3 DEF ListForConsole
<1>4. ASSUME Read(u) PROVE Alone(u) /\ Spares(u)
  BY <1>4 DEF Read
<1>5. ASSUME Keys(u) PROVE Alone(u) /\ Spares(u)
  BY <1>5 DEF Keys, Downloaded, Differing
<1>6. ASSUME CommitFiles(u) PROVE Alone(u) /\ Spares(u)
  BY <1>6 DEF CommitFiles
<1>7. ASSUME ReadingFails(u) PROVE Alone(u) /\ Spares(u)
  BY <1>7 DEF ReadingFails
<1>8. ASSUME Stop(u) PROVE Alone(u) /\ Spares(u)
  BY <1>8 DEF Stop
<1>9. ASSUME NEW k \in Paths, Asset(u, k) PROVE Alone(u) /\ Spares(u)
  BY <1>9 DEF Asset, Downloaded, Differing
<1>10. ASSUME NEW t \in Themes, Create(u, t) PROVE Alone(u) /\ Spares(u)
  BY <1>10 DEF Create
<1>11. ASSUME NEW t \in Themes, Duplicate(u, t) PROVE Alone(u) /\ Spares(u)
  BY <1>11 DEF Duplicate
<1>12. ASSUME Publish(u) PROVE Alone(u) /\ Spares(u)
  BY <1>12 DEF Publish
<1>13. ASSUME Delete(u) PROVE Alone(u) /\ Spares(u)
  <2>1. Alone(u)
    BY <1>13 DEF Delete
  <2>2. Spares(u)
    BY <1>13, DeletionDisturbs DEF Delete
  <2>3. QED
    BY <2>1, <2>2
<1>14. ASSUME ChangeFails(u) PROVE Alone(u) /\ Spares(u)
  BY <1>14 DEF ChangeFails
<1>15. ASSUME Cleanup(u) PROVE Alone(u) /\ Spares(u)
  <2>1. Alone(u)
    BY <1>15 DEF Cleanup
  <2>2. ASSUME UNCHANGED <<store, disturbed>> PROVE Spares(u)
    BY <1>15, <2>2 DEF Cleanup
  <2>3. ASSUME Put(target[u], "deleted", Nothing), Disturb(u, target[u]) PROVE Spares(u)
    BY <2>3, DeletionDisturbs
  <2>4. QED
    BY <1>15, <2>1, <2>2, <2>3 DEF Cleanup
<1>16. ASSUME NEW k \in Paths, PushFails(u, k) PROVE Alone(u) /\ Spares(u)
  BY <1>16 DEF PushFails, Due, Pushed
<1>17. ASSUME NEW k \in Paths, SkipDeletion(u, k) PROVE Alone(u) /\ Spares(u)
  BY <1>17 DEF SkipDeletion, Due
<1>18. ASSUME NEW k \in Paths, NEW ok \in BOOLEAN, Push(u, k, ok) PROVE Alone(u) /\ Spares(u)
  <2>1. Alone(u)
    BY <1>18 DEF Push, Pushed
  <2>2. UNCHANGED role /\ \A t \in Themes : t # target[u] => files'[t] = files[t]
    BY <1>18 DEF Push
  <2>3. \A v \in Users \ {u} : ~disturbed'[v] => ~disturbed[v] /\ target[v] # target[u]
    BY <1>18 DEF Push, Disturb
  <2>4. Spares(u)
    BY <2>2, <2>3
  <2>5. QED
    BY <2>1, <2>4
<1>19. ASSUME StopPushing(u) PROVE Alone(u) /\ Spares(u)
  BY <1>19 DEF StopPushing
<1>20. ASSUME PushEnds(u) PROVE Alone(u) /\ Spares(u)
  BY <1>20 DEF PushEnds, NextEnvironment
<1>21. ASSUME Cancel(u) PROVE Alone(u) /\ Spares(u)
  BY <1>21 DEF Cancel
<1>22. QED
  BY <1>1, <1>2, <1>3, <1>4, <1>5, <1>6, <1>7, <1>8, <1>9, <1>10, <1>11, <1>12, <1>13, <1>14, <1>15,
     <1>16, <1>17, <1>18, <1>19, <1>20, <1>21 DEF Act, Downloading, Making, Uploading

(* So what holds of the other users goes on holding.                       *)
LEMMA OthersStand ==
  ASSUME TypeOK, NEW u \in Users, NEW v \in Users \ {u}, Alone(u), Spares(u), Sound(v), ~disturbed[v] => True(v)
  PROVE  Sound(v)' /\ (~disturbed'[v] => True(v)')
<1>1. /\ cmd'[v] = cmd[v] /\ target'[v] = target[v] /\ deleting'[v] = deleting[v] /\ local'[v] = local[v]
      /\ pc'[v] = pc[v] /\ todo'[v] = todo[v] /\ got'[v] = got[v] /\ failed'[v] = failed[v]
      /\ result'[v] = result[v] /\ made'[v] = made[v] /\ asked'[v] = asked[v]
      /\ left'[v] = left[v] /\ shared'[v] = shared[v]
  BY DEF Alone
<1>2. Sound(v)'
  <2>1. \A t \in made'[v] : role'[t] # "none"
    BY <1>1 DEF Spares, Sound, TypeOK
  <2>2. Live(v) => Live(v)'
    BY <1>1 DEF Spares, Live
  <2>3. Route(v)'
    BY <1>1 DEF Sound, Route
  <2>4. QED
    BY <1>1, <2>1, <2>2, <2>3 DEF Sound, Live
<1>3. ASSUME ~disturbed'[v] PROVE True(v)'
  <2>1. CASE Live(v)
    <3>1. ~disturbed[v] /\ files'[target[v]] = files[target[v]]
      BY <1>3, <2>1 DEF Spares
    <3>2. QED
      BY <1>1, <3>1 DEF True, Wanted
  <2>2. CASE ~Live(v)
    BY <1>1, <2>2 DEF Sound, True
  <2>3. QED
    BY <2>1, <2>2
<1>4. QED
  BY <1>2, <1>3

(* A command keeps to its route: its own part of the invariant is kept.    *)
LEMMA OwnSound ==
  ASSUME TypeOK, NEW u \in Users, Sound(u), Act(u)
  PROVE  Sound(u)'
<1> USE ThemesAssumption DEF TypeOK, Sound, Live, Route, Unmade, store, asking, Goto, End, Answered,
   Unanswered, SendAgain, Retryable, Exists, Put, Roles, Reading, Changing, Commands
<1>1. ASSUME Start(u) PROVE Sound(u)'
  BY <1>1 DEF Start
<1>2. ASSUME ListForPush(u) PROVE Sound(u)'
  BY <1>2 DEF ListForPush
<1>3. ASSUME ListForConsole(u) PROVE Sound(u)'
  BY <1>3 DEF ListForConsole
<1>4. ASSUME Read(u) PROVE Sound(u)'
  BY <1>4 DEF Read
<1>5. ASSUME Keys(u) PROVE Sound(u)'
  BY <1>5 DEF Keys, Downloaded, Differing
<1>6. ASSUME CommitFiles(u) PROVE Sound(u)'
  BY <1>6 DEF CommitFiles
<1>7. ASSUME ReadingFails(u) PROVE Sound(u)'
  BY <1>7 DEF ReadingFails
<1>8. ASSUME Stop(u) PROVE Sound(u)'
  BY <1>8 DEF Stop
<1>9. ASSUME NEW k \in Paths, Asset(u, k) PROVE Sound(u)'
  BY <1>9 DEF Asset, Downloaded, Differing
<1>10. ASSUME NEW t \in Themes, Create(u, t) PROVE Sound(u)'
  BY <1>10 DEF Create
<1>11. ASSUME NEW t \in Themes, Duplicate(u, t) PROVE Sound(u)'
  BY <1>11 DEF Duplicate
<1>12. ASSUME Publish(u) PROVE Sound(u)'
  BY <1>12 DEF Publish
<1>13. ASSUME Delete(u) PROVE Sound(u)'
  BY <1>13 DEF Delete, Disturb
<1>14. ASSUME ChangeFails(u) PROVE Sound(u)'
  BY <1>14 DEF ChangeFails
<1>15. ASSUME Cleanup(u) PROVE Sound(u)'
  BY <1>15 DEF Cleanup, Disturb
<1>16. ASSUME NEW k \in Paths, PushFails(u, k) PROVE Sound(u)'
  BY <1>16 DEF PushFails, Due, Pushed
<1>17. ASSUME NEW k \in Paths, SkipDeletion(u, k) PROVE Sound(u)'
  BY <1>17 DEF SkipDeletion, Due
<1>18. ASSUME NEW k \in Paths, NEW ok \in BOOLEAN, Push(u, k, ok) PROVE Sound(u)'
  BY <1>18 DEF Push, Due, Pushed, Disturb
<1>19. ASSUME StopPushing(u) PROVE Sound(u)'
  BY <1>19 DEF StopPushing
<1>20. ASSUME PushEnds(u) PROVE Sound(u)'
  <2>1. pc[u] = "push" /\ UNCHANGED <<role, cmd, made, asked>> /\ asked[u] = {} /\ Live(u)
    BY <1>20 DEF PushEnds
  <2>2. CASE cmd[u] # "share"
    <3>1. UNCHANGED <<target, left, shared>> /\ (End(u, "ok") \/ End(u, "error"))
      BY <1>20, <2>2 DEF PushEnds
    <3>2. QED
      BY <2>1, <2>2, <3>1
  <2>3. CASE cmd[u] = "share" /\ failed[u]
    <3>1. UNCHANGED <<target, left, shared>> /\ Goto(u, "cleanup")
      BY <1>20, <2>3 DEF PushEnds
    <3>2. QED
      BY <2>1, <2>3, <3>1
  <2>4. CASE cmd[u] = "share" /\ ~failed[u]
    <3>1. NextEnvironment(u)
      BY <1>20, <2>4 DEF PushEnds
    <3>2. target[u] \in made[u] \ shared[u] /\ \A t \in made[u] \ shared[u] : t = target[u]
      BY <2>1, <2>4
    <3>3. shared'[u] = shared[u] \union {target[u]}
      BY <3>1 DEF NextEnvironment
    <3>4. shared'[u] = made[u]
      BY <3>2, <3>3
    <3>5. CASE left[u] = 0 /\ End(u, "ok") /\ UNCHANGED <<target, left>>
      BY <2>1, <2>4, <3>4, <3>5
    <3>6. CASE /\ left[u] > 0 /\ Goto(u, "read")
               /\ target' = [target EXCEPT ![u] = NoTheme]
      <4>1. target'[u] = NoTheme /\ pc'[u] = "read" /\ result'[u] = "none"
        BY <2>1, <3>6
      <4>2. NoTheme \notin made[u]
        BY ThemesAssumption
      <4>3. QED
        BY <2>1, <2>4, <3>4, <4>1, <4>2
    <3>7. QED
      BY <3>1, <3>5, <3>6 DEF NextEnvironment
  <2>5. QED
    BY <2>2, <2>3, <2>4
<1>21. ASSUME Cancel(u) PROVE Sound(u)'
  BY <1>21 DEF Cancel
<1>22. QED
  BY <1>1, <1>2, <1>3, <1>4, <1>5, <1>6, <1>7, <1>8, <1>9, <1>10, <1>11, <1>12, <1>13, <1>14, <1>15,
     <1>16, <1>17, <1>18, <1>19, <1>20, <1>21 DEF Act, Downloading, Making, Uploading

(* What a command has transferred is still what is in its theme, as long   *)
(* as nobody disturbs it.                                                  *)
LEMMA OwnTrue ==
  ASSUME TypeOK, NEW u \in Users, Sound(u), Act(u), ~disturbed[u] => True(u), ~disturbed'[u]
  PROVE  True(u)'
<1> USE DEF TypeOK, Sound, True, Live, Route, Wanted, store, asking, Goto, End, Answered,
   Unanswered, SendAgain, Retryable, Exists, Put, Nothing, Reading
<1>1. ASSUME Start(u) PROVE True(u)'
  BY <1>1 DEF Start
<1>2. ASSUME ListForPush(u) PROVE True(u)'
  BY <1>2 DEF ListForPush
<1>3. ASSUME ListForConsole(u) PROVE True(u)'
  BY <1>3 DEF ListForConsole
<1>4. ASSUME Read(u) PROVE True(u)'
  BY <1>4 DEF Read
<1>5. ASSUME Keys(u) PROVE True(u)'
  BY <1>5 DEF Keys, Downloaded, Differing
<1>6. ASSUME CommitFiles(u) PROVE True(u)'
  BY <1>6 DEF CommitFiles
<1>7. ASSUME ReadingFails(u) PROVE True(u)'
  BY <1>7 DEF ReadingFails
<1>8. ASSUME Stop(u) PROVE True(u)'
  BY <1>8 DEF Stop
<1>9. ASSUME NEW k \in Paths, Asset(u, k) PROVE True(u)'
  <2>1. pc[u] = "asset" /\ \A p \in Paths \ todo[u] : got[u][p] = files[target[u]][p]
    BY <1>9 DEF Asset
  <2>2. files' = files /\ target' = target /\ local' = local /\ cmd' = cmd /\ deleting' = deleting
    BY <1>9 DEF Asset
  <2>3. \A p \in Paths : got'[u][p] = IF p = k THEN files[target[u]][k] ELSE got[u][p]
    BY <1>9 DEF Asset
  <2>4. CASE todo[u] = {k}
    <3>1. \A p \in Paths : got'[u][p] = files[target[u]][p]
      BY <2>1, <2>3, <2>4
    <3>2. QED
      BY <1>9, <2>2, <2>4, <3>1 DEF Asset, Downloaded, Differing
  <2>5. CASE todo[u] # {k}
    <3>1. pc'[u] = "asset" /\ todo'[u] = todo[u] \ {k}
      BY <1>9, <2>5 DEF Asset
    <3>2. QED
      BY <2>1, <2>2, <2>3, <3>1
  <2>6. QED
    BY <2>4, <2>5
<1>10. ASSUME NEW t \in Themes, Create(u, t) PROVE True(u)'
  BY <1>10 DEF Create
<1>11. ASSUME NEW t \in Themes, Duplicate(u, t) PROVE True(u)'
  BY <1>11 DEF Duplicate
<1>12. ASSUME Publish(u) PROVE True(u)'
  BY <1>12 DEF Publish
<1>13. ASSUME Delete(u) PROVE True(u)'
  BY <1>13 DEF Delete, Disturb
<1>14. ASSUME ChangeFails(u) PROVE True(u)'
  BY <1>14 DEF ChangeFails
<1>15. ASSUME Cleanup(u) PROVE True(u)'
  BY <1>15 DEF Cleanup, Disturb
<1>16. ASSUME NEW k \in Paths, PushFails(u, k) PROVE True(u)'
  <2>1. pc' = pc /\ pc[u] = "push" /\ ~disturbed[u] /\ UNCHANGED <<files, target, local, cmd, deleting>>
    BY <1>16 DEF PushFails, Due, Pushed
  <2>2. \/ failed'[u]
        \/ UNCHANGED <<todo, failed>>
    BY <1>16 DEF PushFails, Pushed
  <2>3. QED
    BY <2>1, <2>2
<1>17. ASSUME NEW k \in Paths, SkipDeletion(u, k) PROVE True(u)'
  <2>1. /\ pc[u] = "push" /\ pc' = pc /\ Wanted(u, k) = 0 /\ ~deleting[u]
        /\ todo'[u] = todo[u] \ {k} /\ ~disturbed[u]
        /\ UNCHANGED <<files, target, local, cmd, deleting, failed>>
    BY <1>17 DEF SkipDeletion, Due, Uploads
  <2>2. QED
    BY <2>1
<1>18. ASSUME NEW k \in Paths, NEW ok \in BOOLEAN, Push(u, k, ok) PROVE True(u)'
  BY <1>18 DEF Push, Due, Pushed, Disturb
<1>19. ASSUME StopPushing(u) PROVE True(u)'
  BY <1>19 DEF StopPushing
<1>20. ASSUME PushEnds(u) PROVE True(u)'
  BY <1>20 DEF PushEnds, NextEnvironment
<1>21. ASSUME Cancel(u) PROVE True(u)'
  BY <1>21 DEF Cancel
<1>22. QED
  BY <1>1, <1>2, <1>3, <1>4, <1>5, <1>6, <1>7, <1>8, <1>9, <1>10, <1>11, <1>12, <1>13, <1>14, <1>15,
     <1>16, <1>17, <1>18, <1>19, <1>20, <1>21 DEF Act, Downloading, Making, Uploading

(* What a step does to where the command is, and to its attempts.          *)
Moves(u) ==
  \/ UNCHANGED <<pc, result>>
  \/ End(u, "ok") \/ End(u, "error")
  \/ \E s \in {"start", "read", "commit"} \union Reading \union Changing : Goto(u, s)
Counts(u) ==
  \/ UNCHANGED tries
  \/ Answered(u)
  \/ tries[u] < MaxRetries /\ tries' = [tries EXCEPT ![u] = @ + 1]

(* The types of the rest.                                                  *)
Data ==
  /\ role \in [Themes -> Roles \union {"none", "deleted"}]
  /\ files \in [Themes -> [Paths -> Contents]]
  /\ local \in [Users -> [Paths -> Contents]]
  /\ cmd \in [Users -> Commands]
  /\ target \in [Users -> Themes \union {NoTheme}]
  /\ deleting \in [Users -> BOOLEAN]
  /\ left \in [Users -> 0..MaxEnvironments - 1]
  /\ shared \in [Users -> SUBSET Themes]
  /\ todo \in [Users -> SUBSET Paths]
  /\ got \in [Users -> [Paths -> Contents]]
  /\ failed \in [Users -> BOOLEAN]
  /\ cancelled \in [Users -> BOOLEAN]
  /\ made \in [Users -> SUBSET Themes]
  /\ asked \in [Users -> SUBSET Themes]
  /\ disturbed \in [Users -> BOOLEAN]

(* A command that ends has ended; an attempt is one of those it may make.  *)
LEMMA MoveTypes ==
  ASSUME TypeOK, NEW u \in Users, pc[u] # "done" \/ UNCHANGED <<pc, result>>,
         Moves(u), Counts(u), Data'
  PROVE  TypeOK'
<1>1. pc' \in [Users -> {"start", "read", "commit", "done"} \union Reading \union Changing]
  BY DEF TypeOK, Moves, End, Goto, Reading, Changing
<1>2. result' \in [Users -> {"none", "ok", "error"}]
  BY DEF TypeOK, Moves, End, Goto
<1>3. \A v \in Users : result'[v] = "none" <=> pc'[v] # "done"
  <2>1. TAKE v \in Users
  <2>2. CASE v # u \/ UNCHANGED <<pc, result>>
    <3>1. pc'[v] = pc[v] /\ result'[v] = result[v]
      BY <2>2 DEF TypeOK, Moves, End, Goto
    <3>2. QED
      BY <3>1 DEF TypeOK
  <2>3. CASE v = u /\ (End(u, "ok") \/ End(u, "error"))
    BY <2>3 DEF TypeOK, End
  <2>4. CASE v = u /\ \E s \in {"start", "read", "commit"} \union Reading \union Changing : Goto(u, s)
    BY <2>4 DEF TypeOK, Goto, Reading, Changing
  <2>5. QED
    BY <2>2, <2>3, <2>4 DEF Moves
<1>4. tries' \in [Users -> 0..MaxRetries]
  <2>1. tries \in [Users -> 0..MaxRetries] /\ 0 \in 0..MaxRetries
    BY RetryAssumption DEF TypeOK
  <2>2. tries[u] < MaxRetries => tries[u] + 1 \in 0..MaxRetries
    BY <2>1, RetryAssumption
  <2>3. QED
    BY <2>1, <2>2 DEF Counts, Answered
<1>5. QED
  BY <1>1, <1>2, <1>3, <1>4 DEF TypeOK, Data

(* Every step of a command keeps the types: it moves, it counts attempts,   *)
(* and what it writes is of the right kind.                                *)
LEMMA TypesAreKept ==
  ASSUME TypeOK, NEW u \in Users, Act(u), Sound(u)
  PROVE  TypeOK'
<1>a. pc[u] \in {"keys", "asset", "push", "act", "cleanup"} => target[u] \in Themes
  BY DEF Sound, Live
<1>b. Data
  BY DEF TypeOK, Data
<1>1. ASSUME Start(u) PROVE Moves(u) /\ Counts(u) /\ Data'
  <2>1. Moves(u)
    BY <1>1 DEF TypeOK, Moves, Reading, Changing, Start
  <2>2. Counts(u)
    BY <1>1 DEF Counts, Start
  <2>3. Data'
    BY <1>a, <1>b, <1>1 DEF Data, store, asking, Start, Goto
  <2>4. QED
    BY <2>1, <2>2, <2>3
<1>2. ASSUME ListForPush(u) PROVE Moves(u) /\ Counts(u) /\ Data'
  <2>1. Moves(u)
    BY <1>2 DEF TypeOK, Moves, Reading, Changing, ListForPush
  <2>2. Counts(u)
    BY <1>2 DEF Counts, Answered, ListForPush
  <2>3. Data'
    BY <1>a, <1>b, <1>2 DEF Data, store, asking, ListForPush, Answered, Goto, End
  <2>4. QED
    BY <2>1, <2>2, <2>3
<1>3. ASSUME ListForConsole(u) PROVE Moves(u) /\ Counts(u) /\ Data'
  <2>1. Moves(u)
    BY <1>3 DEF TypeOK, Moves, Reading, Changing, ListForConsole
  <2>2. Counts(u)
    BY <1>3 DEF Counts, Answered, ListForConsole
  <2>3. Data'
    <3>1. UNCHANGED <<store, local, cmd, deleting, left, shared, got, failed, cancelled, made, asked>>
      BY <1>3 DEF ListForConsole
    <3>2. target' = target \/ \E t \in Themes : target' = [target EXCEPT ![u] = t]
      BY <1>3 DEF ListForConsole
    <3>3. todo' = todo \/ todo' = [todo EXCEPT ![u] = Paths]
      BY <1>3 DEF ListForConsole
    <3>4. disturbed' = [disturbed EXCEPT ![u] = FALSE]
      BY <1>3 DEF ListForConsole
    <3>5. target' \in [Users -> Themes \union {NoTheme}]
      BY <1>b, <3>2 DEF Data
    <3>6. todo' \in [Users -> SUBSET Paths]
      BY <1>b, <3>3 DEF Data
    <3>7. disturbed' \in [Users -> BOOLEAN]
      BY <1>b, <3>4 DEF Data
    <3>8. QED
      BY <1>b, <3>1, <3>5, <3>6, <3>7 DEF Data, store
  <2>4. QED
    BY <2>1, <2>2, <2>3
<1>4. ASSUME Read(u) PROVE Moves(u) /\ Counts(u) /\ Data'
  <2>1. Moves(u)
    BY <1>4 DEF TypeOK, Moves, Reading, Changing, Read
  <2>2. Counts(u)
    BY <1>4 DEF Counts, Read
  <2>3. Data'
    <3>1. UNCHANGED <<store, asking, todo, got, failed, cancelled, made, asked, disturbed>>
      BY <1>4 DEF Read
    <3>2. local' = local \/ \E d \in Directories : local' = [local EXCEPT ![u] = d]
      BY <1>4 DEF Read
    <3>3. Directories \subseteq [Paths -> Contents]
      BY DEF Directories, Contents
    <3>4. local' \in [Users -> [Paths -> Contents]]
      BY <1>b, <3>2, <3>3 DEF Data
    <3>5. QED
      BY <1>b, <3>1, <3>4 DEF Data, store, asking
  <2>4. QED
    BY <2>1, <2>2, <2>3
<1>5. ASSUME Keys(u) PROVE Moves(u) /\ Counts(u) /\ Data'
  <2>1. Moves(u)
    BY <1>5 DEF TypeOK, Moves, Reading, Changing, Downloaded, Keys
  <2>2. Counts(u)
    BY <1>5 DEF Counts, Answered, Downloaded, Keys
  <2>3. Data'
    <3>1. UNCHANGED <<role, files, local, asking, failed, cancelled, made, asked, disturbed>>
      BY <1>5 DEF Keys, store, asking
    <3>2. got' \in [Users -> [Paths -> Contents]]
      BY <1>b, <1>5 DEF Keys, Data, Nothing, Contents
    <3>3. todo' \in [Users -> SUBSET Paths]
      <4>1. \E S \in SUBSET Paths : todo' = [todo EXCEPT ![u] = S]
        BY <1>5 DEF Keys, Downloaded, Differing
      <4>2. QED
        BY <1>b, <4>1 DEF Data
    <3>4. QED
      BY <1>b, <3>1, <3>2, <3>3 DEF Data, asking
  <2>4. QED
    BY <2>1, <2>2, <2>3
<1>6. ASSUME CommitFiles(u) PROVE Moves(u) /\ Counts(u) /\ Data'
  <2>1. Moves(u)
    BY <1>6 DEF TypeOK, Moves, Reading, Changing, CommitFiles
  <2>2. Counts(u)
    BY <1>6 DEF Counts, CommitFiles
  <2>3. Data'
    <3>1. UNCHANGED <<role, files, asking, todo, got, failed, cancelled, made, asked, disturbed>>
      BY <1>6 DEF CommitFiles, store, asking
    <3>2. local' \in [Users -> [Paths -> Contents]]
      <4>1. DEFINE pulled == [k \in Paths |-> IF got[u][k] # 0 THEN got[u][k] ELSE local[u][k]]
      <4>2. got[u] \in [Paths -> Contents] /\ local[u] \in [Paths -> Contents]
        BY <1>b DEF Data
      <4>3. pulled \in [Paths -> Contents]
        BY <4>2
      <4>4. local' = local \/ local' = [local EXCEPT ![u] = pulled]
        BY <1>6 DEF CommitFiles
      <4> HIDE DEF pulled
      <4>5. QED
        BY <1>b, <4>3, <4>4 DEF Data
    <3>3. QED
      BY <1>b, <3>1, <3>2 DEF Data, asking
  <2>4. QED
    BY <2>1, <2>2, <2>3
<1>7. ASSUME ReadingFails(u) PROVE Moves(u) /\ Counts(u) /\ Data'
  <2>1. Moves(u)
    BY <1>7 DEF TypeOK, Moves, Reading, Changing, Unanswered, SendAgain, ReadingFails
  <2>2. Counts(u)
    BY <1>7 DEF Counts, Unanswered, SendAgain, Answered, ReadingFails
  <2>3. Data'
    BY <1>a, <1>b, <1>7 DEF Data, store, asking, ReadingFails, Unanswered, SendAgain, Answered, End
  <2>4. QED
    BY <2>1, <2>2, <2>3
<1>8. ASSUME Stop(u) PROVE Moves(u) /\ Counts(u) /\ Data'
  <2>1. Moves(u)
    BY <1>8 DEF TypeOK, Moves, Reading, Changing, Stop
  <2>2. Counts(u)
    BY <1>8 DEF Counts, Stop
  <2>3. Data'
    BY <1>a, <1>b, <1>8 DEF Data, store, asking, Stop, End
  <2>4. QED
    BY <2>1, <2>2, <2>3
<1>9. ASSUME NEW k \in Paths, Asset(u, k) PROVE Moves(u) /\ Counts(u) /\ Data'
  <2>1. Moves(u)
    BY <1>9 DEF TypeOK, Moves, Reading, Changing, Downloaded, Asset
  <2>2. Counts(u)
    BY <1>9 DEF Counts, Answered, Downloaded, Asset
  <2>3. Data'
    <3>1. UNCHANGED <<role, files, local, asking, failed, cancelled, made, asked, disturbed>>
      BY <1>9 DEF Asset, store, asking
    <3>2. got' \in [Users -> [Paths -> Contents]]
      <4>1. files[target[u]][k] \in Contents /\ got' = [got EXCEPT ![u] = [@ EXCEPT ![k] = files[target[u]][k]]]
        BY <1>a, <1>b, <1>9 DEF Asset, Data
      <4>2. QED
        BY <1>b, <4>1 DEF Data
    <3>3. todo' \in [Users -> SUBSET Paths]
      <4>1. todo[u] \ {k} \in SUBSET Paths
        BY <1>b DEF Data
      <4>2. \E S \in SUBSET Paths : todo' = [todo EXCEPT ![u] = S]
        BY <1>9, <4>1 DEF Asset, Downloaded, Differing
      <4>3. QED
        BY <1>b, <4>2 DEF Data
    <3>4. QED
      BY <1>b, <3>1, <3>2, <3>3 DEF Data, asking
  <2>4. QED
    BY <2>1, <2>2, <2>3
<1>10. ASSUME NEW t \in Themes, Create(u, t) PROVE Moves(u) /\ Counts(u) /\ Data'
  <2>1. Moves(u)
    BY <1>10 DEF TypeOK, Moves, Reading, Changing, Unanswered, SendAgain, Create
  <2>2. Counts(u)
    BY <1>10 DEF Counts, Unanswered, SendAgain, Answered, Create
  <2>3. Data'
    <3>1. UNCHANGED <<local, cmd, deleting, left, shared, got, failed, cancelled, asked>>
      BY <1>10 DEF Create
    <3>2. role' \in [Themes -> Roles \union {"none", "deleted"}] /\ files' \in [Themes -> [Paths -> Contents]]
      BY <1>b, <1>10 DEF Create, Put, Data, Nothing, Contents, Roles
    <3>3. made' \in [Users -> SUBSET Themes]
      BY <1>b, <1>10 DEF Create, Data
    <3>4. target' \in [Users -> Themes \union {NoTheme}]
      <4>1. target' = target \/ target' = [target EXCEPT ![u] = t]
        BY <1>10 DEF Create
      <4>2. QED
        BY <1>b, <4>1 DEF Data
    <3>5. todo' \in [Users -> SUBSET Paths]
      <4>1. todo' = todo \/ \E S \in SUBSET Paths : todo' = [todo EXCEPT ![u] = S]
        BY <1>10 DEF Create
      <4>2. QED
        BY <1>b, <4>1 DEF Data
    <3>6. disturbed' \in [Users -> BOOLEAN]
      <4>1. disturbed' = disturbed \/ disturbed' = [disturbed EXCEPT ![u] = FALSE]
        BY <1>10 DEF Create
      <4>2. QED
        BY <1>b, <4>1 DEF Data
    <3>7. QED
      BY <1>b, <3>1, <3>2, <3>3, <3>4, <3>5, <3>6 DEF Data
  <2>4. QED
    BY <2>1, <2>2, <2>3
<1>11. ASSUME NEW t \in Themes, Duplicate(u, t) PROVE Moves(u) /\ Counts(u) /\ Data'
  <2>1. Moves(u)
    BY <1>11 DEF TypeOK, Moves, Reading, Changing, Unanswered, SendAgain, Duplicate
  <2>2. Counts(u)
    BY <1>11 DEF Counts, Unanswered, SendAgain, Answered, Duplicate
  <2>3. Data'
    BY <1>a, <1>b, <1>11 DEF Data, asking, Put, Roles, Duplicate, Answered, Unanswered, SendAgain,
       End
  <2>4. QED
    BY <2>1, <2>2, <2>3
<1>12. ASSUME Publish(u) PROVE Moves(u) /\ Counts(u) /\ Data'
  <2>1. Moves(u)
    BY <1>12 DEF TypeOK, Moves, Reading, Changing, Unanswered, SendAgain, Publish
  <2>2. Counts(u)
    BY <1>12 DEF Counts, Unanswered, SendAgain, Answered, Publish
  <2>3. Data'
    BY <1>a, <1>b, <1>12 DEF Data, asking, Roles, Publish, Answered, Unanswered, SendAgain, End
  <2>4. QED
    BY <2>1, <2>2, <2>3
<1>13. ASSUME Delete(u) PROVE Moves(u) /\ Counts(u) /\ Data'
  <2>1. Moves(u)
    BY <1>13 DEF TypeOK, Moves, Reading, Changing, Unanswered, SendAgain, Delete
  <2>2. Counts(u)
    BY <1>13 DEF Counts, Unanswered, SendAgain, Answered, Delete
  <2>3. Data'
    BY <1>a, <1>b, <1>13 DEF Data, asking, Contents, Nothing, Put, Disturb, Roles, Delete, Answered,
       Unanswered, SendAgain, End
  <2>4. QED
    BY <2>1, <2>2, <2>3
<1>14. ASSUME ChangeFails(u) PROVE Moves(u) /\ Counts(u) /\ Data'
  <2>1. Moves(u)
    BY <1>14 DEF TypeOK, Moves, Reading, Changing, Unanswered, SendAgain, ChangeFails
  <2>2. Counts(u)
    BY <1>14 DEF Counts, Unanswered, SendAgain, Answered, ChangeFails
  <2>3. Data'
    BY <1>a, <1>b, <1>14 DEF Data, store, asking, ChangeFails, Answered, Unanswered, SendAgain, End
  <2>4. QED
    BY <2>1, <2>2, <2>3
<1>15. ASSUME Cleanup(u) PROVE Moves(u) /\ Counts(u) /\ Data'
  <2>1. Moves(u)
    BY <1>15 DEF TypeOK, Moves, Reading, Changing, Cleanup
  <2>2. Counts(u)
    BY <1>15 DEF Counts, Cleanup
  <2>3. Data'
    <3>1. UNCHANGED <<local, asking, todo, got, failed, cancelled, made>>
      BY <1>15 DEF Cleanup, asking
    <3>2. role' \in [Themes -> Roles \union {"none", "deleted"}] /\ files' \in [Themes -> [Paths -> Contents]]
      <4>1. CASE UNCHANGED <<role, files>>
        BY <1>b, <4>1 DEF Data
      <4>2. CASE Put(target[u], "deleted", Nothing)
        <5>1. target[u] \in Themes /\ Nothing \in [Paths -> Contents]
          BY <1>a, <1>15 DEF Cleanup, Nothing, Contents
        <5>2. role' = [role EXCEPT ![target[u]] = "deleted"] /\ files' = [files EXCEPT ![target[u]] = Nothing]
          BY <4>2 DEF Put
        <5>3. QED
          BY <1>b, <5>1, <5>2 DEF Data
      <4>3. QED
        BY <1>15, <4>1, <4>2 DEF Cleanup, store
    <3>3. asked' \in [Users -> SUBSET Themes] /\ disturbed' \in [Users -> BOOLEAN]
      BY <1>a, <1>b, <1>15 DEF Cleanup, Disturb, Data
    <3>4. QED
      BY <1>b, <3>1, <3>2, <3>3 DEF Data, asking
  <2>4. QED
    BY <2>1, <2>2, <2>3
<1>16. ASSUME NEW k \in Paths, PushFails(u, k) PROVE Moves(u) /\ Counts(u) /\ Data'
  <2>1. Moves(u)
    BY <1>16 DEF TypeOK, Moves, Reading, Changing, SendAgain, Pushed, PushFails
  <2>2. Counts(u)
    BY <1>16 DEF Counts, Answered, SendAgain, Pushed, PushFails
  <2>3. Data'
    <3>1. UNCHANGED <<role, files, local, asking, got, cancelled, made, asked, disturbed>>
      BY <1>16 DEF PushFails, store, asking
    <3>2. todo' \in [Users -> SUBSET Paths] /\ failed' \in [Users -> BOOLEAN]
      <4>1. todo' = todo \/ todo' = [todo EXCEPT ![u] = todo[u] \ {k}]
        BY <1>16 DEF PushFails, Pushed
      <4>2. failed' = failed \/ \E b \in BOOLEAN : failed' = [failed EXCEPT ![u] = b]
        BY <1>b, <1>16 DEF PushFails, Pushed, Data
      <4>3. todo \in [Users -> SUBSET Paths] /\ failed \in [Users -> BOOLEAN]
        BY <1>b DEF Data
      <4>4. todo[u] \ {k} \in SUBSET Paths
        BY <4>3
      <4>5. todo' \in [Users -> SUBSET Paths]
        BY <4>1, <4>3, <4>4
      <4>6. failed' \in [Users -> BOOLEAN]
        BY <4>2, <4>3
      <4>7. QED
        BY <4>5, <4>6
    <3>3. QED
      BY <1>b, <3>1, <3>2 DEF Data, asking
  <2>4. QED
    BY <2>1, <2>2, <2>3
<1>17. ASSUME NEW k \in Paths, SkipDeletion(u, k) PROVE Moves(u) /\ Counts(u) /\ Data'
  <2>1. Moves(u)
    BY <1>17 DEF TypeOK, Moves, Reading, Changing, SkipDeletion
  <2>2. Counts(u)
    BY <1>17 DEF Counts, SkipDeletion
  <2>3. Data'
    BY <1>a, <1>b, <1>17 DEF Data, store, asking, SkipDeletion
  <2>4. QED
    BY <2>1, <2>2, <2>3
<1>18. ASSUME NEW k \in Paths, NEW ok \in BOOLEAN, Push(u, k, ok) PROVE Moves(u) /\ Counts(u) /\ Data'
  <2>1. Moves(u)
    BY <1>18 DEF TypeOK, Moves, Reading, Changing, SendAgain, Pushed, Push
  <2>2. Counts(u)
    BY <1>18 DEF Counts, Answered, SendAgain, Pushed, Push
  <2>3. Data'
    <3>1. UNCHANGED <<role, local, asking, got, cancelled, made, asked>>
      BY <1>18 DEF Push, asking
    <3>2. todo' \in [Users -> SUBSET Paths] /\ failed' \in [Users -> BOOLEAN]
      <4>1. todo' = todo \/ todo' = [todo EXCEPT ![u] = todo[u] \ {k}]
        BY <1>18 DEF Push, Pushed
      <4>2. failed' = failed \/ \E b \in BOOLEAN : failed' = [failed EXCEPT ![u] = b]
        BY <1>b, <1>18 DEF Push, Pushed, Data
      <4>3. todo \in [Users -> SUBSET Paths] /\ failed \in [Users -> BOOLEAN]
        BY <1>b DEF Data
      <4>4. todo[u] \ {k} \in SUBSET Paths
        BY <4>3
      <4>5. todo' \in [Users -> SUBSET Paths]
        BY <4>1, <4>3, <4>4
      <4>6. failed' \in [Users -> BOOLEAN]
        BY <4>2, <4>3
      <4>7. QED
        BY <4>5, <4>6
    <3>3. disturbed' \in [Users -> BOOLEAN]
      BY <1>b, <1>18 DEF Push, Disturb, Data
    <3>4. files' \in [Themes -> [Paths -> Contents]]
      <4>1. Wanted(u, k) \in Contents /\ target[u] \in Themes
        BY <1>a, <1>b, <1>18 DEF Push, Due, Wanted, Data, Contents
      <4>2. files' = [files EXCEPT ![target[u]] = [@ EXCEPT ![k] = Wanted(u, k)]]
        BY <1>18 DEF Push
      <4>3. QED
        BY <1>b, <4>1, <4>2 DEF Data
    <3>5. QED
      BY <1>b, <3>1, <3>2, <3>3, <3>4 DEF Data, asking
  <2>4. QED
    BY <2>1, <2>2, <2>3
<1>19. ASSUME StopPushing(u) PROVE Moves(u) /\ Counts(u) /\ Data'
  <2>1. Moves(u)
    BY <1>19 DEF TypeOK, Moves, Reading, Changing, StopPushing
  <2>2. Counts(u)
    BY <1>19 DEF Counts, StopPushing
  <2>3. Data'
    BY <1>a, <1>b, <1>19 DEF Data, store, asking, StopPushing
  <2>4. QED
    BY <2>1, <2>2, <2>3
<1>20. ASSUME PushEnds(u) PROVE Moves(u) /\ Counts(u) /\ Data'
  <2>1. Moves(u)
    BY <1>20 DEF TypeOK, Moves, Reading, Changing, PushEnds, NextEnvironment
  <2>2. Counts(u)
    BY <1>20 DEF Counts, PushEnds
  <2>3. Data'
    <3>1. UNCHANGED <<store, local, cmd, deleting, todo, got, failed, cancelled, made, asked, disturbed>>
      BY <1>20 DEF PushEnds
    <3>2. \/ UNCHANGED <<target, left, shared>>
          \/ cmd[u] = "share" /\ NextEnvironment(u)
      BY <1>20 DEF PushEnds
    <3>3. target' \in [Users -> Themes \union {NoTheme}]
      BY <1>b, <3>2 DEF Data, NextEnvironment
    <3>4. target[u] \in Themes
      BY <1>a, <1>20 DEF PushEnds
    <3>5. shared' \in [Users -> SUBSET Themes]
      <4>1. shared' = shared \/ shared' = [shared EXCEPT ![u] = shared[u] \union {target[u]}]
        BY <3>2 DEF NextEnvironment
      <4>2. shared \in [Users -> SUBSET Themes] /\ shared[u] \union {target[u]} \in SUBSET Themes
        BY <1>b, <3>4 DEF Data
      <4>3. QED
        BY <4>1, <4>2
    <3>6. left[u] \in 0..MaxEnvironments - 1 /\ (left[u] > 0 => left[u] - 1 \in 0..MaxEnvironments - 1)
      BY <1>b, EnvironmentsAssumption DEF Data
    <3>7. left' = left \/ (left[u] > 0 /\ left' = [left EXCEPT ![u] = left[u] - 1])
      BY <3>2 DEF NextEnvironment
    <3>8. left' \in [Users -> 0..MaxEnvironments - 1]
      BY <1>b, <3>6, <3>7 DEF Data
    <3>9. QED
      BY <1>b, <3>1, <3>3, <3>5, <3>8 DEF Data, store
  <2>4. QED
    BY <2>1, <2>2, <2>3
<1>21. ASSUME Cancel(u) PROVE Moves(u) /\ Counts(u) /\ Data'
  <2>1. Moves(u)
    BY <1>21 DEF TypeOK, Moves, Reading, Changing, Cancel
  <2>2. Counts(u)
    BY <1>21 DEF Counts, Cancel
  <2>3. Data'
    BY <1>a, <1>b, <1>21 DEF Data, store, asking, Cancel
  <2>4. QED
    BY <2>1, <2>2, <2>3
<1>22. Moves(u) /\ Counts(u) /\ Data'
  BY <1>1, <1>2, <1>3, <1>4, <1>5, <1>6, <1>7, <1>8, <1>9, <1>10, <1>11, <1>12, <1>13, <1>14, <1>15,
     <1>16, <1>17, <1>18, <1>19, <1>20, <1>21 DEF Act, Downloading, Making, Uploading
<1>23. pc[u] # "done" \/ UNCHANGED <<pc, result>>
  BY DEF Act, Downloading, Making, Uploading, Start, ListForPush, ListForConsole, Read, Keys,
     CommitFiles, ReadingFails, Stop, Asset, Create, Duplicate, Publish, Delete, ChangeFails,
     Cleanup, PushFails, Due, SkipDeletion, Push, StopPushing, PushEnds, NextEnvironment, Cancel, Reading
<1>24. QED
  BY <1>22, <1>23, MoveTypes
(* The invariant holds at the start, with nothing asked of the store yet.   *)
LEMMA StoreInit == Init => StoreInv
<1> SUFFICES ASSUME Init PROVE StoreInv
  OBVIOUS
<1>1. Nothing \in [Paths -> Contents] /\ [k \in Paths |-> 1] \in [Paths -> Contents]
  BY DEF Nothing, Contents
<1>2. role \in [Themes -> Roles \union {"none", "deleted"}]
  <2>1. role \in [Themes -> {"main", "unpublished", "none"}]
    BY DEF Init
  <2>2. QED
    BY <2>1 DEF Roles
<1>3. files \in [Themes -> [Paths -> Contents]]
  <2>1. files = [t \in Themes |-> IF role[t] = "none" THEN Nothing ELSE [k \in Paths |-> 1]]
    BY DEF Init
  <2>2. QED
    BY <1>1, <2>1
<1>4. local \in [Users -> [Paths -> Contents]] /\ got \in [Users -> [Paths -> Contents]]
  <2>1. local \in [Users -> [Paths -> {0, 2}]] /\ got = [u \in Users |-> Nothing]
    BY DEF Init, Directories
  <2>2. \A f \in [Paths -> {0, 2}] : f \in [Paths -> Contents]
    BY DEF Contents
  <2>3. QED
    BY <1>1, <2>1, <2>2
<1>5. TypeOK
  <2>1. tries \in [Users -> 0..MaxRetries]
    BY RetryAssumption DEF Init
  <2>2. /\ cmd \in [Users -> Commands]
        /\ target \in [Users -> Themes \union {NoTheme}]
        /\ deleting \in [Users -> BOOLEAN]
    BY DEF Init
  <2>3. /\ pc = [u \in Users |-> "start"] /\ result = [u \in Users |-> "none"]
        /\ todo = [u \in Users |-> {}] /\ made = [u \in Users |-> {}]
        /\ failed = [u \in Users |-> FALSE] /\ cancelled = [u \in Users |-> FALSE]
        /\ asked = [u \in Users |-> {}] /\ disturbed = [u \in Users |-> FALSE]
        /\ shared = [u \in Users |-> {}] /\ left \in [Users -> 0..MaxEnvironments - 1]
    BY DEF Init
  <2>4. QED
    BY <1>2, <1>3, <1>4, <2>1, <2>2, <2>3 DEF TypeOK
<1>6. ASSUME NEW u \in Users PROVE Sound(u) /\ True(u)
  <2>1. /\ pc[u] = "start" /\ result[u] = "none" /\ made[u] = {} /\ asked[u] = {} /\ shared[u] = {}
        /\ IF cmd[u] \in {"share", "console"} THEN target[u] = NoTheme
           ELSE target[u] # NoTheme /\ role[target[u]] # "none"
        /\ target[u] \in Themes \union {NoTheme}
    BY DEF Init
  <2>2. Sound(u)
    BY <2>1 DEF Sound, Live, Route, Unmade
  <2>3. True(u)
    BY <2>1 DEF True
  <2>4. QED
    BY <2>2, <2>3
<1>7. QED
  BY <1>5, <1>6 DEF StoreInv

(* And every step of every user keeps it.                                  *)
LEMMA StoreStep == StoreInv /\ [Next]_vars => StoreInv'
<1> SUFFICES ASSUME StoreInv, [Next]_vars PROVE StoreInv'
  OBVIOUS
<1>1. CASE UNCHANGED vars
  BY <1>1 DEF StoreInv, TypeOK, Sound, Live, Route, True, Wanted, vars, store, asking
<1>2. CASE Next
  <2>1. PICK u \in Users : Act(u)
    BY <1>2 DEF Next, Act
  <2>2. TypeOK /\ Sound(u) /\ (~disturbed[u] => True(u))
    BY DEF StoreInv
  <2>3. TypeOK'
    BY <2>1, <2>2, TypesAreKept
  <2>4. Alone(u) /\ Spares(u)
    BY <2>1, <2>2, OthersUntouched
  <2>5. ASSUME NEW v \in Users PROVE Sound(v)' /\ (~disturbed'[v] => True(v)')
    <3>1. CASE v = u
      BY <2>1, <2>2, <3>1, OwnSound, OwnTrue
    <3>2. CASE v # u
      <4>1. Sound(v) /\ (~disturbed[v] => True(v))
        BY DEF StoreInv
      <4>2. QED
        BY <2>2, <2>4, <3>2, <4>1, OthersStand
    <3>3. QED
      BY <3>1, <3>2
  <2>6. QED
    BY <2>3, <2>5 DEF StoreInv
<1>3. QED
  BY <1>1, <1>2

(* The inductive invariant of the store holds in every reachable state.    *)
THEOREM StoreInvHolds == Spec => []StoreInv
<1>1. QED
  BY StoreInit, StoreStep, PTL DEF Spec

(* Two elements of the set are one: it has at most one.                    *)
LEMMA AtMostOne ==
  ASSUME NEW S, NEW x, S = {x}
  PROVE  Cardinality(S) <= 1
<1>1. QED
  BY FS_Singleton

(* No command makes two themes, nor a share two for one environment,       *)
(* although the answers to its requests may be lost, and a share that fails *)
(* in an upload has asked for that theme to be deleted and for none that   *)
(* it has shared before, for any number of users, themes, assets, attempts *)
(* and environments.                                                       *)
THEOREM NoThemeIsLost == Spec => []ThemesAccountedFor
<1>1. StoreInv => ThemesAccountedFor
  <2> SUFFICES ASSUME StoreInv PROVE ThemesAccountedFor
    OBVIOUS
  <2>1. TypeOK /\ \A u \in Users : Sound(u)
    BY DEF StoreInv
  <2>2. ShareTakesBack
    BY <2>1 DEF ShareTakesBack, Sound
  <2>3. ASSUME NEW u \in Users PROVE Cardinality(made[u] \ shared[u]) <= 1
    <3>1. \A s, t \in made[u] \ shared[u] : s = t
      BY <2>1 DEF Sound
    <3>2. CASE made[u] \ shared[u] = {}
      BY <3>2, FS_EmptySet
    <3>3. CASE made[u] \ shared[u] # {}
      <4>1. PICK t \in made[u] \ shared[u] : TRUE
        BY <3>3
      <4>2. made[u] \ shared[u] = {t}
        BY <3>1, <4>1
      <4>3. QED
        BY <4>2, AtMostOne
    <3>4. QED
      BY <3>2, <3>3
  <2>4. QED
    BY <2>1, <2>2, <2>3 DEF ThemesAccountedFor, NoSecondTheme
<1>2. QED
  BY <1>1, StoreInvHolds, PTL

(* A step in which a command ends well, or a share one of its              *)
(* environments, ends it with what it promised.                            *)
LEMMA EndsTruly ==
  ASSUME TypeOK, NEW u \in Users, Act(u), Sound(u), True(u), Completes(u)
  PROVE  /\ cmd[u] \in {"push", "share", "console"} => HasPushed(u)
         /\ cmd[u] = "pull" => HasPulled(u)
<1>1. ASSUME CommitFiles(u) PROVE cmd[u] = "pull" /\ HasPulled(u)
  <2>1. pc[u] = "commit" /\ cmd[u] = "pull"
    BY <1>1 DEF CommitFiles, Sound, Route
  <2>2. local' = [local EXCEPT ![u] = [k \in Paths |-> IF got[u][k] # 0 THEN got[u][k] ELSE local[u][k]]]
    BY <1>1 DEF CommitFiles, End, TypeOK, Completes, asking
  <2>3. \A k \in Paths : local'[u][k] = IF got[u][k] # 0 THEN got[u][k] ELSE local[u][k]
    BY <2>2 DEF TypeOK
  <2>4. \A k \in Paths : got[u][k] = files[target[u]][k]
    BY <2>1 DEF True
  <2>5. QED
    BY <2>1, <2>3, <2>4 DEF HasPulled
<1>2. ASSUME PushEnds(u) PROVE cmd[u] # "pull" /\ HasPushed(u)
  <2>1. pc[u] = "push" /\ todo[u] = {} /\ ~failed[u]
    BY <1>2 DEF PushEnds, End, Goto, TypeOK, Completes
  <2>2. QED
    BY <2>1 DEF True, HasPushed, Sound, Route
<1>3. ASSUME NEW t \in Themes, Duplicate(u, t) \/ Publish(u) \/ Delete(u)
      PROVE  cmd[u] \in {"duplicate", "publish", "delete"}
  <2>1. pc[u] = "act"
    BY <1>3 DEF Duplicate, Publish, Delete
  <2>2. QED
    BY <2>1 DEF Sound, Route, TypeOK, Commands
<1>4. \/ CommitFiles(u) \/ PushEnds(u) \/ Publish(u) \/ Delete(u)
      \/ \E t \in Themes : Duplicate(u, t)
  BY DEF Act, Downloading, Making, Uploading, Start, ListForPush, ListForConsole, Read, Keys,
     ReadingFails, Stop, Asset, Create, ChangeFails, Cleanup, PushFails, SkipDeletion, Push,
     StopPushing, Cancel, Goto, End, Answered, Unanswered, SendAgain, Downloaded, Pushed, TypeOK,
     Completes, asking
<1>5. ASSUME Publish(u) \/ Delete(u) PROVE cmd[u] \in {"duplicate", "publish", "delete"}
  BY <1>5 DEF Publish, Delete, Sound, Route, TypeOK, Commands
<1>6. QED
  BY <1>1, <1>2, <1>3, <1>4, <1>5

(* A command that reports success has done what it says: what was pushed   *)
(* or shared is in the theme, for each environment of a share when it is   *)
(* done, and what was pulled in the directory, through every retry, unless *)
(* another user has changed that theme meanwhile.                          *)
THEOREM WhatSucceedsIsDone == Spec => SuccessIsTrue
<1> DEFINE Done(u) ==
      Completes(u) /\ ~disturbed[u] =>
        /\ cmd[u] \in {"push", "share", "console"} => HasPushed(u)
        /\ cmd[u] = "pull" => HasPulled(u)
<1>1. StoreInv /\ [Next]_vars => [\A u \in Users : Done(u)]_vars
  <2> SUFFICES ASSUME StoreInv, Next, NEW u \in Users, Completes(u), ~disturbed[u]
               PROVE  /\ cmd[u] \in {"push", "share", "console"} => HasPushed(u)
                      /\ cmd[u] = "pull" => HasPulled(u)
    OBVIOUS
  <2>1. PICK v \in Users : Act(v)
    BY DEF Next, Act
  <2>2. TypeOK /\ Sound(v) /\ Sound(u) /\ True(u)
    BY DEF StoreInv
  <2>3. Alone(v)
    BY <2>1, <2>2, OthersUntouched
  <2>4. u = v
    BY <2>3 DEF Alone, Completes
  <2>5. QED
    BY <2>1, <2>2, <2>4, EndsTruly
<1>2. QED
  BY <1>1, StoreInvHolds, PTL DEF Spec, SuccessIsTrue

-----------------------------------------------------------------------------
(* The transaction of a pull.                                              *)

USE DEF Writing, FaultKinds

(* Every step keeps the types.                                             *)
LEMMA TypeStep ==
  ASSUME CommitTypeOK, BackedUp, [CommitNext]_commitVars
  PROVE  CommitTypeOK'
<1> USE DEF CommitTypeOK
<1>1. ASSUME Reject PROVE CommitTypeOK'
  BY <1>1 DEF Reject
<1>2. ASSUME Accept PROVE CommitTypeOK'
  BY <1>2 DEF Accept
<1>3. ASSUME Fail PROVE CommitTypeOK'
  BY <1>3 DEF Fail
<1>4. ASSUME StartCopy PROVE CommitTypeOK'
  BY <1>4 DEF StartCopy
<1>5. ASSUME FinishCopy PROVE CommitTypeOK'
  BY <1>5 DEF FinishCopy
<1>6. ASSUME Replace PROVE CommitTypeOK'
  BY <1>6 DEF Replace
<1>7. ASSUME Commit PROVE CommitTypeOK'
  BY <1>7 DEF Commit
<1>8. ASSUME SyncFails PROVE CommitTypeOK'
  BY <1>8 DEF SyncFails
<1>9. ASSUME NEW f \in Files, Pick(f) PROVE CommitTypeOK'
  BY <1>9 DEF Pick
<1>10. ASSUME NEW f \in Files, Restore(f) PROVE CommitTypeOK'
  BY <1>10 DEF Restore, Before, BackedUp
<1>11. ASSUME NEW f \in Files, RestoreFails(f) PROVE CommitTypeOK'
  BY <1>11 DEF RestoreFails, Before, BackedUp
<1>12. ASSUME RolledBack PROVE CommitTypeOK'
  BY <1>12 DEF RolledBack
<1>13. ASSUME AllWritten PROVE CommitTypeOK'
  BY <1>13 DEF AllWritten
<1>14. ASSUME Discard PROVE CommitTypeOK'
  BY <1>14 DEF Discard
<1>15. ASSUME DiscardFails PROVE CommitTypeOK'
  BY <1>15 DEF DiscardFails
<1>16. ASSUME CancelPull PROVE CommitTypeOK'
  BY <1>16 DEF CancelPull
<1>17. ASSUME UNCHANGED commitVars PROVE CommitTypeOK'
  BY <1>17 DEF commitVars
<1>18. QED
    BY <1>1, <1>2, <1>3, <1>4, <1>5, <1>6, <1>7, <1>8, <1>9, <1>10, <1>11,
     <1>12, <1>13, <1>14, <1>15, <1>16, <1>17 DEF CommitNext, Call

(* Where the call is says which files have been written.                   *)
LEMMA StepsStep ==
  ASSUME CommitTypeOK, BackedUp, Steps, [CommitNext]_commitVars
  PROVE  Steps'
<1> USE DEF CommitTypeOK, BackedUp, Steps
<1>1. ASSUME Reject PROVE Steps'
  BY <1>1 DEF Reject
<1>2. ASSUME Accept PROVE Steps'
  BY <1>2 DEF Accept
<1>3. ASSUME Fail PROVE Steps'
  BY <1>3 DEF Fail
<1>4. ASSUME StartCopy PROVE Steps'
  BY <1>4 DEF StartCopy
<1>5. ASSUME FinishCopy PROVE Steps'
  BY <1>5 DEF FinishCopy
<1>6. ASSUME Replace PROVE Steps'
  BY <1>6 DEF Replace
<1>7. ASSUME Commit PROVE Steps'
  BY <1>7 DEF Commit
<1>8. ASSUME SyncFails PROVE Steps'
  BY <1>8 DEF SyncFails
<1>9. ASSUME NEW f \in Files, Pick(f) PROVE Steps'
  BY <1>9 DEF Pick
<1>10. ASSUME NEW f \in Files, Restore(f) PROVE Steps'
  BY <1>10 DEF Restore, Before
<1>11. ASSUME NEW f \in Files, RestoreFails(f) PROVE Steps'
  BY <1>11 DEF RestoreFails, Before
<1>12. ASSUME RolledBack PROVE Steps'
  BY <1>12 DEF RolledBack
<1>13. ASSUME AllWritten PROVE Steps'
  BY <1>13 DEF AllWritten
<1>14. ASSUME Discard PROVE Steps'
  BY <1>14 DEF Discard
<1>15. ASSUME DiscardFails PROVE Steps'
  BY <1>15 DEF DiscardFails
<1>16. ASSUME CancelPull PROVE Steps'
  BY <1>16 DEF CancelPull
<1>17. ASSUME UNCHANGED commitVars PROVE Steps'
  BY <1>17 DEF commitVars
<1>18. QED
    BY <1>1, <1>2, <1>3, <1>4, <1>5, <1>6, <1>7, <1>8, <1>9, <1>10, <1>11,
     <1>12, <1>13, <1>14, <1>15, <1>16, <1>17 DEF CommitNext, Call

(* A file differs from what it was only if it is new and was backed up.    *)
LEMMA BackupStep ==
  ASSUME CommitTypeOK, BackedUp, Steps, [CommitNext]_commitVars
  PROVE  BackedUp'
<1> USE DEF CommitTypeOK, BackedUp, Steps
<1>1. ASSUME Reject PROVE BackedUp'
  BY <1>1 DEF Reject
<1>2. ASSUME Accept PROVE BackedUp'
  BY <1>2 DEF Accept
<1>3. ASSUME Fail PROVE BackedUp'
  BY <1>3 DEF Fail
<1>4. ASSUME StartCopy PROVE BackedUp'
  BY <1>4 DEF StartCopy
<1>5. ASSUME FinishCopy PROVE BackedUp'
  BY <1>5 DEF FinishCopy
<1>6. ASSUME Replace PROVE BackedUp'
  BY <1>6 DEF Replace
<1>7. ASSUME Commit PROVE BackedUp'
  BY <1>7 DEF Commit
<1>8. ASSUME SyncFails PROVE BackedUp'
  BY <1>8 DEF SyncFails
<1>9. ASSUME NEW f \in Files, Pick(f) PROVE BackedUp'
  BY <1>9 DEF Pick
<1>10. ASSUME NEW f \in Files, Restore(f) PROVE BackedUp'
  BY <1>10 DEF Restore, Before
<1>11. ASSUME NEW f \in Files, RestoreFails(f) PROVE BackedUp'
  BY <1>11 DEF RestoreFails, Before
<1>12. ASSUME RolledBack PROVE BackedUp'
  BY <1>12 DEF RolledBack
<1>13. ASSUME AllWritten PROVE BackedUp'
  BY <1>13 DEF AllWritten
<1>14. ASSUME Discard PROVE BackedUp'
  BY <1>14 DEF Discard
<1>15. ASSUME DiscardFails PROVE BackedUp'
  BY <1>15 DEF DiscardFails
<1>16. ASSUME CancelPull PROVE BackedUp'
  BY <1>16 DEF CancelPull
<1>17. ASSUME UNCHANGED commitVars PROVE BackedUp'
  BY <1>17 DEF commitVars
<1>18. QED
    BY <1>1, <1>2, <1>3, <1>4, <1>5, <1>6, <1>7, <1>8, <1>9, <1>10, <1>11,
     <1>12, <1>13, <1>14, <1>15, <1>16, <1>17 DEF CommitNext, Call

(* Without the faults that hide a replaced file, the list is complete.     *)
LEMMA ListStep ==
  ASSUME CommitTypeOK, BackedUp, Steps, Listed, [CommitNext]_commitVars
  PROVE  Listed'
<1> USE DEF CommitTypeOK, BackedUp, Steps, Listed
<1>1. ASSUME Reject PROVE Listed'
  BY <1>1 DEF Reject
<1>2. ASSUME Accept PROVE Listed'
  BY <1>2 DEF Accept
<1>3. ASSUME Fail PROVE Listed'
  BY <1>3 DEF Fail
<1>4. ASSUME StartCopy PROVE Listed'
  BY <1>4 DEF StartCopy
<1>5. ASSUME FinishCopy PROVE Listed'
  BY <1>5 DEF FinishCopy
<1>6. ASSUME Replace PROVE Listed'
  BY <1>6 DEF Replace
<1>7. ASSUME Commit PROVE Listed'
  BY <1>7 DEF Commit
<1>8. ASSUME SyncFails PROVE Listed'
  BY <1>8 DEF SyncFails
<1>9. ASSUME NEW f \in Files, Pick(f) PROVE Listed'
  BY <1>9 DEF Pick
<1>10. ASSUME NEW f \in Files, Restore(f) PROVE Listed'
  BY <1>10 DEF Restore, Before
<1>11. ASSUME NEW f \in Files, RestoreFails(f) PROVE Listed'
  BY <1>11 DEF RestoreFails, Before
<1>12. ASSUME RolledBack PROVE Listed'
  BY <1>12 DEF RolledBack
<1>13. ASSUME AllWritten PROVE Listed'
  BY <1>13 DEF AllWritten
<1>14. ASSUME Discard PROVE Listed'
  BY <1>14 DEF Discard
<1>15. ASSUME DiscardFails PROVE Listed'
  BY <1>15 DEF DiscardFails
<1>16. ASSUME CancelPull PROVE Listed'
  BY <1>16 DEF CancelPull
<1>17. ASSUME UNCHANGED commitVars PROVE Listed'
  BY <1>17 DEF commitVars
<1>18. QED
    BY <1>1, <1>2, <1>3, <1>4, <1>5, <1>6, <1>7, <1>8, <1>9, <1>10, <1>11,
     <1>12, <1>13, <1>14, <1>15, <1>16, <1>17 DEF CommitNext, Call

(* The inductive invariant holds in every reachable state.                 *)
THEOREM CommitInvariance == CommitSpec => []CInv
<1>1. CommitInit => CInv
  BY DEF CommitInit, CInv, CommitTypeOK, BackedUp, Steps, Listed
<1>2. CInv /\ [CommitNext]_commitVars => CInv'
  BY TypeStep, StepsStep, BackupStep, ListStep DEF CInv
<1>3. QED
  BY <1>1, <1>2, PTL DEF CommitSpec

(* A pull killed at any step loses no file: the old contents are in place  *)
(* or complete in the backup, whichever faults the file system has.        *)
THEOREM NoOriginalIsLost == CommitSpec => []OriginalsSurvive
<1>1. CInv => OriginalsSurvive
  BY DEF CInv, CommitTypeOK, BackedUp, OriginalsSurvive
<1>2. QED
  BY <1>1, CommitInvariance, PTL

(* As long as no directory sync, rollback or cleanup fails, a pull is all  *)
(* or nothing.                                                             *)
THEOREM PullIsAtomic == CommitSpec => []AllOrNothing
<1>1. CInv => AllOrNothing
  BY DEF CInv, Steps, Listed, AllOrNothing
<1>2. QED
  BY <1>1, CommitInvariance, PTL
=============================================================================
