--------------------------- MODULE ThemeDev_proofs ---------------------------
(***************************************************************************)
(* Theorems about ThemeDev, for any set of paths and any number of edits:  *)
(* no change is lost between the editor and the theme, and a session that  *)
(* ends has disposed of the theme it created.                              *)
(***************************************************************************)
EXTENDS ThemeDev, TLAPS

USE ThemeDevAssumption DEF Ended

-----------------------------------------------------------------------------
(* Sequences of events.                                                    *)

(* Where the events of a sequence that goes on after another one are.      *)
LEMMA Places ==
  ASSUME NEW s \in Seq(Event), NEW t \in Seq(Event)
  PROVE  /\ s \o t \in Seq(Event) /\ Len(s \o t) = Len(s) + Len(t)
         /\ \A i \in 1..Len(s) : (s \o t)[i] = s[i]
         /\ \A i \in 1..Len(t) : (s \o t)[Len(s) + i] = t[i]
OBVIOUS

(* A path is touched by a sequence made of two if it is by one of them.    *)
LEMMA TouchedByBoth ==
  ASSUME NEW s \in Seq(Event), NEW t \in Seq(Event)
  PROVE  Touched(s \o t) = Touched(s) \union Touched(t)
<1> DEFINE n == Len(s)
           m == Len(t)
<1>1. n \in Nat /\ m \in Nat
  OBVIOUS
<1>2. \A i \in 1..n + m : i \in 1..n \/ (i - n \in 1..m /\ i = n + (i - n))
  BY <1>1
<1>3. \A i \in 1..n : i \in 1..n + m
  BY <1>1
<1>4. \A i \in 1..m : n + i \in 1..n + m
  BY <1>1
<1> HIDE DEF n, m
<1>5. Touched(s \o t) \subseteq Touched(s) \union Touched(t)
  BY <1>2, Places DEF Touched, n, m
<1>6. Touched(s) \subseteq Touched(s \o t)
  BY <1>3, Places DEF Touched, n, m
<1>7. Touched(t) \subseteq Touched(s \o t)
  <2> SUFFICES ASSUME NEW p \in Touched(t) PROVE p \in Touched(s \o t)
    OBVIOUS
  <2>1. PICK i \in 1..m : About(t[i], p)
    BY DEF Touched, m
  <2>2. n + i \in 1..n + m /\ (s \o t)[n + i] = t[i]
    BY <1>4, Places DEF n, m
  <2>3. Len(s \o t) = n + m
    BY Places DEF n, m
  <2>4. QED
    BY <2>1, <2>2, <2>3 DEF Touched
<1>8. QED
  BY <1>5, <1>6, <1>7

(* The last event of a path decides: the second sequence does where it is  *)
(* about the path, and the first one where it is not.                      *)
LEMMA LastDecides ==
  ASSUME NEW s \in Seq(Event), NEW t \in Seq(Event), NEW p \in Paths
  PROVE  /\ p \in Touched(t) => (Deletes(s \o t, p) <=> Deletes(t, p))
         /\ p \notin Touched(t) => (Deletes(s \o t, p) <=> Deletes(s, p))
<1> DEFINE n == Len(s)
           m == Len(t)
           u == s \o t
<1>1. n \in Nat /\ m \in Nat
  OBVIOUS
<1>2. Len(u) = n + m /\ (\A i \in 1..n : u[i] = s[i]) /\ (\A i \in 1..m : u[n + i] = t[i])
  BY Places
<1> HIDE DEF n, m, u
<1>3. ASSUME p \in Touched(t), Deletes(u, p) PROVE Deletes(t, p)
  <2>1. PICK k \in 1..m : About(t[k], p)
    BY <1>3 DEF Touched, m
  <2>2. PICK i \in 1..n + m : /\ About(u[i], p) /\ p \notin u[i].there
                             /\ \A l \in i + 1..n + m : ~About(u[l], p)
    BY <1>2, <1>3 DEF Deletes
  <2>3. n + k \in 1..n + m /\ About(u[n + k], p)
    BY <1>1, <1>2, <2>1
  <2>4. ~(n + k \in i + 1..n + m)
    BY <2>2, <2>3
  <2>5. i - n \in 1..m /\ u[i] = t[i - n]
    <3>1. i - n \in 1..m /\ n + (i - n) = i
      BY <1>1, <2>3, <2>4
    <3>2. QED
      BY <1>2, <3>1
  <2>6. \A l \in (i - n) + 1..m : ~About(t[l], p)
    <3>1. \A l \in (i - n) + 1..m : l \in 1..m /\ n + l \in i + 1..n + m
      BY <1>1, <2>5
    <3>2. QED
      BY <1>2, <2>2, <3>1
  <2>7. QED
    BY <2>2, <2>5, <2>6 DEF Deletes, m
<1>4. ASSUME p \in Touched(t), Deletes(t, p) PROVE Deletes(u, p)
  <2>1. PICK i \in 1..m : /\ About(t[i], p) /\ p \notin t[i].there
                         /\ \A l \in i + 1..m : ~About(t[l], p)
    BY <1>4 DEF Deletes, m
  <2>2. n + i \in 1..n + m /\ u[n + i] = t[i]
    BY <1>1, <1>2
  <2>3. \A l \in (n + i) + 1..n + m : l - n \in i + 1..m /\ l - n \in 1..m /\ n + (l - n) = l
    BY <1>1
  <2>4. \A l \in (n + i) + 1..n + m : u[l] = t[l - n]
    BY <1>2, <2>3
  <2>5. \A l \in (n + i) + 1..n + m : ~About(u[l], p)
    BY <2>1, <2>3, <2>4
  <2>6. QED
    BY <1>2, <2>1, <2>2, <2>5 DEF Deletes
<1>5. ASSUME p \notin Touched(t), Deletes(u, p) PROVE Deletes(s, p)
  <2>1. PICK i \in 1..n + m : /\ About(u[i], p) /\ p \notin u[i].there
                             /\ \A l \in i + 1..n + m : ~About(u[l], p)
    BY <1>2, <1>5 DEF Deletes
  <2>2. \A l \in 1..m : ~About(u[n + l], p)
    BY <1>2, <1>5 DEF Touched, m
  <2>3. i \in 1..n
    <3>1. i \in 1..n \/ (i - n \in 1..m /\ n + (i - n) = i)
      BY <1>1
    <3>2. QED
      BY <2>1, <2>2, <3>1
  <2>4. \A l \in i + 1..n : l \in 1..n /\ l \in i + 1..n + m
    BY <1>1, <2>3
  <2>5. \A l \in i + 1..n : ~About(s[l], p)
    BY <1>2, <2>1, <2>4
  <2>6. QED
    BY <1>2, <2>1, <2>3, <2>5 DEF Deletes, n
<1>6. ASSUME p \notin Touched(t), Deletes(s, p) PROVE Deletes(u, p)
  <2>1. PICK i \in 1..n : /\ About(s[i], p) /\ p \notin s[i].there
                         /\ \A l \in i + 1..n : ~About(s[l], p)
    BY <1>6 DEF Deletes, n
  <2>2. \A l \in 1..m : ~About(u[n + l], p)
    BY <1>2, <1>6 DEF Touched, m
  <2>3. \A l \in i + 1..n + m : (l \in 1..n /\ l \in i + 1..n) \/ (l - n \in 1..m /\ n + (l - n) = l)
    BY <1>1
  <2>4. \A l \in i + 1..n + m : ~About(u[l], p)
    BY <1>2, <2>1, <2>2, <2>3
  <2>5. i \in 1..n + m
    BY <1>1
  <2>6. QED
    BY <1>2, <2>1, <2>4, <2>5 DEF Deletes
<1>7. QED
  BY <1>3, <1>4, <1>5, <1>6 DEF u

(* One event.                                                              *)
LEMMA OneEvent ==
  ASSUME NEW e \in Event, NEW p \in Paths
  PROVE  /\ p \in Touched(<<e>>) <=> About(e, p)
         /\ About(e, p) => (Deletes(<<e>>, p) <=> p \notin e.there)
<1>1. Len(<<e>>) = 1 /\ <<e>>[1] = e
  OBVIOUS
<1>2. \A i \in 1..1 : i = 1
  OBVIOUS
<1>3. 1 + 1..1 = {}
  OBVIOUS
<1>4. QED
  BY <1>1, <1>2, <1>3 DEF Touched, Deletes

(* Nothing is touched by no event.                                         *)
LEMMA NoEvent == Touched(<<>>) = {}
BY DEF Touched

(* An event that is appended decides about its own paths only.             *)
LEMMA AppendDecides ==
  ASSUME NEW s \in Seq(Event), NEW e \in Event, NEW p \in Paths
  PROVE  /\ Append(s, e) \in Seq(Event)
         /\ About(e, p) => p \in Touched(Append(s, e)) /\ (Deletes(Append(s, e), p) <=> p \notin e.there)
         /\ ~About(e, p) => /\ p \in Touched(Append(s, e)) <=> p \in Touched(s)
                            /\ Deletes(Append(s, e), p) <=> Deletes(s, p)
<1>1. <<e>> \in Seq(Event) /\ Append(s, e) = s \o <<e>> /\ Append(s, e) \in Seq(Event)
  OBVIOUS
<1>2. p \in Touched(Append(s, e)) <=> p \in Touched(s) \/ p \in Touched(<<e>>)
  BY <1>1, TouchedByBoth
<1>3. CASE About(e, p)
  <2>1. p \in Touched(<<e>>) /\ (Deletes(<<e>>, p) <=> p \notin e.there)
    BY <1>3, OneEvent
  <2>2. Deletes(s \o <<e>>, p) <=> Deletes(<<e>>, p)
    BY <1>1, <2>1, LastDecides
  <2>3. QED
    BY <1>1, <1>2, <1>3, <2>1, <2>2
<1>4. CASE ~About(e, p)
  <2>1. p \notin Touched(<<e>>)
    BY <1>4, OneEvent
  <2>2. Deletes(s \o <<e>>, p) <=> Deletes(s, p)
    BY <1>1, <2>1, LastDecides
  <2>3. QED
    BY <1>1, <1>2, <1>4, <2>1, <2>2
<1>5. QED
  BY <1>3, <1>4

(* The first event and the rest make up a sequence.                        *)
LEMMA HeadAndTail ==
  ASSUME NEW s \in Seq(Event), s # <<>>
  PROVE  /\ <<Head(s)>> \in Seq(Event) /\ Tail(s) \in Seq(Event)
         /\ s = <<Head(s)>> \o Tail(s)
OBVIOUS

-----------------------------------------------------------------------------
(* The invariant.                                                          *)

(* The watcher's part in what the editor does, when p goes or q comes.     *)
LEMMA NoticeTypes ==
  ASSUME TypeOK, NEW gone \in SUBSET Paths, NEW there \in SUBSET Paths, Editing, Notice(gone, there)
  PROVE  /\ queue' \in Seq(Event) /\ missed' \subseteq Paths
         /\ edits' \in 0..MaxEdits /\ edits + 3 \in Contents
<1>1. [gone |-> gone, there |-> there] \in Event
  BY DEF Event
<1>2. queue \in Seq(Event) /\ edits \in 0..MaxEdits /\ edits < MaxEdits /\ missed \subseteq Paths
  BY DEF TypeOK, Editing
<1>3. queue' \in Seq(Event)
  BY <1>1, <1>2 DEF Notice
<1>4. QED
  BY <1>2, <1>3 DEF Notice, Contents

(* Every step keeps the types.                                             *)
LEMMA TypeStep ==
  ASSUME TypeOK, Stages, [Next]_vars
  PROVE  TypeOK'
<1> USE DEF TypeOK, Attempts
<1>1. ASSUME NEW p \in Paths, Write(p) PROVE TypeOK'
  <2>1. queue' \in Seq(Event) /\ missed' \subseteq Paths /\ edits' \in 0..MaxEdits /\ edits + 3 \in Contents
    BY <1>1, NoticeTypes DEF Write
  <2>2. 0 \in Contents
    BY DEF Contents
  <2>3. local' \in [Paths -> Contents]
    BY <1>1, <2>1, <2>2 DEF Write
  <2>4. QED
    BY <1>1, <2>1, <2>3 DEF Write, fileVars, syncVars
<1>2. ASSUME NEW p \in Paths, Remove(p) PROVE TypeOK'
  <2>1. queue' \in Seq(Event) /\ missed' \subseteq Paths /\ edits' \in 0..MaxEdits /\ edits + 3 \in Contents
    BY <1>2, NoticeTypes DEF Remove
  <2>2. 0 \in Contents
    BY DEF Contents
  <2>3. local' \in [Paths -> Contents]
    BY <1>2, <2>1, <2>2 DEF Remove
  <2>4. QED
    BY <1>2, <2>1, <2>3 DEF Remove, fileVars, syncVars
<1>3. ASSUME NEW p \in Paths, NEW q \in Paths, Rename(p, q) PROVE TypeOK'
  <2>1. queue' \in Seq(Event) /\ missed' \subseteq Paths /\ edits' \in 0..MaxEdits /\ edits + 3 \in Contents
    BY <1>3, NoticeTypes DEF Rename
  <2>2. 0 \in Contents
    BY DEF Contents
  <2>3. local' \in [Paths -> Contents]
    BY <1>3, <2>1, <2>2 DEF Rename
  <2>4. QED
    BY <1>3, <2>1, <2>3 DEF Rename, fileVars, syncVars
<1>4. ASSUME Synced PROVE TypeOK'
  BY <1>4 DEF Synced, fileVars, syncVars
<1>5. ASSUME Resend PROVE TypeOK'
  <2>1. failed' \in BOOLEAN
    BY <1>5 DEF Resend
  <2>2. attempt' \in 1..Attempts
    BY <1>5 DEF Resend
  <2>3. unsent' \subseteq changes' /\ changes' = changes
    BY <1>5 DEF Resend, syncVars
  <2>4. QED
    BY <1>5, <2>1, <2>2, <2>3 DEF Resend, fileVars, syncVars
<1>6. ASSUME GiveUp PROVE TypeOK'
  BY <1>6 DEF GiveUp, fileVars, syncVars
<1>7. ASSUME NEW c \in unsent, Send(c) PROVE TypeOK'
  BY <1>7 DEF Send, fileVars, syncVars
<1>8. ASSUME NEW c \in unsent, SendFails(c) PROVE TypeOK'
  BY <1>8 DEF SendFails, fileVars, syncVars
<1>9. ASSUME CreateTheme PROVE TypeOK'
  BY <1>9 DEF CreateTheme, fileVars, syncVars
<1>10. ASSUME InitialSync PROVE TypeOK'
  <2>1. failed' \in BOOLEAN
    BY <1>10 DEF InitialSync, StartSync
  <2>2. attempt' \in 1..Attempts
    BY <1>10 DEF InitialSync, StartSync
  <2>3. unsent' \subseteq changes' /\ changes' = changes
    BY <1>10 DEF InitialSync, StartSync, syncVars
  <2>4. QED
    BY <1>10, <2>1, <2>2, <2>3 DEF InitialSync, StartSync, fileVars, syncVars
<1>11. ASSUME Watch PROVE TypeOK'
  BY <1>11 DEF Watch, fileVars, syncVars
<1>12. ASSUME FirstEvent PROVE TypeOK'
  BY <1>12, HeadAndTail DEF FirstEvent, fileVars, syncVars
<1>13. ASSUME Drain PROVE TypeOK'
  <2>1. batch' \in Seq(Event) /\ Touched(batch') \subseteq Paths
    BY <1>13 DEF Drain, Touched
  <2>2. QED
    BY <1>13, <2>1 DEF Drain, fileVars, syncVars
<1>14. ASSUME Push PROVE TypeOK'
  <2>1. failed' \in BOOLEAN
    BY <1>14 DEF Push, StartSync
  <2>2. attempt' \in 1..Attempts
    BY <1>14 DEF Push, StartSync
  <2>3. unsent' \subseteq changes' /\ changes' = changes
    BY <1>14 DEF Push, StartSync, syncVars
  <2>4. QED
    BY <1>14, <2>1, <2>2, <2>3 DEF Push, StartSync, fileVars, syncVars
<1>15. ASSUME NothingToPush PROVE TypeOK'
  BY <1>15 DEF NothingToPush, fileVars, syncVars
<1>16. ASSUME NEW p \in Paths, ScanFile(p) PROVE TypeOK'
  BY <1>16 DEF ScanFile, fileVars, syncVars
<1>17. ASSUME NEW p \in Paths, ReadPath(p) PROVE TypeOK'
  <2>1. changes' \subseteq Paths \X Contents /\ changes \subseteq changes'
    BY <1>17 DEF ReadPath, Contents
  <2>2. QED
    BY <1>17, <2>1 DEF ReadPath, fileVars, syncVars
<1>18. ASSUME CleanUp PROVE TypeOK'
  BY <1>18 DEF CleanUp, fileVars, syncVars
<1>19. ASSUME Error PROVE TypeOK'
  BY <1>19 DEF Error, fileVars, syncVars
<1>20. ASSUME Interrupt PROVE TypeOK'
  BY <1>20 DEF Interrupt, fileVars, syncVars
<1>21. ASSUME UNCHANGED vars PROVE TypeOK'
  BY <1>21 DEF vars, fileVars, syncVars
<1>22. QED
    BY <1>1, <1>2, <1>3, <1>4, <1>5, <1>6, <1>7, <1>8, <1>9, <1>10, <1>11, <1>12, <1>13,
     <1>14, <1>15, <1>16, <1>17, <1>18, <1>19, <1>20, <1>21 DEF Next, Editor, Sync, Dev

(* Every step leaves to the next one what it expects.                      *)
LEMMA StagesStep ==
  ASSUME TypeOK, Stages, [Next]_vars
  PROVE  Stages'
<1> USE DEF TypeOK, Stages
<1>1. ASSUME NEW p \in Paths, Write(p) PROVE Stages'
  BY <1>1 DEF Write, Editing, Notice, fileVars, syncVars
<1>2. ASSUME NEW p \in Paths, Remove(p) PROVE Stages'
  BY <1>2 DEF Remove, Editing, Notice, fileVars, syncVars
<1>3. ASSUME NEW p \in Paths, NEW q \in Paths, Rename(p, q) PROVE Stages'
  BY <1>3 DEF Rename, Editing, Notice, fileVars, syncVars
<1>4. ASSUME Synced PROVE Stages'
  BY <1>4 DEF Synced, fileVars, syncVars
<1>5. ASSUME Resend PROVE Stages'
  BY <1>5 DEF Resend, fileVars, syncVars
<1>6. ASSUME GiveUp PROVE Stages'
  BY <1>6 DEF GiveUp, fileVars, syncVars
<1>7. ASSUME NEW c \in unsent, Send(c) PROVE Stages'
  BY <1>7 DEF Send, fileVars, syncVars
<1>8. ASSUME NEW c \in unsent, SendFails(c) PROVE Stages'
  BY <1>8 DEF SendFails, fileVars, syncVars
<1>9. ASSUME CreateTheme PROVE Stages'
  BY <1>9 DEF CreateTheme, fileVars, syncVars
<1>10. ASSUME InitialSync PROVE Stages'
  BY <1>10 DEF InitialSync, StartSync, fileVars, syncVars
<1>11. ASSUME Watch PROVE Stages'
  BY <1>11 DEF Watch, fileVars, syncVars
<1>12. ASSUME FirstEvent PROVE Stages'
  BY <1>12 DEF FirstEvent, fileVars, syncVars
<1>13. ASSUME Drain PROVE Stages'
  BY <1>13, NoEvent DEF Drain, fileVars, syncVars
<1>14. ASSUME Push PROVE Stages'
  BY <1>14 DEF Push, StartSync, fileVars, syncVars
<1>15. ASSUME NothingToPush PROVE Stages'
  BY <1>15 DEF NothingToPush, fileVars, syncVars
<1>16. ASSUME NEW p \in Paths, ScanFile(p) PROVE Stages'
  BY <1>16 DEF ScanFile, fileVars, syncVars
<1>17. ASSUME NEW p \in Paths, ReadPath(p) PROVE Stages'
  BY <1>17 DEF ReadPath, fileVars, syncVars
<1>18. ASSUME CleanUp PROVE Stages'
  BY <1>18 DEF CleanUp, fileVars, syncVars
<1>19. ASSUME Error PROVE Stages'
  BY <1>19 DEF Error, fileVars, syncVars
<1>20. ASSUME Interrupt PROVE Stages'
  BY <1>20 DEF Interrupt, fileVars, syncVars
<1>21. ASSUME UNCHANGED vars PROVE Stages'
  BY <1>21 DEF vars, fileVars, syncVars
<1>22. QED
    BY <1>1, <1>2, <1>3, <1>4, <1>5, <1>6, <1>7, <1>8, <1>9, <1>10, <1>11, <1>12, <1>13,
     <1>14, <1>15, <1>16, <1>17, <1>18, <1>19, <1>20, <1>21 DEF Next, Editor, Sync, Dev

(* There stays one change per path, and what was sent is in the theme.     *)
LEMMA ChangesStep ==
  ASSUME TypeOK, Stages, OneChangeEach, [Next]_vars
  PROVE  OneChangeEach'
<1> USE DEF TypeOK, Stages, OneChangeEach
<1>1. ASSUME NEW p \in Paths, Write(p) PROVE OneChangeEach'
  BY <1>1 DEF Write, Editing, Notice, fileVars, syncVars
<1>2. ASSUME NEW p \in Paths, Remove(p) PROVE OneChangeEach'
  BY <1>2 DEF Remove, Editing, Notice, fileVars, syncVars
<1>3. ASSUME NEW p \in Paths, NEW q \in Paths, Rename(p, q) PROVE OneChangeEach'
  BY <1>3 DEF Rename, Editing, Notice, fileVars, syncVars
<1>4. ASSUME Synced PROVE OneChangeEach'
  BY <1>4 DEF Synced, fileVars, syncVars
<1>5. ASSUME Resend PROVE OneChangeEach'
  BY <1>5 DEF Resend, fileVars, syncVars
<1>6. ASSUME GiveUp PROVE OneChangeEach'
  BY <1>6 DEF GiveUp, fileVars, syncVars
<1>7. ASSUME NEW c \in unsent, Send(c) PROVE OneChangeEach'
  BY <1>7 DEF Send, fileVars, syncVars
<1>8. ASSUME NEW c \in unsent, SendFails(c) PROVE OneChangeEach'
  BY <1>8 DEF SendFails, fileVars, syncVars
<1>9. ASSUME CreateTheme PROVE OneChangeEach'
  BY <1>9 DEF CreateTheme, fileVars, syncVars
<1>10. ASSUME InitialSync PROVE OneChangeEach'
  BY <1>10 DEF InitialSync, StartSync, fileVars, syncVars
<1>11. ASSUME Watch PROVE OneChangeEach'
  BY <1>11 DEF Watch, fileVars, syncVars
<1>12. ASSUME FirstEvent PROVE OneChangeEach'
  BY <1>12 DEF FirstEvent, fileVars, syncVars
<1>13. ASSUME Drain PROVE OneChangeEach'
  BY <1>13 DEF Drain, fileVars, syncVars
<1>14. ASSUME Push PROVE OneChangeEach'
  BY <1>14 DEF Push, StartSync, fileVars, syncVars
<1>15. ASSUME NothingToPush PROVE OneChangeEach'
  BY <1>15 DEF NothingToPush, fileVars, syncVars
<1>16. ASSUME NEW p \in Paths, ScanFile(p) PROVE OneChangeEach'
  BY <1>16 DEF ScanFile, fileVars, syncVars
<1>17. ASSUME NEW p \in Paths, ReadPath(p) PROVE OneChangeEach'
  <2>1. UNCHANGED <<remote, unsent, failed, at>> /\ at = "read" /\ p \in unread /\ unread' = unread \ {p}
    BY <1>17 DEF ReadPath
  <2>2. \/ changes' = changes
        \/ \E v \in Contents : changes' = changes \union {<<p, v>>}
    BY <1>17 DEF ReadPath, Contents
  <2>3. \A c \in changes : c[1] # p
    BY <2>1
  <2>4. CASE changes' = changes
    BY <2>1, <2>4
  <2>5. CASE \E v \in Contents : changes' = changes \union {<<p, v>>}
    <3>1. PICK v \in Contents : changes' = changes \union {<<p, v>>}
      BY <2>5
    <3>2. \A c \in changes' : c \in changes \/ c = <<p, v>>
      BY <3>1
    <3>3. \A c, d \in changes' : c[1] = d[1] => c = d
      BY <2>3, <3>2
    <3>4. \A c \in changes' : c[1] \notin unread'
      BY <2>1, <3>2
    <3>5. QED
      BY <2>1, <3>3, <3>4
  <2>6. QED
    BY <2>2, <2>4, <2>5
<1>18. ASSUME CleanUp PROVE OneChangeEach'
  BY <1>18 DEF CleanUp, fileVars, syncVars
<1>19. ASSUME Error PROVE OneChangeEach'
  BY <1>19 DEF Error, fileVars, syncVars
<1>20. ASSUME Interrupt PROVE OneChangeEach'
  BY <1>20 DEF Interrupt, fileVars, syncVars
<1>21. ASSUME UNCHANGED vars PROVE OneChangeEach'
  BY <1>21 DEF vars, fileVars, syncVars
<1>22. QED
    BY <1>1, <1>2, <1>3, <1>4, <1>5, <1>6, <1>7, <1>8, <1>9, <1>10, <1>11, <1>12, <1>13,
     <1>14, <1>15, <1>16, <1>17, <1>18, <1>19, <1>20, <1>21 DEF Next, Editor, Sync, Dev

(* What the editor does to a path that is not passed over is the last word *)
(* about it; the other paths are as they were.                             *)
LEMMA EditCovered ==
  ASSUME TypeOK, Stages, Covered,
         NEW gone \in SUBSET Paths, NEW there \in SUBSET Paths, Editing, Notice(gone, there),
         \A p \in Paths : p \in gone \union there => (local'[p] = 0 <=> p \notin there),
         \A p \in Paths : p \notin gone \union there => local'[p] = local[p],
         UNCHANGED <<remote, watching, batch, unread, changes, at>>
  PROVE  Covered'
<1> DEFINE e == [gone |-> gone, there |-> there]
<1> SUFFICES ASSUME at \notin Ended \union {"cleanup"}, NEW p \in Paths \ missed'
             PROVE  (~watching /\ p \in unread) \/ LastWord(p)'
  BY DEF Covered
<1>1. p \notin missed => (~watching /\ p \in unread) \/ LastWord(p)
  BY DEF Covered
<1>2. e \in Event /\ queue \in Seq(Event) /\ (About(e, p) <=> p \in gone \union there)
  BY DEF Event, TypeOK, About
<1>3. CASE watching
  <2>1. queue' = Append(queue, e)
    BY <1>3 DEF Notice
  <2> HIDE DEF e
  <2>2. CASE p \in gone \union there
    <3>1. p \in Touched(queue') /\ (Deletes(queue', p) <=> p \notin e.there)
      BY <1>2, <2>1, <2>2, AppendDecides
    <3>2. QED
      BY <2>2, <3>1 DEF LastWord, Touched, Deletes, e
  <2>3. CASE p \notin gone \union there
    <3>1. (p \in Touched(queue') <=> p \in Touched(queue)) /\ (Deletes(queue', p) <=> Deletes(queue, p))
      BY <1>2, <2>1, <2>3, AppendDecides
    <3>2. p \notin missed
      BY <1>3, <2>3 DEF Notice
    <3>3. QED
      BY <1>1, <1>3, <2>3, <3>1, <3>2 DEF LastWord, Touched, Deletes
  <2>4. QED
    BY <2>2, <2>3
<1>4. CASE ~watching
  <2>1. queue' = queue /\ p \notin missed /\ p \notin (gone \union there) \ unread
    BY <1>4 DEF Notice
  <2>2. QED
    BY <1>1, <1>4, <2>1 DEF LastWord, Touched, Deletes
<1>5. QED
  BY <1>3, <1>4

(* Every step leaves the last word about every path not passed over.       *)
LEMMA CoveredStep ==
  ASSUME TypeOK, Stages, OneChangeEach, Covered, [Next]_vars
  PROVE  Covered'
<1>1. ASSUME NEW p \in Paths, Write(p) PROVE Covered'
  <2>1. Editing /\ Notice({}, {p}) /\ UNCHANGED <<remote, watching, batch, unread, changes, at>>
    BY <1>1 DEF Write, syncVars
  <2>2. edits + 3 # 0
    BY DEF TypeOK
  <2>3. \A r \in Paths : r \in {} \union {p} => (local'[r] = 0 <=> r \notin {p})
    BY <1>1, <2>2 DEF Write, TypeOK
  <2>4. \A r \in Paths : r \notin {} \union {p} => local'[r] = local[r]
    BY <1>1 DEF Write, TypeOK
  <2>5. {} \in SUBSET Paths /\ {p} \in SUBSET Paths
    OBVIOUS
  <2>6. QED
    BY <2>1, <2>3, <2>4, <2>5, EditCovered
<1>2. ASSUME NEW p \in Paths, Remove(p) PROVE Covered'
  <2>1. Editing /\ Notice({p}, {}) /\ UNCHANGED <<remote, watching, batch, unread, changes, at>>
    BY <1>2 DEF Remove, syncVars
  <2>2. edits + 3 # 0
    BY DEF TypeOK
  <2>3. \A r \in Paths : r \in {p} \union {} => (local'[r] = 0 <=> r \notin {})
    BY <1>2, <2>2 DEF Remove, TypeOK
  <2>4. \A r \in Paths : r \notin {p} \union {} => local'[r] = local[r]
    BY <1>2 DEF Remove, TypeOK
  <2>5. {p} \in SUBSET Paths /\ {} \in SUBSET Paths
    OBVIOUS
  <2>6. QED
    BY <2>1, <2>3, <2>4, <2>5, EditCovered
<1>3. ASSUME NEW p \in Paths, NEW q \in Paths, Rename(p, q) PROVE Covered'
  <2>1. Editing /\ Notice({p}, {q}) /\ UNCHANGED <<remote, watching, batch, unread, changes, at>>
    BY <1>3 DEF Rename, syncVars
  <2>2. edits + 3 # 0
    BY DEF TypeOK
  <2>3. \A r \in Paths : r \in {p} \union {q} => (local'[r] = 0 <=> r \notin {q})
    BY <1>3, <2>2 DEF Rename, TypeOK
  <2>4. \A r \in Paths : r \notin {p} \union {q} => local'[r] = local[r]
    BY <1>3 DEF Rename, TypeOK
  <2>5. {p} \in SUBSET Paths /\ {q} \in SUBSET Paths
    OBVIOUS
  <2>6. QED
    BY <2>1, <2>3, <2>4, <2>5, EditCovered
<1>4. ASSUME Synced PROVE Covered'
  <2> SUFFICES ASSUME NEW p \in Paths \ missed
               PROVE  LastWord(p)'
    BY <1>4 DEF Synced, fileVars, Covered
  <2>1. LastWord(p) /\ at = "sync" /\ batch = <<>> /\ unread = {} /\ unsent = {} /\ ~failed
    BY <1>4 DEF Synced, Covered, Stages
  <2>2. UNCHANGED <<local, remote, queue, batch, unread>> /\ changes' = {}
    BY <1>4 DEF Synced, fileVars
  <2>3. p \notin Touched(batch) /\ p \notin Touched(batch')
    BY <2>1, <2>2, NoEvent
  <2>4. (\E c \in changes : c[1] = p) /\ <<p, local[p]>> \in changes => remote[p] = local[p]
    BY <2>1 DEF OneChangeEach
  <2>5. QED
    BY <2>1, <2>2, <2>3, <2>4 DEF LastWord, Touched, Deletes
<1>5. ASSUME Resend PROVE Covered'
  BY <1>5 DEF Resend, fileVars, syncVars, Covered, LastWord, Touched, Deletes, TypeOK, Stages, OneChangeEach
<1>6. ASSUME GiveUp PROVE Covered'
  BY <1>6 DEF GiveUp, fileVars, syncVars, Covered, LastWord, Touched, Deletes, TypeOK, Stages, OneChangeEach
<1>7. ASSUME NEW c \in unsent, Send(c) PROVE Covered'
  BY <1>7 DEF Send, fileVars, syncVars, Covered, LastWord, Touched, Deletes, TypeOK, Stages, OneChangeEach
<1>8. ASSUME NEW c \in unsent, SendFails(c) PROVE Covered'
  BY <1>8 DEF SendFails, fileVars, syncVars, Covered, LastWord, Touched, Deletes, TypeOK, Stages, OneChangeEach
<1>9. ASSUME CreateTheme PROVE Covered'
  BY <1>9 DEF CreateTheme, fileVars, syncVars, Covered, LastWord, Touched, Deletes, TypeOK, Stages, OneChangeEach
<1>10. ASSUME InitialSync PROVE Covered'
  BY <1>10 DEF InitialSync, StartSync, fileVars, syncVars, Covered, LastWord, Touched, Deletes, TypeOK, Stages, OneChangeEach
<1>11. ASSUME Watch PROVE Covered'
  BY <1>11 DEF Watch, fileVars, syncVars, Covered, LastWord, Touched, Deletes, TypeOK, Stages, OneChangeEach
<1>12. ASSUME FirstEvent PROVE Covered'
  <2> SUFFICES ASSUME NEW p \in Paths \ missed
               PROVE  LastWord(p)'
    BY <1>12 DEF FirstEvent, fileVars, Covered
  <2>1. LastWord(p) /\ batch = <<>> /\ unread = {} /\ changes = {}
    BY <1>12 DEF FirstEvent, Covered, Stages
  <2>2. /\ UNCHANGED <<local, remote, unread, changes>>
        /\ queue' = Tail(queue) /\ batch' = <<Head(queue)>> /\ at' = "debounce"
    BY <1>12 DEF FirstEvent, fileVars, syncVars
  <2>3. /\ queue' \in Seq(Event) /\ batch' \in Seq(Event)
        /\ queue = batch' \o queue'
    BY <1>12, <2>2, HeadAndTail DEF FirstEvent, TypeOK
  <2>4. /\ Touched(queue) = Touched(batch') \union Touched(queue')
        /\ p \in Touched(queue') => (Deletes(queue, p) <=> Deletes(queue', p))
        /\ p \notin Touched(queue') => (Deletes(queue, p) <=> Deletes(batch', p))
    BY <2>3, TouchedByBoth, LastDecides
  <2>5. p \notin Touched(batch)
    BY <2>1, NoEvent
  <2>6. QED
    BY <2>1, <2>2, <2>4, <2>5 DEF LastWord, Touched, Deletes
<1>13. ASSUME Drain PROVE Covered'
  <2> SUFFICES ASSUME NEW p \in Paths \ missed
               PROVE  LastWord(p)'
    BY <1>13 DEF Drain, fileVars, Covered
  <2>1. LastWord(p) /\ changes = {} /\ at = "debounce"
    BY <1>13 DEF Drain, Covered, Stages
  <2>2. /\ UNCHANGED <<local, remote, changes>>
        /\ queue' = <<>> /\ batch' = batch \o queue /\ unread' = Touched(batch')
    BY <1>13 DEF Drain, fileVars, syncVars
  <2>3. /\ Touched(batch') = Touched(batch) \union Touched(queue)
        /\ p \in Touched(queue) => (Deletes(batch', p) <=> Deletes(queue, p))
        /\ p \notin Touched(queue) => (Deletes(batch', p) <=> Deletes(batch, p))
    BY <2>2, TouchedByBoth, LastDecides DEF TypeOK
  <2>4. p \notin Touched(queue')
    BY <2>2, NoEvent
  <2>5. QED
    BY <2>1, <2>2, <2>3, <2>4 DEF LastWord, Touched, Deletes
<1>14. ASSUME Push PROVE Covered'
  BY <1>14 DEF Push, StartSync, fileVars, syncVars, Covered, LastWord, Touched, Deletes, TypeOK, Stages, OneChangeEach
<1>15. ASSUME NothingToPush PROVE Covered'
  BY <1>15 DEF NothingToPush, fileVars, syncVars, Covered, LastWord, Touched, Deletes, TypeOK, Stages, OneChangeEach
<1>16. ASSUME NEW p \in Paths, ScanFile(p) PROVE Covered'
  BY <1>16 DEF ScanFile, fileVars, syncVars, Covered, LastWord, Touched, Deletes, TypeOK, Stages, OneChangeEach
<1>17. ASSUME NEW p \in Paths, ReadPath(p) PROVE Covered'
  <2>1. UNCHANGED <<local, remote, queue, batch, at>> /\ unread' = unread \ {p} /\ p \in unread
    BY <1>17 DEF ReadPath
  <2>2. missed \subseteq missed' /\ watching /\ at = "read" /\ p \in Touched(batch)
    BY <1>17 DEF ReadPath, Stages
  <2> SUFFICES ASSUME NEW r \in Paths \ missed'
               PROVE  LastWord(r)'
    BY DEF Covered
  <2>3. LastWord(r)
    BY <2>2, <1>17 DEF Covered, ReadPath
  <2>4. CASE r # p
    <3>1. \A v : (<<r, local[r]>> \in changes \union {<<p, v>>} <=> <<r, local[r]>> \in changes)
      BY <2>4
    <3>2. \A v : (\E c \in changes \union {<<p, v>>} : c[1] = r) <=> \E c \in changes : c[1] = r
      BY <2>4
    <3>3. (\E c \in changes' : c[1] = r) <=> \E c \in changes : c[1] = r
      BY <1>17, <3>2 DEF ReadPath
    <3>4. <<r, local[r]>> \in changes' <=> <<r, local[r]>> \in changes
      BY <1>17, <3>1 DEF ReadPath
    <3>5. r \in unread' <=> r \in unread
      BY <2>1, <2>4
    <3>6. QED
      BY <2>1, <2>3, <3>3, <3>4, <3>5 DEF LastWord, Touched, Deletes
  <2>5. CASE r = p /\ p \in Touched(queue)
    BY <2>1, <2>3, <2>5 DEF LastWord, Touched, Deletes
  <2>6. CASE r = p /\ p \notin Touched(queue)
    <3>1. Deletes(batch, p) <=> local[p] = 0
      BY <2>1, <2>2, <2>3, <2>6 DEF LastWord
    <3>2. p \notin missed'
      BY <2>6
    <3>3. \/ Deletes(batch, p) /\ changes' = changes \union {<<p, 0>>}
          \/ ~Deletes(batch, p) /\ changes' = changes \union {<<p, local[p]>>}
      BY <1>17, <2>6, <3>1, <3>2 DEF ReadPath
    <3>4. <<p, local[p]>> \in changes' /\ local' = local
      BY <2>1, <3>1, <3>3
    <3>5. \E c \in changes' : c[1] = p
      BY <3>4
    <3>6. p \notin Touched(queue') /\ p \notin unread' /\ at' # "debounce"
      BY <2>1, <2>2, <2>6 DEF Touched
    <3>7. QED
      BY <2>6, <3>4, <3>5, <3>6 DEF LastWord
  <2>7. QED
    BY <2>4, <2>5, <2>6
<1>18. ASSUME CleanUp PROVE Covered'
  BY <1>18 DEF CleanUp, fileVars, syncVars, Covered, LastWord, Touched, Deletes, TypeOK, Stages, OneChangeEach
<1>19. ASSUME Error PROVE Covered'
  BY <1>19 DEF Error, fileVars, syncVars, Covered, LastWord, Touched, Deletes, TypeOK, Stages, OneChangeEach
<1>20. ASSUME Interrupt PROVE Covered'
  BY <1>20 DEF Interrupt, fileVars, syncVars, Covered, LastWord, Touched, Deletes, TypeOK, Stages, OneChangeEach
<1>21. ASSUME UNCHANGED vars PROVE Covered'
  BY <1>21 DEF vars, fileVars, syncVars, Covered, LastWord, Touched, Deletes
<1>22. QED
    BY <1>1, <1>2, <1>3, <1>4, <1>5, <1>6, <1>7, <1>8, <1>9, <1>10, <1>11, <1>12, <1>13,
     <1>14, <1>15, <1>16, <1>17, <1>18, <1>19, <1>20, <1>21 DEF Next, Editor, Sync, Dev

(* The initial state, and every step, keep the invariant.                  *)
LEMMA NoChangeLostInit == Init => NoChangeLost
<1> SUFFICES ASSUME Init PROVE NoChangeLost
  OBVIOUS
<1>1. TypeOK
  <2>1. 0 \in Contents /\ 2 \in Contents /\ Foreign \in Contents
    BY DEF Contents, Foreign
  <2>2. local \in [Paths -> Contents] /\ remote \in [Paths -> Contents]
    BY <2>1 DEF Init
  <2>3. queue \in Seq(Event) /\ batch \in Seq(Event) /\ attempt \in 1..Attempts /\ edits \in 0..MaxEdits
    BY DEF Init, Attempts
  <2>4. at \in {"create", "scan"} /\ theme \in {"user", "none"}
    BY DEF Init
  <2>5. QED
    BY <2>2, <2>3, <2>4 DEF Init, TypeOK
<1>2. Stages /\ OneChangeEach /\ Covered
  BY DEF Init, Stages, OneChangeEach, Covered
<1>3. QED
  BY <1>1, <1>2 DEF NoChangeLost

LEMMA NoChangeLostStep == NoChangeLost /\ [Next]_vars => NoChangeLost'
BY TypeStep, StagesStep, ChangesStep, CoveredStep DEF NoChangeLost

(* Whatever the editor does, and however often a batch is sent again, the  *)
(* present state of every path not passed over is the last word about it,  *)
(* in the channel, in the batch, among the changes or in the theme.    *)
THEOREM NoChangeIsLost == Spec => []NoChangeLost
<1>1. QED
  BY NoChangeLostInit, NoChangeLostStep, PTL DEF Spec

(* The theme is created in one step, and disposed of in one; until there is *)
(* one to send to, nothing is sent.                                        *)
Disposed ==
  /\ at = "create" => theme = "none" /\ \A p \in Paths : remote[p] = 0
  /\ ThemeIsDeleted

(* Every step keeps that.                                                  *)
LEMMA DisposedStep == ASSUME Disposed, [Next]_vars PROVE Disposed'
BY DEF Disposed, ThemeIsDeleted, vars, fileVars, syncVars, Next, Editor, Write, Remove, Rename,
       Editing, Sync, Synced, Resend, GiveUp, Send, SendFails, Dev, CreateTheme, InitialSync,
       StartSync, Watch, FirstEvent, Drain, Push, NothingToPush, ScanFile, ReadPath, CleanUp, Error,
       Interrupt

(* A session that has ended, otherwise than by a kill, has deleted the     *)
(* theme whose creation was answered or tried to; a theme whose answer was *)
(* lost has received nothing.                                              *)
THEOREM CreatedThemeIsDeleted == Spec => []ThemeIsDeleted
<1>1. Init => Disposed
  BY DEF Init, Disposed, ThemeIsDeleted
<1>2. Disposed /\ [Next]_vars => Disposed'
  BY DisposedStep
<1>3. Disposed => ThemeIsDeleted
  BY DEF Disposed
<1>4. QED
  BY <1>1, <1>2, <1>3, PTL DEF Spec

=============================================================================
