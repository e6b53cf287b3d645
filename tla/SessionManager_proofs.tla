----------------------- MODULE SessionManager_proofs -----------------------
(***************************************************************************)
(* Theorems about SessionManager, for any number of clients and managers   *)
(* and any bound on the generations.  The lock needs no assumption; that   *)
(* no session is exchanged twice holds where no legacy entry is migrated.  *)
(***************************************************************************)
EXTENDS SessionManager, TLAPS

USE SessionAssumption DEF Gen, Loading, PC, MustHold

(* Every step keeps the types.                                             *)
LEMMA TypeStep ==
  ASSUME TypeOK, [Next]_vars
  PROVE  TypeOK'
<1> USE DEF TypeOK
<1>1. ASSUME NEW c \in Clients, StartSession(c) PROVE TypeOK'
  BY <1>1 DEF StartSession, Goto
<1>2. ASSUME NEW c \in Clients, ReadEntry(c) PROVE TypeOK'
  BY <1>2 DEF ReadEntry
<1>3. ASSUME NEW c \in Clients, ReadLegacy(c) PROVE TypeOK'
  BY <1>3 DEF ReadLegacy
<1>4. ASSUME NEW c \in Clients, SetEntry(c) PROVE TypeOK'
  BY <1>4 DEF SetEntry, Goto
<1>5. ASSUME NEW c \in Clients, DropLegacy(c) PROVE TypeOK'
  BY <1>5 DEF DropLegacy, Goto
<1>6. ASSUME NEW c \in Clients, LoadFails(c) PROVE TypeOK'
  BY <1>6 DEF LoadFails, Return
<1>7. ASSUME NEW c \in Clients, Answer(c) PROVE TypeOK'
  BY <1>7 DEF Answer, Return
<1>8. ASSUME NEW c \in Clients, WantLock(c) PROVE TypeOK'
  BY <1>8 DEF WantLock, Goto
<1>9. ASSUME NEW c \in Clients, Acquire(c) PROVE TypeOK'
  BY <1>9 DEF Acquire, Goto
<1>10. ASSUME NEW c \in Clients, StartRefresh(c) PROVE TypeOK'
  BY <1>10 DEF StartRefresh, Goto
<1>11. ASSUME NEW c \in Clients, Exchange(c) PROVE TypeOK'
  BY <1>11 DEF Exchange, Goto
<1>12. ASSUME NEW c \in Clients, RefreshFails(c) PROVE TypeOK'
  BY <1>12 DEF RefreshFails, Return
<1>13. ASSUME NEW c \in Clients, Save(c) PROVE TypeOK'
  BY <1>13 DEF Save, Return
<1>14. ASSUME NEW c \in Clients, SaveFails(c) PROVE TypeOK'
  BY <1>14 DEF SaveFails, Return
<1>15. ASSUME NEW c \in Clients, LoginGranted(c) PROVE TypeOK'
  BY <1>15 DEF LoginGranted, Goto
<1>16. ASSUME NEW c \in Clients, SaveLogin(c) PROVE TypeOK'
  BY <1>16 DEF SaveLogin, Return
<1>17. ASSUME NEW c \in Clients, Logout(c) PROVE TypeOK'
  BY <1>17 DEF Logout
<1>18. ASSUME NEW g \in Gen, Expire(g) PROVE TypeOK'
  BY <1>18 DEF Expire
<1>19. CASE UNCHANGED vars
  BY <1>19 DEF vars
<1>20. QED
  BY <1>1, <1>2, <1>3, <1>4, <1>5, <1>6, <1>7, <1>8, <1>9, <1>10, <1>11, <1>12, <1>13, <1>14, <1>15, <1>16, <1>17, <1>18, <1>19 DEF Next, Load, Refresh

(* The lock has one holder per manager, and only holders refresh.          *)
LEMMA FlightStep ==
  ASSUME TypeOK, SingleFlight, [Next]_vars
  PROVE  SingleFlight'
<1> USE DEF TypeOK, SingleFlight
<1>1. ASSUME NEW c \in Clients, StartSession(c) PROVE SingleFlight'
  BY <1>1 DEF StartSession, Goto
<1>2. ASSUME NEW c \in Clients, ReadEntry(c) PROVE SingleFlight'
  BY <1>2 DEF ReadEntry
<1>3. ASSUME NEW c \in Clients, ReadLegacy(c) PROVE SingleFlight'
  BY <1>3 DEF ReadLegacy
<1>4. ASSUME NEW c \in Clients, SetEntry(c) PROVE SingleFlight'
  BY <1>4 DEF SetEntry, Goto
<1>5. ASSUME NEW c \in Clients, DropLegacy(c) PROVE SingleFlight'
  BY <1>5 DEF DropLegacy, Goto
<1>6. ASSUME NEW c \in Clients, LoadFails(c) PROVE SingleFlight'
  BY <1>6 DEF LoadFails, Return
<1>7. ASSUME NEW c \in Clients, Answer(c) PROVE SingleFlight'
  BY <1>7 DEF Answer, Return
<1>8. ASSUME NEW c \in Clients, WantLock(c) PROVE SingleFlight'
  BY <1>8 DEF WantLock, Goto
<1>9. ASSUME NEW c \in Clients, Acquire(c) PROVE SingleFlight'
  BY <1>9 DEF Acquire, Goto, LockIsFree
<1>10. ASSUME NEW c \in Clients, StartRefresh(c) PROVE SingleFlight'
  BY <1>10 DEF StartRefresh, Goto
<1>11. ASSUME NEW c \in Clients, Exchange(c) PROVE SingleFlight'
  BY <1>11 DEF Exchange, Goto
<1>12. ASSUME NEW c \in Clients, RefreshFails(c) PROVE SingleFlight'
  BY <1>12 DEF RefreshFails, Return
<1>13. ASSUME NEW c \in Clients, Save(c) PROVE SingleFlight'
  BY <1>13 DEF Save, Return
<1>14. ASSUME NEW c \in Clients, SaveFails(c) PROVE SingleFlight'
  BY <1>14 DEF SaveFails, Return
<1>15. ASSUME NEW c \in Clients, LoginGranted(c) PROVE SingleFlight'
  BY <1>15 DEF LoginGranted, Goto
<1>16. ASSUME NEW c \in Clients, SaveLogin(c) PROVE SingleFlight'
  BY <1>16 DEF SaveLogin, Return
<1>17. ASSUME NEW c \in Clients, Logout(c) PROVE SingleFlight'
  BY <1>17 DEF Logout
<1>18. ASSUME NEW g \in Gen, Expire(g) PROVE SingleFlight'
  BY <1>18 DEF Expire
<1>19. CASE UNCHANGED vars
  BY <1>19 DEF vars
<1>20. QED
  BY <1>1, <1>2, <1>3, <1>4, <1>5, <1>6, <1>7, <1>8, <1>9, <1>10, <1>11, <1>12, <1>13, <1>14, <1>15, <1>16, <1>17, <1>18, <1>19 DEF Next, Load, Refresh

(* Without a legacy entry a load is one step.                              *)
LEMMA MigrationStep ==
  ASSUME TypeOK, hadLegacy = 0, NoMigration, [Next]_vars
  PROVE  NoMigration'
<1> USE DEF TypeOK, NoMigration
<1>1. ASSUME NEW c \in Clients, StartSession(c) PROVE NoMigration'
  BY <1>1 DEF StartSession, Goto
<1>2. ASSUME NEW c \in Clients, ReadEntry(c) PROVE NoMigration'
  BY <1>2 DEF ReadEntry
<1>3. ASSUME NEW c \in Clients, ReadLegacy(c) PROVE NoMigration'
  BY <1>3 DEF ReadLegacy
<1>4. ASSUME NEW c \in Clients, SetEntry(c) PROVE NoMigration'
  BY <1>4 DEF SetEntry, Goto
<1>5. ASSUME NEW c \in Clients, DropLegacy(c) PROVE NoMigration'
  BY <1>5 DEF DropLegacy, Goto
<1>6. ASSUME NEW c \in Clients, LoadFails(c) PROVE NoMigration'
  BY <1>6 DEF LoadFails, Return
<1>7. ASSUME NEW c \in Clients, Answer(c) PROVE NoMigration'
  BY <1>7 DEF Answer, Return
<1>8. ASSUME NEW c \in Clients, WantLock(c) PROVE NoMigration'
  BY <1>8 DEF WantLock, Goto
<1>9. ASSUME NEW c \in Clients, Acquire(c) PROVE NoMigration'
  BY <1>9 DEF Acquire, Goto
<1>10. ASSUME NEW c \in Clients, StartRefresh(c) PROVE NoMigration'
  BY <1>10 DEF StartRefresh, Goto
<1>11. ASSUME NEW c \in Clients, Exchange(c) PROVE NoMigration'
  BY <1>11 DEF Exchange, Goto
<1>12. ASSUME NEW c \in Clients, RefreshFails(c) PROVE NoMigration'
  BY <1>12 DEF RefreshFails, Return
<1>13. ASSUME NEW c \in Clients, Save(c) PROVE NoMigration'
  BY <1>13 DEF Save, Return
<1>14. ASSUME NEW c \in Clients, SaveFails(c) PROVE NoMigration'
  BY <1>14 DEF SaveFails, Return
<1>15. ASSUME NEW c \in Clients, LoginGranted(c) PROVE NoMigration'
  BY <1>15 DEF LoginGranted, Goto
<1>16. ASSUME NEW c \in Clients, SaveLogin(c) PROVE NoMigration'
  BY <1>16 DEF SaveLogin, Return
<1>17. ASSUME NEW c \in Clients, Logout(c) PROVE NoMigration'
  BY <1>17 DEF Logout
<1>18. ASSUME NEW g \in Gen, Expire(g) PROVE NoMigration'
  BY <1>18 DEF Expire
<1>19. CASE UNCHANGED vars
  BY <1>19 DEF vars
<1>20. QED
  BY <1>1, <1>2, <1>3, <1>4, <1>5, <1>6, <1>7, <1>8, <1>9, <1>10, <1>11, <1>12, <1>13, <1>14, <1>15, <1>16, <1>17, <1>18, <1>19 DEF Next, Load, Refresh

(* No generation is known before it is issued.                             *)
LEMMA BoundStep ==
  ASSUME TypeOK, NoMigration, IssuedBound, [Next]_vars
  PROVE  IssuedBound'
<1> USE DEF TypeOK, NoMigration, IssuedBound
<1>1. ASSUME NEW c \in Clients, StartSession(c) PROVE IssuedBound'
  BY <1>1 DEF StartSession, Goto
<1>2. ASSUME NEW c \in Clients, ReadEntry(c) PROVE IssuedBound'
  BY <1>2 DEF ReadEntry
<1>3. ASSUME NEW c \in Clients, ReadLegacy(c) PROVE IssuedBound'
  BY <1>3 DEF ReadLegacy
<1>4. ASSUME NEW c \in Clients, SetEntry(c) PROVE IssuedBound'
  BY <1>4 DEF SetEntry, Goto
<1>5. ASSUME NEW c \in Clients, DropLegacy(c) PROVE IssuedBound'
  BY <1>5 DEF DropLegacy, Goto
<1>6. ASSUME NEW c \in Clients, LoadFails(c) PROVE IssuedBound'
  BY <1>6 DEF LoadFails, Return
<1>7. ASSUME NEW c \in Clients, Answer(c) PROVE IssuedBound'
  BY <1>7 DEF Answer, Return
<1>8. ASSUME NEW c \in Clients, WantLock(c) PROVE IssuedBound'
  BY <1>8 DEF WantLock, Goto
<1>9. ASSUME NEW c \in Clients, Acquire(c) PROVE IssuedBound'
  BY <1>9 DEF Acquire, Goto
<1>10. ASSUME NEW c \in Clients, StartRefresh(c) PROVE IssuedBound'
  BY <1>10 DEF StartRefresh, Goto
<1>11. ASSUME NEW c \in Clients, Exchange(c) PROVE IssuedBound'
  BY <1>11 DEF Exchange, Goto
<1>12. ASSUME NEW c \in Clients, RefreshFails(c) PROVE IssuedBound'
  BY <1>12 DEF RefreshFails, Return
<1>13. ASSUME NEW c \in Clients, Save(c) PROVE IssuedBound'
  BY <1>13 DEF Save, Return
<1>14. ASSUME NEW c \in Clients, SaveFails(c) PROVE IssuedBound'
  BY <1>14 DEF SaveFails, Return
<1>15. ASSUME NEW c \in Clients, LoginGranted(c) PROVE IssuedBound'
  BY <1>15 DEF LoginGranted, Goto
<1>16. ASSUME NEW c \in Clients, SaveLogin(c) PROVE IssuedBound'
  BY <1>16 DEF SaveLogin, Return
<1>17. ASSUME NEW c \in Clients, Logout(c) PROVE IssuedBound'
  BY <1>17 DEF Logout
<1>18. ASSUME NEW g \in Gen, Expire(g) PROVE IssuedBound'
  BY <1>18 DEF Expire
<1>19. CASE UNCHANGED vars
  BY <1>19 DEF vars
<1>20. QED
  BY <1>1, <1>2, <1>3, <1>4, <1>5, <1>6, <1>7, <1>8, <1>9, <1>10, <1>11, <1>12, <1>13, <1>14, <1>15, <1>16, <1>17, <1>18, <1>19 DEF Next, Load, Refresh

(* What a client has been issued stays its own until it is saved.          *)
LEMMA FreshStep ==
  ASSUME TypeOK, NoMigration, IssuedBound, FreshIsUnknown, [Next]_vars
  PROVE  FreshIsUnknown'
<1> USE DEF TypeOK, NoMigration, IssuedBound, FreshIsUnknown
<1>1. ASSUME NEW c \in Clients, StartSession(c) PROVE FreshIsUnknown'
  BY <1>1 DEF StartSession, Goto
<1>2. ASSUME NEW c \in Clients, ReadEntry(c) PROVE FreshIsUnknown'
  BY <1>2 DEF ReadEntry
<1>3. ASSUME NEW c \in Clients, ReadLegacy(c) PROVE FreshIsUnknown'
  BY <1>3 DEF ReadLegacy
<1>4. ASSUME NEW c \in Clients, SetEntry(c) PROVE FreshIsUnknown'
  BY <1>4 DEF SetEntry, Goto
<1>5. ASSUME NEW c \in Clients, DropLegacy(c) PROVE FreshIsUnknown'
  BY <1>5 DEF DropLegacy, Goto
<1>6. ASSUME NEW c \in Clients, LoadFails(c) PROVE FreshIsUnknown'
  BY <1>6 DEF LoadFails, Return
<1>7. ASSUME NEW c \in Clients, Answer(c) PROVE FreshIsUnknown'
  BY <1>7 DEF Answer, Return
<1>8. ASSUME NEW c \in Clients, WantLock(c) PROVE FreshIsUnknown'
  BY <1>8 DEF WantLock, Goto
<1>9. ASSUME NEW c \in Clients, Acquire(c) PROVE FreshIsUnknown'
  BY <1>9 DEF Acquire, Goto
<1>10. ASSUME NEW c \in Clients, StartRefresh(c) PROVE FreshIsUnknown'
  BY <1>10 DEF StartRefresh, Goto
<1>11. ASSUME NEW c \in Clients, Exchange(c) PROVE FreshIsUnknown'
  BY <1>11 DEF Exchange, Goto
<1>12. ASSUME NEW c \in Clients, RefreshFails(c) PROVE FreshIsUnknown'
  BY <1>12 DEF RefreshFails, Return
<1>13. ASSUME NEW c \in Clients, Save(c) PROVE FreshIsUnknown'
  BY <1>13 DEF Save, Return
<1>14. ASSUME NEW c \in Clients, SaveFails(c) PROVE FreshIsUnknown'
  BY <1>14 DEF SaveFails, Return
<1>15. ASSUME NEW c \in Clients, LoginGranted(c) PROVE FreshIsUnknown'
  BY <1>15 DEF LoginGranted, Goto
<1>16. ASSUME NEW c \in Clients, SaveLogin(c) PROVE FreshIsUnknown'
  BY <1>16 DEF SaveLogin, Return
<1>17. ASSUME NEW c \in Clients, Logout(c) PROVE FreshIsUnknown'
  BY <1>17 DEF Logout
<1>18. ASSUME NEW g \in Gen, Expire(g) PROVE FreshIsUnknown'
  BY <1>18 DEF Expire
<1>19. CASE UNCHANGED vars
  BY <1>19 DEF vars
<1>20. QED
  BY <1>1, <1>2, <1>3, <1>4, <1>5, <1>6, <1>7, <1>8, <1>9, <1>10, <1>11, <1>12, <1>13, <1>14, <1>15, <1>16, <1>17, <1>18, <1>19 DEF Next, Load, Refresh

(* A saved successor retires a generation for its manager: the entry never *)
(* returns to it, and no other holder of the lock has it in hand.          *)
LEMMA SuccessorStep ==
  ASSUME TypeOK, SingleFlight, NoMigration, IssuedBound, FreshIsUnknown, NotSucceeded,
         [Next]_vars
  PROVE  NotSucceeded'
<1> USE DEF TypeOK, SingleFlight, NoMigration, IssuedBound, FreshIsUnknown, NotSucceeded
<1>1. ASSUME NEW c \in Clients, StartSession(c) PROVE NotSucceeded'
  BY <1>1 DEF StartSession, Goto
<1>2. ASSUME NEW c \in Clients, ReadEntry(c) PROVE NotSucceeded'
  BY <1>2 DEF ReadEntry
<1>3. ASSUME NEW c \in Clients, ReadLegacy(c) PROVE NotSucceeded'
  BY <1>3 DEF ReadLegacy
<1>4. ASSUME NEW c \in Clients, SetEntry(c) PROVE NotSucceeded'
  BY <1>4 DEF SetEntry, Goto
<1>5. ASSUME NEW c \in Clients, DropLegacy(c) PROVE NotSucceeded'
  BY <1>5 DEF DropLegacy, Goto
<1>6. ASSUME NEW c \in Clients, LoadFails(c) PROVE NotSucceeded'
  BY <1>6 DEF LoadFails, Return
<1>7. ASSUME NEW c \in Clients, Answer(c) PROVE NotSucceeded'
  BY <1>7 DEF Answer, Return
<1>8. ASSUME NEW c \in Clients, WantLock(c) PROVE NotSucceeded'
  BY <1>8 DEF WantLock, Goto
<1>9. ASSUME NEW c \in Clients, Acquire(c) PROVE NotSucceeded'
  BY <1>9 DEF Acquire, Goto
<1>10. ASSUME NEW c \in Clients, StartRefresh(c) PROVE NotSucceeded'
  BY <1>10 DEF StartRefresh, Goto
<1>11. ASSUME NEW c \in Clients, Exchange(c) PROVE NotSucceeded'
  BY <1>11 DEF Exchange, Goto
<1>12. ASSUME NEW c \in Clients, RefreshFails(c) PROVE NotSucceeded'
  BY <1>12 DEF RefreshFails, Return
<1>13. ASSUME NEW c \in Clients, Save(c) PROVE NotSucceeded'
  BY <1>13 DEF Save, Return
<1>14. ASSUME NEW c \in Clients, SaveFails(c) PROVE NotSucceeded'
  BY <1>14 DEF SaveFails, Return
<1>15. ASSUME NEW c \in Clients, LoginGranted(c) PROVE NotSucceeded'
  BY <1>15 DEF LoginGranted, Goto
<1>16. ASSUME NEW c \in Clients, SaveLogin(c) PROVE NotSucceeded'
  BY <1>16 DEF SaveLogin, Return
<1>17. ASSUME NEW c \in Clients, Logout(c) PROVE NotSucceeded'
  BY <1>17 DEF Logout
<1>18. ASSUME NEW g \in Gen, Expire(g) PROVE NotSucceeded'
  BY <1>18 DEF Expire
<1>19. CASE UNCHANGED vars
  BY <1>19 DEF vars
<1>20. QED
  BY <1>1, <1>2, <1>3, <1>4, <1>5, <1>6, <1>7, <1>8, <1>9, <1>10, <1>11, <1>12, <1>13, <1>14, <1>15, <1>16, <1>17, <1>18, <1>19 DEF Next, Load, Refresh

(* What is about to be stored stays a session.                             *)
LEMMA InHandStep ==
  ASSUME TypeOK, InHand, [Next]_vars
  PROVE  InHand'
<1> USE DEF TypeOK, InHand
<1>1. ASSUME NEW c \in Clients, StartSession(c) PROVE InHand'
  BY <1>1 DEF StartSession, Goto
<1>2. ASSUME NEW c \in Clients, ReadEntry(c) PROVE InHand'
  BY <1>2 DEF ReadEntry
<1>3. ASSUME NEW c \in Clients, ReadLegacy(c) PROVE InHand'
  BY <1>3 DEF ReadLegacy
<1>4. ASSUME NEW c \in Clients, SetEntry(c) PROVE InHand'
  BY <1>4 DEF SetEntry, Goto
<1>5. ASSUME NEW c \in Clients, DropLegacy(c) PROVE InHand'
  BY <1>5 DEF DropLegacy, Goto
<1>6. ASSUME NEW c \in Clients, LoadFails(c) PROVE InHand'
  BY <1>6 DEF LoadFails, Return
<1>7. ASSUME NEW c \in Clients, Answer(c) PROVE InHand'
  BY <1>7 DEF Answer, Return
<1>8. ASSUME NEW c \in Clients, WantLock(c) PROVE InHand'
  BY <1>8 DEF WantLock, Goto
<1>9. ASSUME NEW c \in Clients, Acquire(c) PROVE InHand'
  BY <1>9 DEF Acquire, Goto
<1>10. ASSUME NEW c \in Clients, StartRefresh(c) PROVE InHand'
  BY <1>10 DEF StartRefresh, Goto
<1>11. ASSUME NEW c \in Clients, Exchange(c) PROVE InHand'
  BY <1>11 DEF Exchange, Goto
<1>12. ASSUME NEW c \in Clients, RefreshFails(c) PROVE InHand'
  BY <1>12 DEF RefreshFails, Return
<1>13. ASSUME NEW c \in Clients, Save(c) PROVE InHand'
  BY <1>13 DEF Save, Return
<1>14. ASSUME NEW c \in Clients, SaveFails(c) PROVE InHand'
  BY <1>14 DEF SaveFails, Return
<1>15. ASSUME NEW c \in Clients, LoginGranted(c) PROVE InHand'
  BY <1>15 DEF LoginGranted, Goto
<1>16. ASSUME NEW c \in Clients, SaveLogin(c) PROVE InHand'
  BY <1>16 DEF SaveLogin, Return
<1>17. ASSUME NEW c \in Clients, Logout(c) PROVE InHand'
  BY <1>17 DEF Logout
<1>18. ASSUME NEW g \in Gen, Expire(g) PROVE InHand'
  BY <1>18 DEF Expire
<1>19. CASE UNCHANGED vars
  BY <1>19 DEF vars
<1>20. QED
  BY <1>1, <1>2, <1>3, <1>4, <1>5, <1>6, <1>7, <1>8, <1>9, <1>10, <1>11, <1>12, <1>13, <1>14, <1>15, <1>16, <1>17, <1>18, <1>19 DEF Next, Load, Refresh

(* No step but a logout leaves the identity without a stored session.      *)
LEMMA KeptStep ==
  ASSUME TypeOK, InHand, SessionIsKept, [Next]_vars
  PROVE  SessionIsKept'
<1> USE DEF TypeOK, InHand, SessionIsKept
<1>1. ASSUME NEW c \in Clients, StartSession(c) PROVE SessionIsKept'
  BY <1>1 DEF StartSession, Goto
<1>2. ASSUME NEW c \in Clients, ReadEntry(c) PROVE SessionIsKept'
  BY <1>2 DEF ReadEntry
<1>3. ASSUME NEW c \in Clients, ReadLegacy(c) PROVE SessionIsKept'
  BY <1>3 DEF ReadLegacy
<1>4. ASSUME NEW c \in Clients, SetEntry(c) PROVE SessionIsKept'
  BY <1>4 DEF SetEntry, Goto
<1>5. ASSUME NEW c \in Clients, DropLegacy(c) PROVE SessionIsKept'
  BY <1>5 DEF DropLegacy, Goto
<1>6. ASSUME NEW c \in Clients, LoadFails(c) PROVE SessionIsKept'
  BY <1>6 DEF LoadFails, Return
<1>7. ASSUME NEW c \in Clients, Answer(c) PROVE SessionIsKept'
  BY <1>7 DEF Answer, Return
<1>8. ASSUME NEW c \in Clients, WantLock(c) PROVE SessionIsKept'
  BY <1>8 DEF WantLock, Goto
<1>9. ASSUME NEW c \in Clients, Acquire(c) PROVE SessionIsKept'
  BY <1>9 DEF Acquire, Goto
<1>10. ASSUME NEW c \in Clients, StartRefresh(c) PROVE SessionIsKept'
  BY <1>10 DEF StartRefresh, Goto
<1>11. ASSUME NEW c \in Clients, Exchange(c) PROVE SessionIsKept'
  BY <1>11 DEF Exchange, Goto
<1>12. ASSUME NEW c \in Clients, RefreshFails(c) PROVE SessionIsKept'
  BY <1>12 DEF RefreshFails, Return
<1>13. ASSUME NEW c \in Clients, Save(c) PROVE SessionIsKept'
  BY <1>13 DEF Save, Return
<1>14. ASSUME NEW c \in Clients, SaveFails(c) PROVE SessionIsKept'
  BY <1>14 DEF SaveFails, Return
<1>15. ASSUME NEW c \in Clients, LoginGranted(c) PROVE SessionIsKept'
  BY <1>15 DEF LoginGranted, Goto
<1>16. ASSUME NEW c \in Clients, SaveLogin(c) PROVE SessionIsKept'
  BY <1>16 DEF SaveLogin, Return
<1>17. ASSUME NEW c \in Clients, Logout(c) PROVE SessionIsKept'
  BY <1>17 DEF Logout
<1>18. ASSUME NEW g \in Gen, Expire(g) PROVE SessionIsKept'
  BY <1>18 DEF Expire
<1>19. CASE UNCHANGED vars
  BY <1>19 DEF vars
<1>20. QED
  BY <1>1, <1>2, <1>3, <1>4, <1>5, <1>6, <1>7, <1>8, <1>9, <1>10, <1>11, <1>12, <1>13, <1>14, <1>15, <1>16, <1>17, <1>18, <1>19 DEF Next, Load, Refresh

(* Whether there was a legacy entry at first does not change.              *)
LEMMA OriginStep == ASSUME [Next]_vars PROVE hadLegacy' = hadLegacy
  BY DEF Next, Load, Refresh, StartSession, ReadEntry, ReadLegacy, SetEntry, DropLegacy,
         LoadFails, Answer, WantLock, Acquire, StartRefresh, Exchange, RefreshFails, Save,
         SaveFails, LoginGranted, SaveLogin, Logout, Expire, vars

(* SInv holds in every reachable state.                                    *)
THEOREM SessionInvariance == Spec => []SInv
<1>1. Init => SInv
  <2> SUFFICES ASSUME Init PROVE SInv
    OBVIOUS
  <2>1. TypeOK
    <3>1. entry \in {0, 1} /\ legacy \in {0, 1} /\ 1 \in Gen
      BY DEF Init
    <3>2. expired \in SUBSET Gen
      BY <3>1 DEF Init
    <3>3. QED
      BY <3>1, <3>2 DEF Init, TypeOK
  <2>2. SingleFlight /\ InHand /\ NoMigration
    BY DEF Init, SingleFlight, InHand, NoMigration
  <2>3. IssuedBound
    BY DEF Init, IssuedBound
  <2>4. FreshIsUnknown /\ NotSucceeded
    BY DEF Init, FreshIsUnknown, NotSucceeded
  <2>5. QED
    BY <2>1, <2>2, <2>3, <2>4 DEF SInv
<1>2. SInv /\ [Next]_vars => SInv'
  <2> SUFFICES ASSUME SInv, [Next]_vars PROVE SInv'
    OBVIOUS
  <2>1. TypeOK' /\ SingleFlight' /\ InHand'
    BY TypeStep, FlightStep, InHandStep DEF SInv
  <2>2. CASE hadLegacy = 0
    BY <2>1, <2>2, OriginStep, MigrationStep, BoundStep, FreshStep, SuccessorStep DEF SInv
  <2>3. CASE hadLegacy # 0
    BY <2>1, <2>3, OriginStep DEF SInv
  <2>4. QED
    BY <2>2, <2>3
<1>3. QED
  BY <1>1, <1>2, PTL DEF Spec

(* Refresh is single-flight within a manager.                              *)
THEOREM RefreshIsSingleFlight == Spec => []SingleFlight
<1>1. SInv => SingleFlight
  BY DEF SInv
<1>2. QED
  BY SessionInvariance, <1>1, PTL

(* Without a legacy entry no manager exchanges a session whose successor   *)
(* it has saved.                                                           *)
THEOREM NobodyExchangesTwice == Spec => []NoSecondExchange
<1>1. SInv => NoSecondExchange
  BY DEF SInv, SingleFlight, NotSucceeded, NoSecondExchange, ExchangedOnce
<1>2. QED
  BY SessionInvariance, <1>1, PTL

(* Wherever a migration, a refresh or a save stops half way, a session     *)
(* stays stored until the identity logs out.                               *)
THEOREM ASessionIsKept == Spec => []SessionIsKept
<1>1. Init => SessionIsKept
  BY DEF Init, SessionIsKept
<1>2. SInv /\ SessionIsKept /\ [Next]_vars => SessionIsKept'
  BY KeptStep DEF SInv
<1>3. QED
  BY <1>1, <1>2, SessionInvariance, PTL DEF Spec

=============================================================================
