-------------------------- MODULE MCSessionManager --------------------------
(***************************************************************************)
(* SessionManager for TLC: the clients c1 and c2 belong to the first cfy   *)
(* process, c3 to a second one.                                            *)
(***************************************************************************)
EXTENDS SessionManager

CONSTANTS c1, c2, c3, m1, m2

Owner == [c \in Clients |-> IF c = c3 THEN m2 ELSE m1]
=============================================================================
