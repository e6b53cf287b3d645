----------------------------- MODULE MCCommands -----------------------------
(***************************************************************************)
(* Commands for TLC: a deployment reconciles up to two modules whose uid,  *)
(* handle and configuration differ or agree, and app build has one builder *)
(* and two extensions.                                                     *)
(***************************************************************************)
EXTENDS Commands

CONSTANTS p1, e1, e2

M(n, u, h, c) == [n |-> n, uid |-> u, handle |-> h, conf |-> c]
Modules(n, confs) == {M(n, u, h, c) : u \in {"", "u"}, h \in {"h", "i"}, c \in confs}

(* At most two modules; two that look the same differ in n.                *)
Sets(confs) ==
  {S \in SUBSET Modules(1, confs) : Cardinality(S) <= 2}
  \union {{m, [m EXCEPT !.n = 2]} : m \in Modules(1, {1})}

(* The handles are alike, so that a module that is described has the one;  *)
(* of two active modules one has changed at most.                          *)
Described == {S \in Sets({1}) : S = {} \/ \E m \in S : m.handle = "h"}
Active == {S \in Sets({1, 2}) : Cardinality(S) = 2 => \E m \in S : m.conf = 1}
Half == {M(0, "", "torn", 0)}
Other == {M(0, "", "other", 0)}
Beside == {{M(0, "", "beside", 0)}}

Options ==
  LET ask == [release |-> TRUE, noBuild |-> FALSE, updates |-> FALSE, deletes |-> FALSE,
              prompt |-> TRUE]
  IN {ask, [ask EXCEPT !.noBuild = TRUE]}
     \union {[ask EXCEPT !.prompt = FALSE, !.updates = u, !.deletes = d, !.release = ~(u /\ d)] : u, d \in BOOLEAN}
=============================================================================
