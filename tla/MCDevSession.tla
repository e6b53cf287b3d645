---------------------------- MODULE MCDevSession ----------------------------
(***************************************************************************)
(* DevSession for TLC: a web server that may be restarted twice, a worker  *)
(* that may be restarted once, and a third component                      *)
(* with no restarts.                                                       *)
(***************************************************************************)
EXTENDS DevSession

CONSTANTS web, worker, extension

Budget == [c \in Components |-> CASE c = web -> 2 [] c = worker -> 1 [] OTHER -> 0]
=============================================================================
