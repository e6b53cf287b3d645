------------------------ MODULE MCProcessSupervisor ------------------------
(***************************************************************************)
(* ProcessSupervisor for TLC.  The callers of shutdown are interchangeable *)
(* and so are the children, when none is singled out by a constant.        *)
(***************************************************************************)
EXTENDS ProcessSupervisor, TLC

CONSTANTS p1, p2, s1, s2

Symmetry ==
  Permutations(Shutters) \union
    (IF {Inherits, Forking, Forwarded} \subseteq {{}, Procs} THEN Permutations(Procs) ELSE {})
=============================================================================
