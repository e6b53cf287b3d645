--------------------------- MODULE MCBuildPipeline ---------------------------
(***************************************************************************)
(* BuildPipeline for TLC: one process of the CLI, one extension.           *)
(***************************************************************************)
EXTENDS BuildPipeline

CONSTANTS p1, e1
=============================================================================
