--------------------------- MODULE MCThemeCommit ---------------------------
(***************************************************************************)
(* ThemeCommit for TLC: three downloaded files, at paths where there is    *)
(* nothing, a file or a directory in every combination.                    *)
(***************************************************************************)
EXTENDS ThemeCommit

CONSTANTS f1, f2, f3
=============================================================================
