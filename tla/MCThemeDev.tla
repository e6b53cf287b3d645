----------------------------- MODULE MCThemeDev -----------------------------
(***************************************************************************)
(* ThemeDev for TLC: two asset paths and three things the editor does.     *)
(***************************************************************************)
EXTENDS ThemeDev

CONSTANTS a, b
=============================================================================
