---------------------------- MODULE MCThemeStore ----------------------------
(***************************************************************************)
(* ThemeStore for TLC: two users with any two commands, at most three      *)
(* themes, two assets, one retry, shares of one or two environments.       *)
(***************************************************************************)
EXTENDS ThemeStore, TLC

CONSTANTS u1, u2, t1, t2, t3, a, b

Symmetry == Permutations(Users) \union Permutations(Themes) \union Permutations(Paths)
=============================================================================
