------------------------------ MODULE MCAppDev ------------------------------
(***************************************************************************)
(* app dev for TLC, with the options it may be given: a tunnel for the     *)
(* webs and a notification; the dashboard over localhost behind TLS; an    *)
(* app of extensions only, with a theme preview and a notify file.         *)
(***************************************************************************)
EXTENDS AppDev

Options ==
  LET none == [webs |-> FALSE, proxy |-> FALSE, theme |-> FALSE, tunnel |-> FALSE, tui |-> FALSE,
               notify |-> "none"]
  IN {[none EXCEPT !.webs = TRUE, !.tunnel = TRUE, !.notify = "call"],
      [none EXCEPT !.webs = TRUE, !.proxy = TRUE, !.tui = TRUE],
      [none EXCEPT !.theme = TRUE, !.notify = "file"]}
=============================================================================
