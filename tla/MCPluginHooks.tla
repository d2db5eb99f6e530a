--------------------------- MODULE MCPluginHooks ---------------------------
(* PluginHooks for TLC: one body for each thing an answer may ask for, and *)
(* the two that ask for more than one.                                     *)
EXTENDS PluginHooks

Asks(w, c, f, t) == [wakes |-> w, cancels |-> c, clean |-> f, turn |-> t]

MCBodies ==
  {Asks(FALSE, FALSE, FALSE, "main"), Asks(FALSE, FALSE, TRUE, "main"),
   Asks(FALSE, FALSE, TRUE, "none"), Asks(FALSE, FALSE, FALSE, "alone"),
   Asks(TRUE, TRUE, TRUE, "main")}
=============================================================================
