---------------------------- MODULE MCGuiSession ----------------------------
(* Small instances of GuiSession: one table, two texts. *)
EXTENDS GuiSession

CONSTANTS db1, t1, a, b
=============================================================================
