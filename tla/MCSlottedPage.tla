--------------------------- MODULE MCSlottedPage ---------------------------
(* SlottedPage for TLC: the data are interchangeable. *)
EXTENDS SlottedPage, TLC

DataSymmetry == Permutations(Data)
=============================================================================
