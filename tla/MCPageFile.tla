------------------------------ MODULE MCPageFile ------------------------------
(* PageFile for TLC: the values that callers write are interchangeable.    *)
EXTENDS PageFile, TLC

ValueSymmetry == Permutations(Values)
=============================================================================
