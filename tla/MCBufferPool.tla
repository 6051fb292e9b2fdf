---------------------------- MODULE MCBufferPool ----------------------------
(* Small instances of BufferPool for TLC. *)
EXTENDS BufferPool, TLC

(* Pages K1 and K2 of table T1, page K3 of table T2. *)
CONSTANTS K1, K2, K3, T1, T2

MCTableOf == [k \in Keys |-> IF k = K3 THEN T2 ELSE T1]

(* Threads that play the same part, and page contents, are interchangeable. *)
ClientSymmetry == Permutations(Clients)
DataSymmetry == Permutations(Clients) \cup Permutations(Values)
=============================================================================
