------------------------------ MODULE MCStorage ------------------------------
(* Small instances of Storage. *)
EXTENDS Storage, TLC

(* Schemas of one column and of two: a column may be missing, or be left   *)
(* over from another call.                                                 *)
MCSchemas == {<<"x">>, <<"x", "y">>}

Sound == [legacy |-> FALSE, failures |-> FALSE, cleanup |-> FALSE,
          crashes |-> FALSE, throws |-> FALSE, max_rows |-> 5]

(* Any step may fail.  Four rows are two tables, or a table and dead rows. *)
Failing == [Sound EXCEPT !.failures = TRUE, !.max_rows = 4]

(* So may a step that undoes another.  Three rows are a table and one row  *)
(* that could not be removed.                                              *)
FailingTwice == [Failing EXCEPT !.cleanup = TRUE, !.max_rows = 3]

(* The pool's pages may be lost. *)
Losing == [Sound EXCEPT !.crashes = TRUE, !.throws = TRUE]

(* Anything may go wrong with a directory of an earlier version. *)
FailingLegacy == [FailingTwice EXCEPT !.legacy = TRUE, !.crashes = TRUE]

MCScenarios == {Failing, FailingTwice, Losing, FailingLegacy}

(* Ids and names are only compared for equality. *)
Symmetry == Permutations(TableIds) \cup Permutations(Names)

ThrowingOnly == {[Sound EXCEPT !.throws = TRUE]}
=============================================================================
