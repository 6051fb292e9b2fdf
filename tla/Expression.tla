----------------------------- MODULE Expression -----------------------------
(***************************************************************************)
(* The scalar expressions of a plan (src/core/expression.cpp): how a       *)
(* predicate is type-checked before a plan runs and how it is evaluated on *)
(* a row, with SQL's three-valued logic.                                   *)
(*                                                                         *)
(* A value is [t |-> its C++ alternative, v |-> a number]: BOOLEAN is 0/1, *)
(* a VARCHAR is a number that stands for the string, NULL is v = 0, and a  *)
(* DOUBLE counts 1/Scale, so that INT 1 and DOUBLE Scale are the same      *)
(* number.  DOUBLEs are finite: the record codec refuses the others.       *)
(* An expression is a record with a kind k:                                *)
(*   "col" c | "lit" val | "cmp" op l r | "logic" op l r | "null" neg e |  *)
(*   "not" e                                                               *)
(***************************************************************************)
EXTENDS Integers, Sequences, FiniteSets

CONSTANTS MaxExpressionDepth, \* kMaxExpressionDepth
          Scale               \* the denominator of the model's DOUBLEs

Null == [t |-> "NULL", v |-> 0]
Error == [t |-> "ERROR", v |-> 0]
Value(type, n) == [t |-> type, v |-> n]
Bool(b) == Value("BOOLEAN", IF b THEN 1 ELSE 0)

Numeric == {"INT", "BIGINT", "DOUBLE"}
Equality == {"=", "!="}
EqualityOnly == {"VARCHAR", "BOOLEAN"}

Col(c) == [k |-> "col", c |-> c]
Lit(val) == [k |-> "lit", val |-> val]
Cmp(op, l, r) == [k |-> "cmp", op |-> op, l |-> l, r |-> r]
Logic(op, l, r) == [k |-> "logic", op |-> op, l |-> l, r |-> r]
IsNull(neg, e) == [k |-> "null", neg |-> neg, e |-> e]
Not(e) == [k |-> "not", e |-> e]

-----------------------------------------------------------------------------
(* Rows: sequences of [slot, val], in which a slot must be bound once.     *)

lookup_slot(row, slot) ==
    LET at == {i \in DOMAIN row : row[i].slot = slot}
    IN  IF Cardinality(at) = 1 THEN row[CHOOSE i \in at : TRUE].val ELSE Error

-----------------------------------------------------------------------------
(* Three-valued logic over "T", "F" and "U"nknown.                         *)

to_truth_value(val) ==
    CASE val.t = "BOOLEAN" -> IF val.v = 1 THEN "T" ELSE "F"
      [] val.t = "NULL"    -> "U"
      [] OTHER             -> "ERROR"

truth_value_to_value(truth) == IF truth = "U" THEN Null ELSE Bool(truth = "T")

truth_not(x) == IF x = "U" THEN "U" ELSE IF x = "T" THEN "F" ELSE "T"

truth_and(x, y) ==
    IF "F" \in {x, y} THEN "F" ELSE IF "U" \in {x, y} THEN "U" ELSE "T"

truth_or(x, y) ==
    IF "T" \in {x, y} THEN "T" ELSE IF "U" \in {x, y} THEN "U" ELSE "F"

-----------------------------------------------------------------------------
(* Comparison of two values that are not NULL.                             *)

Holds(op, x, y) ==
    CASE op = "="  -> x = y
      [] op = "!=" -> x # y
      [] op = "<"  -> x < y
      [] op = "<=" -> x <= y
      [] op = ">"  -> x > y
      [] op = ">=" -> x >= y

\* numeric_double_value: an integer becomes a DOUBLE.
AsDouble(val) == IF val.t = "DOUBLE" THEN val.v ELSE val.v * Scale

compare_numbers(op, x, y) ==
    IF "DOUBLE" \in {x.t, y.t} THEN Bool(Holds(op, AsDouble(x), AsDouble(y)))
                               ELSE Bool(Holds(op, x.v, y.v))

\* compare_strings answers an ordered comparison with false, not an error.
compare_strings(op, x, y) == Bool(op \in Equality /\ Holds(op, x.v, y.v))

compare(op, x, y) ==
    CASE "NULL" \in {x.t, y.t} ->
            IF op \notin Equality /\ {x.t, y.t} \cap EqualityOnly # {}
            THEN Error ELSE Null
      [] {x.t, y.t} = {"BOOLEAN"} ->
            IF op \in Equality THEN Bool(Holds(op, x.v, y.v)) ELSE Error
      [] {x.t, y.t} \subseteq Numeric -> compare_numbers(op, x, y)
      [] {x.t, y.t} = {"VARCHAR"} -> compare_strings(op, x, y)
      [] OTHER -> Error

-----------------------------------------------------------------------------
(* Type checking, on a row of sample values.                               *)

Comparable(op, x, y) ==
    IF "NULL" \in {x, y}
    THEN op \in Equality \/ {x, y} \cap EqualityOnly = {}
    ELSE \/ {x, y} \subseteq Numeric
         \/ x = y /\ op \in Equality

IsTruth(type) == type \in {"BOOLEAN", "NULL"}

RECURSIVE validate_impl(_, _, _)
validate_impl(e, row, depth) ==
    LET Type(sub) == validate_impl(sub, row, depth + 1)
        BoolIf(types, ok) == IF "ERROR" \notin types /\ ok THEN "BOOLEAN" ELSE "ERROR"
    IN  IF depth >= MaxExpressionDepth THEN "ERROR"
        ELSE CASE e.k = "col"   -> lookup_slot(row, e.c).t
               [] e.k = "lit"   -> e.val.t
               [] e.k = "cmp"   -> LET x == Type(e.l) y == Type(e.r)
                                   IN  BoolIf({x, y}, Comparable(e.op, x, y))
               [] e.k = "logic" -> LET x == Type(e.l) y == Type(e.r)
                                   IN  BoolIf({x, y}, IsTruth(x) /\ IsTruth(y))
               [] e.k = "null"  -> BoolIf({Type(e.e)}, TRUE)
               [] e.k = "not"   -> LET x == Type(e.e) IN BoolIf({x}, IsTruth(x))

validate_predicate(e, row) == IsTruth(validate_impl(e, row, 0))

-----------------------------------------------------------------------------
(* Evaluation.  Both operands are evaluated: an error in one of them is    *)
(* the error of the whole, even under AND and OR.                          *)

RECURSIVE evaluate_impl(_, _, _)
evaluate_impl(e, row, depth) ==
    LET Eval(sub) == evaluate_impl(sub, row, depth + 1)
        Combine(op, x, y) == IF op = "AND" THEN truth_and(x, y) ELSE truth_or(x, y)
    IN  IF depth >= MaxExpressionDepth THEN Error
        ELSE CASE e.k = "col" -> lookup_slot(row, e.c)
               [] e.k = "lit" -> e.val
               [] e.k = "cmp" ->
                    LET x == Eval(e.l) y == Eval(e.r)
                    IN  IF Error \in {x, y} THEN Error ELSE compare(e.op, x, y)
               [] e.k = "logic" ->
                    LET x == to_truth_value(Eval(e.l)) y == to_truth_value(Eval(e.r))
                    IN  IF "ERROR" \in {x, y} THEN Error
                        ELSE truth_value_to_value(Combine(e.op, x, y))
               [] e.k = "null" ->
                    LET x == Eval(e.e)
                    IN  IF x = Error THEN Error ELSE Bool((x.t = "NULL") # e.neg)
               [] e.k = "not" ->
                    LET x == to_truth_value(Eval(e.e))
                    IN  IF x = "ERROR" THEN Error ELSE truth_value_to_value(truth_not(x))

\* "T" keeps a row; "F" and "U" drop it.
evaluate_predicate(e, row) == to_truth_value(evaluate_impl(e, row, 0))
=============================================================================
