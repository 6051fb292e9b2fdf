----------------------------- MODULE Optimizer -----------------------------
(***************************************************************************)
(* The rewriting of bound predicates between analysis and planning         *)
(* (src/compiler/optimizer.cpp): comparisons of two literals, AND and OR   *)
(* with a constant side, double NOT, IS NULL of a literal, and the removal *)
(* of a WHERE that is constantly true.                                     *)
(*                                                                         *)
(* Every rule returns an OptimizedExpr [e |-> expression, c |-> truth]: c  *)
(* is the truth value the expression is known to have ("T", "F", "U"), or  *)
(* "none".  Only an Unknown replaces its expression by a literal; a known  *)
(* TRUE or FALSE keeps the expression and travels beside it.               *)
(***************************************************************************)
EXTENDS Expression

NoTruth == "none"
Optimized(e, truth) == [e |-> e, c |-> truth]

truth_literal(truth) == Lit(truth_value_to_value(truth))

BothLiterals(l, r) == l.k = "lit" /\ r.k = "lit"

\* compare_boolean, compare_double, compare_integer and compare_string: no
\* answer for operands of different families or an ordered BOOLEAN; an
\* ordered VARCHAR comparison is answered as if it were "!=".
LiteralsTruth(op, x, y) ==
    LET types == {x.t, y.t}
        Truth(b) == IF b THEN "T" ELSE "F"
    IN  CASE "NULL" \in types -> "U"
          [] "BOOLEAN" \in types ->
                IF types = {"BOOLEAN"} /\ op \in Equality
                THEN Truth(Holds(op, x.v, y.v)) ELSE NoTruth
          [] types \subseteq Numeric -> to_truth_value(compare_numbers(op, x, y))
          [] types = {"VARCHAR"} -> Truth(IF op = "=" THEN x.v = y.v ELSE x.v # y.v)
          [] OTHER -> NoTruth

evaluate_literals(op, l, r) ==
    IF BothLiterals(l, r) THEN LiteralsTruth(op, l.val, r.val) ELSE NoTruth

apply_constant_comparison_rule(op, l, r) ==
    LET truth == evaluate_literals(op, l.e, r.e)
    IN  Optimized(IF truth = "U" THEN truth_literal("U") ELSE Cmp(op, l.e, r.e), truth)

\* Both sides constant: the result is the side that has it, or a literal.
FoldedBoth(op, l, r) ==
    LET truth == IF op = "AND" THEN truth_and(l.c, r.c) ELSE truth_or(l.c, r.c)
    IN  CASE truth = "U" -> Optimized(truth_literal("U"), "U")
          [] truth # "U" /\ l.c = truth -> l
          [] truth # "U" /\ l.c # truth /\ r.c = truth -> r
          [] OTHER -> Optimized(truth_literal(truth), truth)

\* The constant that leaves the other side as it is, and the one that wins.
Neutral(op) == IF op = "AND" THEN "T" ELSE "F"
Dominant(op) == IF op = "AND" THEN "F" ELSE "T"

apply_boolean_simplification_rule(op, l, r) ==
    CASE l.c # NoTruth /\ r.c # NoTruth -> FoldedBoth(op, l, r)
      [] l.c = Neutral(op) /\ r.c = NoTruth -> r
      [] l.c = Dominant(op) /\ r.c = NoTruth -> l
      [] r.c = Neutral(op) /\ l.c = NoTruth -> l
      [] r.c = Dominant(op) /\ l.c = NoTruth -> r
      [] OTHER -> Optimized(Logic(op, l.e, r.e), NoTruth)

apply_double_not_rule(operand) ==
    LET truth == IF operand.c = NoTruth THEN NoTruth ELSE truth_not(operand.c)
    IN  CASE operand.e.k = "not" -> Optimized(operand.e.e, truth)
          [] operand.e.k # "not" /\ truth = "U" -> Optimized(truth_literal("U"), "U")
          [] OTHER -> Optimized(Not(operand.e), truth)

\* The IS [NOT] NULL of an expression that has become a literal.
NullTested(neg, operand) ==
    IF operand.e.k = "lit"
    THEN LET b == (operand.e.val.t = "NULL") # neg
         IN  Optimized(Lit(Bool(b)), IF b THEN "T" ELSE "F")
    ELSE Optimized(IsNull(neg, operand.e), NoTruth)

RECURSIVE optimize_expression(_)
optimize_expression(e) ==
    CASE e.k = "col"   -> Optimized(e, NoTruth)
      [] e.k = "lit"   -> Optimized(e, IF IsTruth(e.val.t) THEN to_truth_value(e.val)
                                                            ELSE NoTruth)
      [] e.k = "cmp"   -> apply_constant_comparison_rule(
                              e.op, optimize_expression(e.l), optimize_expression(e.r))
      [] e.k = "logic" -> apply_boolean_simplification_rule(
                              e.op, optimize_expression(e.l), optimize_expression(e.r))
      [] e.k = "null"  -> NullTested(e.neg, optimize_expression(e.e))
      [] e.k = "not"   -> apply_double_not_rule(optimize_expression(e.e))

\* A predicate is <<>> or <<expression>>.  A constantly true one is removed
\* (apply_redundant_true_predicate_rule); a join condition always stays.
optimize_predicate(predicate) ==
    IF predicate = <<>> THEN <<>>
    ELSE LET optimized == optimize_expression(predicate[1])
         IN  IF optimized.c = "T" THEN <<>> ELSE <<optimized.e>>

optimize_join_condition(condition) == optimize_expression(condition).e

optimize(bound) ==
    CASE bound.k = "select" ->
            [bound EXCEPT !.joins = [i \in DOMAIN bound.joins |->
                                       [bound.joins[i] EXCEPT
                                          !.condition = optimize_join_condition(@)]],
                          !.predicate = optimize_predicate(@)]
      [] bound.k \in {"delete", "update"} ->
            [bound EXCEPT !.predicate = optimize_predicate(@)]
      [] OTHER -> bound
=============================================================================
