------------------------------ MODULE Semantic ------------------------------
(***************************************************************************)
(* Semantic analysis (src/compiler/semantic.cpp): names of a statement's   *)
(* syntax tree are resolved against the catalog, predicates are typed,     *)
(* literals are coerced to their column, and the grouping rules of a       *)
(* SELECT are enforced.  Every refusal is one CompileError: which message, *)
(* place and suggestion it carries is left out.                            *)
(*                                                                         *)
(* A catalog is a sequence of tables [id, name, columns], a column is      *)
(* [name, type, nullable].  In a syntax tree a column is [q, n], with the  *)
(* qualifier q = "" when it has none; in a bound tree it is [table, col].  *)
(* An optional part is a sequence of length at most one.                   *)
(***************************************************************************)
EXTENDS Expression, SequencesExt

CompileError == [k |-> "error"]
Failed(x) == x.k = "error"

find_table(catalog, name) == SelectSeq(catalog, LAMBDA table : table.name = name)

find_column(table, name) ==
    SelectSeq([j \in DOMAIN table.columns |-> j],
              LAMBDA j : table.columns[j].name = name)

\* <<reference>>, or <<>> when the name is unknown or, without a qualifier,
\* found in two relations.
resolve_column(relations, column) ==
    LET scope == SelectSeq(relations, LAMBDA table :
                             /\ column.q \in {"", table.name}
                             /\ find_column(table, column.n) # <<>>)
    IN  IF Len(scope) = 1
        THEN <<[table |-> scope[1].id, col |-> find_column(scope[1], column.n)[1]]>>
        ELSE <<>>

ColumnOf(relations, ref) ==
    SelectSeq(relations, LAMBDA table : table.id = ref.table)[1].columns[ref.col]

AllResolve(relations, columns) ==
    \A i \in DOMAIN columns : resolve_column(relations, columns[i]) # <<>>

ResolveAll(relations, columns) ==
    [i \in DOMAIN columns |-> resolve_column(relations, columns[i])[1]]

-----------------------------------------------------------------------------
(* Expressions.                                                            *)

OperandsFit(e, l, r) ==
    IF e.k = "cmp" THEN Comparable(e.op, l.type, r.type)
                   ELSE IsTruth(l.type) /\ IsTruth(r.type)

Untyped == [e |-> Lit(Null), type |-> "ERROR"]
Typed(e, type) == [e |-> e, type |-> type]

RECURSIVE analyze_expression(_, _)
analyze_expression(e, relations) ==
    LET Sub(x) == analyze_expression(x, relations)
    IN  CASE e.k = "col" ->
               LET ref == resolve_column(relations, e.c)
               IN  IF ref = <<>> THEN Untyped
                   ELSE Typed(Col(ref[1]), ColumnOf(relations, ref[1]).type)
          [] e.k = "lit" -> Typed(e, e.val.t)
          [] e.k \in {"cmp", "logic"} ->
               LET l == Sub(e.l) r == Sub(e.r)
               IN  IF "ERROR" \in {l.type, r.type} \/ ~OperandsFit(e, l, r) THEN Untyped
                   ELSE Typed([e EXCEPT !.l = l.e, !.r = r.e], "BOOLEAN")
          [] e.k = "null" ->
               LET x == Sub(e.e)
               IN  IF x.type = "ERROR" THEN Untyped
                   ELSE Typed(IsNull(e.neg, x.e), "BOOLEAN")
          [] e.k = "not" ->
               LET x == Sub(e.e)
               IN  IF IsTruth(x.type) THEN Typed(Not(x.e), "BOOLEAN") ELSE Untyped

PredicateFits(predicate, relations) ==
    \A i \in DOMAIN predicate : IsTruth(analyze_expression(predicate[i], relations).type)

BoundPredicate(predicate, relations) ==
    [i \in DOMAIN predicate |-> analyze_expression(predicate[i], relations).e]

\* coerce_assignment: NULL only where it is allowed; INT widens to BIGINT,
\* and both to DOUBLE.
coerce_assignment(val, column) ==
    CASE val.t = "NULL" -> IF column.nullable THEN val ELSE Error
      [] val.t = column.type -> val
      [] val.t = "INT" /\ column.type = "BIGINT" -> Value("BIGINT", val.v)
      [] val.t \in {"INT", "BIGINT"} /\ column.type = "DOUBLE" -> Value("DOUBLE", AsDouble(val))
      [] OTHER -> Error

-----------------------------------------------------------------------------
(* Statements.                                                             *)

analyze_create(ast, catalog) ==
    IF find_table(catalog, ast.table) # <<>>
       \/ ~IsInjective([i \in DOMAIN ast.columns |-> ast.columns[i].name])
    THEN CompileError
    ELSE [k |-> "create", table |-> ast.table, columns |-> ast.columns]

\* The target of the i-th value: the i-th listed column, or the i-th of the
\* table when no column is listed.
TargetColumn(columns, i) == IF columns = <<>> THEN i ELSE columns[i]

analyze_insert(ast, catalog) ==
    LET found == find_table(catalog, ast.table)
        table == found[1]
        columns == [i \in DOMAIN ast.columns |-> find_column(table, ast.columns[i])]
        bound == [i \in DOMAIN columns |-> columns[i][1]]
        Coerced(row, i) == coerce_assignment(row[i], table.columns[TargetColumn(bound, i)])
    IN  IF \/ found = <<>>
           \/ \E i \in DOMAIN columns : columns[i] = <<>>
           \/ ~IsInjective(bound)
           \/ bound # <<>> /\ Len(bound) # Len(table.columns)
           \/ \E i \in DOMAIN ast.rows :
                 \/ Len(ast.rows[i]) # Len(table.columns)
                 \/ \E j \in DOMAIN ast.rows[i] : Coerced(ast.rows[i], j) = Error
        THEN CompileError
        ELSE [k |-> "insert", table |-> table.id, columns |-> bound,
              rows |-> [i \in DOMAIN ast.rows |->
                          [j \in DOMAIN ast.rows[i] |-> Coerced(ast.rows[i], j)]]]

(* (mutant) MIN and MAX take every type. *)
AggregateType_Any(kind, type) ==
    CASE kind = "COUNT" -> "BIGINT"
      [] kind = "SUM" /\ type \in Numeric -> IF type = "DOUBLE" THEN "DOUBLE" ELSE "BIGINT"
      [] kind = "AVG" /\ type \in Numeric -> "DOUBLE"
      [] kind \in {"MIN", "MAX"} -> type
      [] OTHER -> "ERROR"

\* The output type of an aggregate over a column of this type, or "ERROR".
AggregateType(kind, type) ==
    CASE kind = "COUNT" -> "BIGINT"
      [] kind = "SUM" /\ type \in Numeric -> IF type = "DOUBLE" THEN "DOUBLE" ELSE "BIGINT"
      [] kind = "AVG" /\ type \in Numeric -> "DOUBLE"
      [] kind \in {"MIN", "MAX"} /\ type \in Numeric \cup {"VARCHAR"} -> type
      [] OTHER -> "ERROR"

analyze_aggregate(item, relations) ==
    LET refs == ResolveAll(relations, item.arg)
        type == IF item.arg = <<>> THEN "BIGINT"
                ELSE AggregateType(item.kind, ColumnOf(relations, refs[1]).type)
    IN  IF ~AllResolve(relations, item.arg) \/ type = "ERROR" THEN CompileError
        ELSE [k |-> "agg", kind |-> item.kind, arg |-> refs, type |-> type,
              nullable |-> item.kind # "COUNT"]

\* A selected column must be one of the group keys of an aggregate query.
analyze_item(item, relations, aggregated, group_by) ==
    IF item.k = "agg" THEN analyze_aggregate(item, relations)
    ELSE LET ref == resolve_column(relations, item.c)
         IN  IF ref = <<>> \/ (aggregated /\ ~Contains(group_by, ref[1]))
             THEN CompileError ELSE Col(ref[1])

\* SELECT *: every column of every relation, in order.
AllColumns(relations) ==
    FlattenSeq([i \in DOMAIN relations |->
                  [j \in DOMAIN relations[i].columns |->
                     Col([table |-> relations[i].id, col |-> j])]])

Distinct(seq) ==
    FoldLeft(LAMBDA acc, x : IF Contains(acc, x) THEN acc ELSE Append(acc, x), <<>>, seq)

\* The relations of a SELECT: every table known and none of them twice.
RelationScope(ast, catalog) ==
    LET names == <<ast.table>> \o [i \in DOMAIN ast.joins |-> ast.joins[i].table]
    IN  IF IsInjective(names) /\ \A i \in DOMAIN names : find_table(catalog, names[i]) # <<>>
        THEN [i \in DOMAIN names |-> find_table(catalog, names[i])[1]]
        ELSE <<>>

\* The condition of the i-th join sees the relations up to the joined one.
JoinScope(relations, i) == SubSeq(relations, 1, i + 1)

analyze_joins(ast, relations) ==
    [i \in DOMAIN ast.joins |->
       analyze_expression(ast.joins[i].condition, JoinScope(relations, i))]

SortColumns(ast) == [i \in DOMAIN ast.order_by |-> ast.order_by[i].c]

analyze_select(ast, catalog) ==
    LET relations == RelationScope(ast, catalog)
        conditions == analyze_joins(ast, relations)
        group_by == Distinct(ResolveAll(relations, ast.group_by))
        aggregated == ast.group_by # <<>> \/ \E i \in DOMAIN ast.items : ast.items[i].k = "agg"
        items == IF ast.all THEN AllColumns(relations)
                 ELSE [i \in DOMAIN ast.items |->
                         analyze_item(ast.items[i], relations, aggregated, group_by)]
        order_by == ResolveAll(relations, SortColumns(ast))
    IN  IF \/ relations = <<>>
           \/ \E i \in DOMAIN conditions : ~IsTruth(conditions[i].type)
           \/ ~AllResolve(relations, ast.group_by)
           \/ ast.all /\ aggregated
           \/ \E i \in DOMAIN items : Failed(items[i])
           \/ ~PredicateFits(ast.predicate, relations)
           \/ ~AllResolve(relations, SortColumns(ast))
           \/ aggregated /\ ~(ToSet(order_by) \subseteq ToSet(group_by))
        THEN CompileError
        ELSE [k |-> "select", table |-> relations[1].id,
              joins |-> [i \in DOMAIN conditions |->
                           [table |-> relations[i + 1].id, condition |-> conditions[i].e]],
              items |-> items,
              predicate |-> BoundPredicate(ast.predicate, relations),
              group_by |-> group_by,
              order_by |-> [i \in DOMAIN order_by |->
                              [column |-> order_by[i], desc |-> ast.order_by[i].desc]]]

analyze_delete(ast, catalog) ==
    LET found == find_table(catalog, ast.table)
    IN  IF found = <<>> \/ ~PredicateFits(ast.predicate, found) THEN CompileError
        ELSE [k |-> "delete", table |-> found[1].id,
              predicate |-> BoundPredicate(ast.predicate, found)]

analyze_update(ast, catalog) ==
    LET found == find_table(catalog, ast.table)
        columns == [i \in DOMAIN ast.assignments |->
                      find_column(found[1], ast.assignments[i].column)]
        Coerced(i) == coerce_assignment(ast.assignments[i].val,
                                        found[1].columns[columns[i][1]])
    IN  IF \/ found = <<>>
           \/ \E i \in DOMAIN columns : columns[i] = <<>>
           \/ ~IsInjective(columns)
           \/ \E i \in DOMAIN columns : Coerced(i) = Error
           \/ ~PredicateFits(ast.predicate, found)
        THEN CompileError
        ELSE [k |-> "update", table |-> found[1].id,
              assignments |-> [i \in DOMAIN columns |->
                                 [col |-> columns[i][1], val |-> Coerced(i)]],
              predicate |-> BoundPredicate(ast.predicate, found)]

analyze(ast, catalog) ==
    CASE ast.k = "create" -> analyze_create(ast, catalog)
      [] ast.k = "insert" -> analyze_insert(ast, catalog)
      [] ast.k = "select" -> analyze_select(ast, catalog)
      [] ast.k = "delete" -> analyze_delete(ast, catalog)
      [] ast.k = "update" -> analyze_update(ast, catalog)
=============================================================================
