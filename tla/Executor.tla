------------------------------ MODULE Executor ------------------------------
(***************************************************************************)
(* How a plan is validated and run (src/core/executor.cpp), on tables that *)
(* answer every storage call: faults, cancellation and partial batches are *)
(* the business of modules Script and HeapTable.                           *)
(*                                                                         *)
(* A dataflow step returns [err, rows]: err is "" or "internal" (the plan  *)
(* or a row breaks the contract between compiler, storage and executor)    *)
(* or "execute" (a limit or an overflow the user can meet).  A row is a    *)
(* sequence of [slot, val]; tables maps a table's id to its records.       *)
(***************************************************************************)
EXTENDS Planner

CONSTANTS MaxPlanDepth, \* kMaxPlanDepth
          MaxQueryRows, \* max_query_rows
          MaxBigInt,    \* the largest int64
          MaxDouble,    \* the largest finite DOUBLE, in 1/Scale
          MaxLongDouble \* the largest finite long double, in 1/Scale

Rows(rows) == [err |-> "", rows |-> rows]
Fails(kind) == [err |-> kind, rows |-> <<>>]

validation_value(type) == [t |-> type, v |-> 0]

value_matches_column(val, column) ==
    IF val.t = "NULL" THEN column.nullable ELSE val.t = column.type

validate_physical_row(table, row) ==
    /\ Len(row) = Len(table.columns)
    /\ \A j \in DOMAIN row : value_matches_column(row[j], table.columns[j])

\* Every column of the table exactly once, every slot at most once.
validate_scan_columns(table, columns) ==
    /\ Len(columns) = Len(table.columns)
    /\ {columns[i].col : i \in DOMAIN columns} = DOMAIN table.columns
    /\ IsInjective([i \in DOMAIN columns |-> columns[i].slot])

validate_table_metadata(table) ==
    /\ table.columns # <<>>
    /\ IsInjective([j \in DOMAIN table.columns |-> table.columns[j].name])

SlotRow(record, columns) ==
    [i \in DOMAIN columns |-> [slot |-> columns[i].slot, val |-> record[columns[i].col]]]

make_validation_slot_row(table, columns) ==
    SlotRow([j \in DOMAIN table.columns |-> validation_value(table.columns[j].type)], columns)

Slots(row) == {row[i].slot : i \in DOMAIN row}
Bound(row, slot) == lookup_slot(row, slot) # Error

-----------------------------------------------------------------------------
(* Validation of a query plan.  A node yields [ok, row, types]: a sample   *)
(* row of its output, and the declared type of every slot met below it.    *)

Invalid == [ok |-> FALSE, row |-> <<>>, types |-> <<>>]

append_slot_types(types, row) ==
    types \o SelectSeq(row, LAMBDA entry : entry.slot \notin Slots(types))

ValidCall(call, child) ==
    LET type == IF call.input = <<>> THEN "" ELSE lookup_slot(child, call.input[1]).t
    IN  CASE call.kind = "COUNT" -> call.type = "BIGINT" /\ ~call.nullable
          [] call.kind = "SUM" -> /\ type \in Numeric /\ call.nullable
                                  /\ call.type = IF type = "DOUBLE" THEN "DOUBLE" ELSE "BIGINT"
          [] call.kind = "AVG" -> type \in Numeric /\ call.nullable /\ call.type = "DOUBLE"
          [] OTHER -> /\ type \notin {"", "ERROR", "BOOLEAN"}
                      /\ call.nullable /\ call.type = type

AggregateRow(node, child) ==
    [i \in DOMAIN node.keys |->
       [slot |-> node.keys[i], val |-> lookup_slot(child, node.keys[i])]]
    \o [i \in DOMAIN node.calls |->
          [slot |-> node.calls[i].output, val |-> validation_value(node.calls[i].type)]]

ValidAggregate(node, child) ==
    /\ \A i \in DOMAIN node.keys : Bound(child, node.keys[i])
    /\ \A i \in DOMAIN node.calls :
          /\ node.calls[i].output \notin Slots(child)
          /\ \A j \in DOMAIN node.calls[i].input : Bound(child, node.calls[i].input[j])
          /\ ValidCall(node.calls[i], child)
    /\ IsInjective([i \in DOMAIN AggregateRow(node, child) |->
                      AggregateRow(node, child)[i].slot])

RECURSIVE validate_dataflow_node(_, _, _, _)
validate_dataflow_node(catalog, node, depth, types) ==
    LET Child(sub, known) == validate_dataflow_node(catalog, sub, depth + 1, known)
        Passed(child, ok) == IF child.ok /\ ok THEN child ELSE Invalid
    IN  IF depth >= MaxPlanDepth THEN Invalid
        ELSE CASE node.k = "scan" ->
               LET found == SelectSeq(catalog, LAMBDA table : table.id = node.table)
                   row == make_validation_slot_row(found[1], node.columns)
               IN  IF /\ found # <<>>
                      /\ validate_table_metadata(found[1])
                      /\ validate_scan_columns(found[1], node.columns)
                   THEN [ok |-> TRUE, row |-> row, types |-> append_slot_types(types, row)]
                   ELSE Invalid
          [] node.k = "filter" ->
               LET child == Child(node.child, types)
               IN  Passed(child, validate_predicate(node.predicate, child.row))
          [] node.k = "sort" ->
               LET child == Child(node.child, types)
               IN  Passed(child, \A i \in DOMAIN node.keys : Bound(child.row, node.keys[i].slot))
          [] node.k = "join" ->
               LET left == Child(node.left, types)
                   right == Child(node.right, left.types)
                   merged == left.row \o right.row
               IN  IF /\ left.ok /\ right.ok
                      /\ Slots(left.row) \cap Slots(right.row) = {}
                      /\ validate_predicate(node.condition, merged)
                   THEN [ok |-> TRUE, row |-> merged, types |-> right.types]
                   ELSE Invalid
          [] node.k = "aggregate" ->
               LET child == Child(node.child, types)
                   row == AggregateRow(node, child.row)
               IN  IF child.ok /\ ValidAggregate(node, child.row)
                   THEN [ok |-> TRUE, row |-> row,
                         types |-> append_slot_types(child.types, row)]
                   ELSE Invalid

validate_query_plan(catalog, plan) ==
    LET input == validate_dataflow_node(catalog, plan.root.child, 1, <<>>)
        outputs == plan.root.outputs
    IN  IF /\ outputs # <<>> /\ input.ok
           /\ Len(outputs) = Len(plan.outputs)
           /\ \A i \in DOMAIN outputs : /\ Bound(input.row, outputs[i])
                                        /\ outputs[i] = plan.outputs[i].slot
        THEN input ELSE Invalid

-----------------------------------------------------------------------------
(* Joins.  Equalities between two columns of the same declared type on the *)
(* AND-chain of the condition become a hash key; the whole condition is    *)
(* evaluated again on every candidate pair.                                *)

(* (mutant) Columns of different types become a hash key. *)
WithPair_AnyType(pairs, pair, types) == Append(pairs, pair)

\* A key pair that adds neither a new left nor a new right slot is skipped.
WithPair(pairs, pair, types) ==
    LET left == lookup_slot(types, pair.left)
        right == lookup_slot(types, pair.right)
    IN  IF \/ left.t # right.t
           \/ Error \in {left, right}
           \/ /\ \E i \in DOMAIN pairs : pairs[i].left = pair.left
              /\ \E i \in DOMAIN pairs : pairs[i].right = pair.right
        THEN pairs ELSE Append(pairs, pair)

RECURSIVE collect_equi_join_pairs(_, _, _, _, _)
collect_equi_join_pairs(e, left, right, types, pairs) ==
    CASE e.k = "logic" /\ e.op = "AND" ->
            collect_equi_join_pairs(e.r, left, right, types,
                collect_equi_join_pairs(e.l, left, right, types, pairs))
      [] e.k = "cmp" /\ e.op = "=" /\ e.l.k = "col" /\ e.r.k = "col" ->
            CASE e.l.c \in left /\ e.r.c \in right ->
                    WithPair(pairs, [left |-> e.l.c, right |-> e.r.c], types)
              [] e.l.c \in right /\ e.r.c \in left ->
                    WithPair(pairs, [left |-> e.r.c, right |-> e.l.c], types)
              [] OTHER -> pairs
      [] OTHER -> pairs

LeftKey(row, pairs) == [i \in DOMAIN pairs |-> lookup_slot(row, pairs[i].left)]
RightKey(row, pairs) == [i \in DOMAIN pairs |-> lookup_slot(row, pairs[i].right)]
KeyHasNull(key) == Null \in ToSet(key)

\* The right rows a left row is tried with: those under its hash key, or all.
Candidates(left, right_rows, pairs) ==
    IF pairs = <<>> THEN right_rows
    ELSE SelectSeq(right_rows, LAMBDA right :
                     /\ ~KeyHasNull(LeftKey(left, pairs))
                     /\ ~KeyHasNull(RightKey(right, pairs))
                     /\ LeftKey(left, pairs) = RightKey(right, pairs))

\* push_match: an expression that fails, and one row too many, end the join.
Joined(condition, pairings) ==
    LET verdicts == [i \in DOMAIN pairings |-> evaluate_predicate(condition, pairings[i])]
        matched == SelectSeq(pairings, LAMBDA row : evaluate_predicate(condition, row) = "T")
    IN  IF Contains(verdicts, "ERROR") THEN Fails("internal")
        ELSE IF Len(matched) > MaxQueryRows THEN Fails("execute")
        ELSE Rows(matched)

join_rows(node, left_rows, right_rows, types) ==
    LET pairs == collect_equi_join_pairs(node.condition, Slots(left_rows[1]),
                                         Slots(right_rows[1]), types, <<>>)
        Pairings(left) == LET found == Candidates(left, right_rows, pairs)
                          IN  [i \in DOMAIN found |-> left \o found[i]]
    IN  IF left_rows = <<>> \/ right_rows = <<>> THEN Rows(<<>>)
        ELSE IF Slots(left_rows[1]) \cap Slots(right_rows[1]) # {} THEN Fails("internal")
        ELSE Joined(node.condition,
                    FlattenSeq([i \in DOMAIN left_rows |-> Pairings(left_rows[i])]))

-----------------------------------------------------------------------------
(* Sorting: NULLs last in both directions, equal rows in their old order.  *)

sort_value_family(val) == IF val.t \in Numeric THEN "NUMERIC" ELSE val.t

compare_sort_values(x, y) ==
    LET a == IF x.t \in Numeric THEN AsDouble(x) ELSE x.v
        b == IF y.t \in Numeric THEN AsDouble(y) ELSE y.v
    IN  IF a < b THEN -1 ELSE IF b < a THEN 1 ELSE 0

\* How one key orders two rows: -1, 0 or 1.
KeyOrder(key, left, right) ==
    LET x == lookup_slot(left, key.slot)
        y == lookup_slot(right, key.slot)
    IN  CASE x.t = "NULL" /\ y.t = "NULL" -> 0
          [] x.t = "NULL" /\ y.t # "NULL" -> 1
          [] x.t # "NULL" /\ y.t = "NULL" -> -1
          [] OTHER -> IF key.desc THEN compare_sort_values(y, x)
                                  ELSE compare_sort_values(x, y)

SortsBefore(keys, left, right) ==
    \E i \in DOMAIN keys :
       /\ KeyOrder(keys[i], left, right) = -1
       /\ \A j \in 1..(i - 1) : KeyOrder(keys[j], left, right) = 0

stable_sort(rows, keys) ==
    LET Ahead(i, j) == \* row i comes out before row j
            \/ SortsBefore(keys, rows[i], rows[j])
            \/ ~SortsBefore(keys, rows[j], rows[i]) /\ i < j
    IN  [n \in DOMAIN rows |->
           rows[CHOOSE j \in DOMAIN rows :
                  Cardinality({i \in DOMAIN rows : Ahead(i, j)}) = n - 1]]

\* prepare_sort_rows: the values of one key are of one family.
OneFamily(rows, key) ==
    Cardinality({sort_value_family(lookup_slot(rows[i], key.slot)) :
                   i \in {i \in DOMAIN rows : lookup_slot(rows[i], key.slot).t # "NULL"}}) <= 1

sort_rows(rows, keys) ==
    IF \A k \in DOMAIN keys : /\ OneFamily(rows, keys[k])
                              /\ \A i \in DOMAIN rows : Bound(rows[i], keys[k].slot)
    THEN Rows(stable_sort(rows, keys)) ELSE Fails("internal")

-----------------------------------------------------------------------------
(* Aggregation.  A state is [count, sum, val]: sum serves AVG, in 1/Scale; *)
(* val is SUM's, MIN's or MAX's value so far, if there is one.             *)

EmptyState == [count |-> 0, sum |-> 0, val |-> <<>>]
OverflowState == [count |-> -1, sum |-> 0, val |-> <<>>]

InRange(type, n) ==
    IF type = "DOUBLE" THEN -MaxDouble <= n /\ n <= MaxDouble
                       ELSE -MaxBigInt - 1 <= n /\ n <= MaxBigInt

AccumulateSum(call, state, val) ==
    LET current == IF state.val = <<>> THEN 0 ELSE state.val[1].v
    IN  IF InRange(call.type, current + val.v)
        THEN [state EXCEPT !.val = <<[t |-> call.type, v |-> current + val.v]>>]
        ELSE OverflowState

checked_increment(state) ==
    IF state.count = MaxBigInt THEN OverflowState ELSE [state EXCEPT !.count = @ + 1]

AccumulateAverage(state, val) ==
    LET counted == checked_increment(state)
        sum == state.sum + AsDouble(val)
    IN  IF counted = OverflowState \/ sum < -MaxLongDouble \/ sum > MaxLongDouble
        THEN OverflowState ELSE [counted EXCEPT !.sum = sum]

AccumulateExtreme(call, state, val) ==
    LET order == compare_sort_values(val, state.val[1])
    IN  IF state.val = <<>> \/ order = (IF call.kind = "MIN" THEN -1 ELSE 1)
        THEN [state EXCEPT !.val = <<val>>] ELSE state

accumulate_aggregate(call, row, state) ==
    LET val == lookup_slot(row, call.input[1])
    IN  CASE state = OverflowState -> state
          [] state # OverflowState /\ call.input # <<>> /\ val.t = "NULL" -> state
          [] OTHER ->
               CASE call.kind = "COUNT" -> checked_increment(state)
                 [] call.kind = "SUM"   -> AccumulateSum(call, state, val)
                 [] call.kind = "AVG"   -> AccumulateAverage(state, val)
                 [] OTHER -> AccumulateExtreme(call, state, val)

\* An average that is no finite DOUBLE is an Error.
finish_aggregate(call, state) ==
    CASE call.kind = "COUNT" -> Value("BIGINT", state.count)
      [] call.kind = "AVG" ->
            IF state.count = 0 THEN Null
            ELSE LET average == state.sum \div state.count
                 IN  IF InRange("DOUBLE", average) THEN Value("DOUBLE", average) ELSE Error
      [] OTHER -> IF state.val = <<>> THEN Null ELSE state.val[1]

GroupKey(node, row) == [i \in DOMAIN node.keys |-> lookup_slot(row, node.keys[i])]

\* Groups come out in the order their first row was met; without GROUP BY
\* there is one group even when there is no row.
GroupKeys(node, rows) ==
    IF node.keys = <<>> THEN << <<>> >>
    ELSE Distinct([i \in DOMAIN rows |-> GroupKey(node, rows[i])])

GroupStates(node, rows, key) ==
    LET members == SelectSeq(rows, LAMBDA row : GroupKey(node, row) = key)
    IN  [c \in DOMAIN node.calls |->
           FoldLeft(LAMBDA state, row : accumulate_aggregate(node.calls[c], row, state),
                    EmptyState, members)]

aggregate_rows(node, rows) ==
    LET keys == GroupKeys(node, rows)
        states == [g \in DOMAIN keys |-> GroupStates(node, rows, keys[g])]
        Finished(g) == [c \in DOMAIN node.calls |->
                          finish_aggregate(node.calls[c], states[g][c])]
        Output(g) == [i \in DOMAIN node.keys |-> [slot |-> node.keys[i], val |-> keys[g][i]]]
                     \o [c \in DOMAIN node.calls |->
                           [slot |-> node.calls[c].output, val |-> Finished(g)[c]]]
    IN  IF \E g \in DOMAIN keys : \/ Contains(states[g], OverflowState)
                                  \/ Contains(Finished(g), Error)
        THEN Fails("execute")
        ELSE Rows([g \in DOMAIN keys |-> Output(g)])

-----------------------------------------------------------------------------
(* execute_query.                                                          *)

scan_rows(table, records, columns) ==
    IF \E i \in DOMAIN records : ~validate_physical_row(table, records[i])
    THEN Fails("internal")
    ELSE IF Len(records) > MaxQueryRows THEN Fails("execute")
    ELSE Rows([i \in DOMAIN records |-> SlotRow(records[i], columns)])

filter_rows(predicate, rows) ==
    IF \E i \in DOMAIN rows : evaluate_predicate(predicate, rows[i]) = "ERROR"
    THEN Fails("internal")
    ELSE Rows(SelectSeq(rows, LAMBDA row : evaluate_predicate(predicate, row) = "T"))

RECURSIVE execute_node(_, _, _, _)
execute_node(catalog, tables, node, types) ==
    LET Run(sub) == execute_node(catalog, tables, sub, types)
    IN  CASE node.k = "scan" ->
               scan_rows(TableById(catalog, node.table), tables[node.table], node.columns)
          [] node.k = "filter" ->
               LET child == Run(node.child)
               IN  IF child.err # "" THEN child ELSE filter_rows(node.predicate, child.rows)
          [] node.k = "sort" ->
               LET child == Run(node.child)
               IN  IF child.err # "" THEN child ELSE sort_rows(child.rows, node.keys)
          [] node.k = "join" ->
               LET left == Run(node.left) right == Run(node.right)
               IN  IF left.err # "" THEN left ELSE IF right.err # "" THEN right
                   ELSE join_rows(node, left.rows, right.rows, types)
          [] node.k = "aggregate" ->
               LET child == Run(node.child)
               IN  IF child.err # "" THEN child ELSE aggregate_rows(node, child.rows)

execute_query(catalog, tables, plan) ==
    LET valid == validate_query_plan(catalog, plan)
        executed == execute_node(catalog, tables, plan.root.child, valid.types)
        Project(row) == [i \in DOMAIN plan.root.outputs |->
                           lookup_slot(row, plan.root.outputs[i])]
    IN  IF ~valid.ok THEN Fails("internal")
        ELSE IF executed.err # "" THEN executed
        ELSE Rows([i \in DOMAIN executed.rows |-> Project(executed.rows[i])])

-----------------------------------------------------------------------------
(* Statements that change a table: [err, records], the table's records     *)
(* after the statement.                                                    *)

PhysicalRow(plan, row) ==
    IF plan.columns = <<>> THEN row
    ELSE [col \in DOMAIN row |->
            row[CHOOSE i \in DOMAIN plan.columns : plan.columns[i] = col]]

execute_insert(table, records, plan) ==
    LET width == Len(table.columns)
        physical == [i \in DOMAIN plan.rows |-> PhysicalRow(plan, plan.rows[i])]
    IN  IF /\ validate_table_metadata(table)
           /\ plan.rows # <<>>
           /\ plan.columns # <<>> => /\ Len(plan.columns) = width
                                     /\ ToSet(plan.columns) = 1..width
           /\ \A i \in DOMAIN physical : validate_physical_row(table, physical[i])
        THEN Rows(records \o physical) ELSE Fails("internal")

(* (mutant) An unknown predicate hits. *)
Verdict_Unknown(plan, record) ==
    IF plan.predicate = <<>> THEN "T"
    ELSE LET truth == evaluate_predicate(plan.predicate[1], SlotRow(record, plan.columns))
         IN  IF truth = "U" THEN "T" ELSE truth

\* The verdict of a DELETE's or an UPDATE's predicate on a record.
Verdict(plan, record) ==
    IF plan.predicate = <<>> THEN "T"
    ELSE evaluate_predicate(plan.predicate[1], SlotRow(record, plan.columns))

ValidScan(table, records, plan) ==
    /\ validate_table_metadata(table)
    /\ validate_scan_columns(table, plan.columns)
    /\ plan.predicate # <<>> => validate_predicate(plan.predicate[1],
                                    make_validation_slot_row(table, plan.columns))
    /\ \A i \in DOMAIN records : /\ validate_physical_row(table, records[i])
                                 /\ Verdict(plan, records[i]) # "ERROR"

execute_delete(table, records, plan) ==
    IF ValidScan(table, records, plan)
    THEN Rows(SelectSeq(records, LAMBDA record : Verdict(plan, record) # "T"))
    ELSE Fails("internal")

Replacement(plan, record) ==
    [col \in DOMAIN record |->
       LET set == SelectSeq(plan.assignments, LAMBDA a : a.col = col)
       IN  IF set = <<>> THEN record[col] ELSE set[1].val]

execute_update(table, records, plan) ==
    IF /\ plan.assignments # <<>>
       /\ IsInjective([i \in DOMAIN plan.assignments |-> plan.assignments[i].col])
       /\ \A i \in DOMAIN plan.assignments :
             /\ plan.assignments[i].col \in DOMAIN table.columns
             /\ value_matches_column(plan.assignments[i].val,
                                     table.columns[plan.assignments[i].col])
       /\ ValidScan(table, records, plan)
    THEN Rows([i \in DOMAIN records |-> IF Verdict(plan, records[i]) = "T"
                                        THEN Replacement(plan, records[i]) ELSE records[i]])
    ELSE Fails("internal")
=============================================================================
