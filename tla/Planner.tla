------------------------------ MODULE Planner ------------------------------
(***************************************************************************)
(* Planning (src/compiler/planner.cpp) and the compiler's pipeline         *)
(* (compile, src/compiler/compiler.cpp).  Every column of every relation   *)
(* of a SELECT gets a slot, in order; aggregates get the slots after them; *)
(* expressions then name slots.  The plan of a SELECT is always            *)
(*   Scan, Join*, Filter?, Aggregate?, Sort?, Project.                     *)
(***************************************************************************)
EXTENDS Semantic, Optimizer

CONSTANT MaxSlotId \* std::numeric_limits<SlotId>::max()

TableById(catalog, id) == SelectSeq(catalog, LAMBDA table : table.id = id)[1]

Width(tables) == FoldLeft(LAMBDA n, table : n + Len(table.columns), 0, tables)

\* Slots are numbered from 0 across the tables.
build_slot_bindings(tables) ==
    [i \in DOMAIN tables |->
       [id |-> tables[i].id,
        columns |-> [j \in DOMAIN tables[i].columns |->
                       [col |-> j, slot |-> Width(SubSeq(tables, 1, i - 1)) + j - 1]]]]

find_slot(bindings, ref) ==
    LET binding == SelectSeq(bindings, LAMBDA b : b.id = ref.table)
    IN  IF binding = <<>> THEN -1 ELSE binding[1].columns[ref.col].slot

RECURSIVE generate_expr(_, _)
generate_expr(e, bindings) ==
    CASE e.k = "col" -> Col(find_slot(bindings, e.c))
      [] e.k = "lit" -> e
      [] e.k \in {"cmp", "logic"} -> [e EXCEPT !.l = generate_expr(@, bindings),
                                               !.r = generate_expr(@, bindings)]
      [] e.k \in {"null", "not"} -> [e EXCEPT !.e = generate_expr(@, bindings)]

GeneratePredicate(predicate, bindings) ==
    [i \in DOMAIN predicate |-> generate_expr(predicate[i], bindings)]

Scan(binding) == [k |-> "scan", table |-> binding.id, columns |-> binding.columns]

\* The condition of the i-th join is planned over the bindings up to its table.
JoinBindings(bindings, i) == SubSeq(bindings, 1, i + 1)

RECURSIVE JoinTree(_, _, _)
JoinTree(joins, bindings, n) ==
    IF n = 0 THEN Scan(bindings[1])
    ELSE [k |-> "join",
          condition |-> generate_expr(joins[n].condition, JoinBindings(bindings, n)),
          left |-> JoinTree(joins, bindings, n - 1),
          right |-> Scan(bindings[n + 1])]

WithFilter(predicate, child) ==
    IF predicate = <<>> THEN child
    ELSE [k |-> "filter", predicate |-> predicate[1], child |-> child]

WithAggregate(keys, calls, child) ==
    IF keys = <<>> /\ calls = <<>> THEN child
    ELSE [k |-> "aggregate", keys |-> keys, calls |-> calls, child |-> child]

WithSort(keys, child) ==
    IF keys = <<>> THEN child ELSE [k |-> "sort", keys |-> keys, child |-> child]

\* The i-th item's slot: its column's, or the next one after the tables'.
ItemSlot(items, i, bindings, width) ==
    IF items[i].k = "col" THEN find_slot(bindings, items[i].c)
    ELSE width + Cardinality({j \in 1..(i - 1) : items[j].k = "agg"})

ItemOutput(items, i, bindings, tables) ==
    LET slot == ItemSlot(items, i, bindings, Width(tables))
    IN  IF items[i].k = "col"
        THEN LET column == ColumnOf(tables, items[i].c)
             IN  [slot |-> slot, type |-> column.type, nullable |-> column.nullable]
        ELSE [slot |-> slot, type |-> items[i].type, nullable |-> items[i].nullable]

\* The aggregate calls, in the order of the items.
AggregateCalls(items, bindings, width) ==
    LET at == SelectSeq([i \in DOMAIN items |-> i], LAMBDA i : items[i].k = "agg")
    IN  [n \in DOMAIN at |->
           LET item == items[at[n]]
           IN  [kind |-> item.kind,
                input |-> [i \in DOMAIN item.arg |-> find_slot(bindings, item.arg[i])],
                output |-> ItemSlot(items, at[n], bindings, width),
                type |-> item.type, nullable |-> item.nullable]]

generate_select(bound, catalog) ==
    LET tables == <<TableById(catalog, bound.table)>> \o
                  [i \in DOMAIN bound.joins |-> TableById(catalog, bound.joins[i].table)]
        bindings == build_slot_bindings(tables)
        calls == AggregateCalls(bound.items, bindings, Width(tables))
        group_keys == [i \in DOMAIN bound.group_by |-> find_slot(bindings, bound.group_by[i])]
        sort_keys == [i \in DOMAIN bound.order_by |->
                        [slot |-> find_slot(bindings, bound.order_by[i].column),
                         desc |-> bound.order_by[i].desc]]
        joined == JoinTree(bound.joins, bindings, Len(bound.joins))
        filtered == WithFilter(GeneratePredicate(bound.predicate, bindings), joined)
        outputs == [i \in DOMAIN bound.items |-> ItemOutput(bound.items, i, bindings, tables)]
    IN  IF Width(tables) + Len(calls) > MaxSlotId + 1 THEN CompileError
        ELSE [k |-> "query",
              root |-> [k |-> "project",
                        outputs |-> [i \in DOMAIN outputs |-> outputs[i].slot],
                        child |-> WithSort(sort_keys, WithAggregate(group_keys, calls, filtered))],
              outputs |-> outputs]

\* The plan of a DELETE or an UPDATE: its statement with the scan's columns.
generate_dml(bound, catalog) ==
    LET bindings == build_slot_bindings(<<TableById(catalog, bound.table)>>)
        plan == [bound EXCEPT !.predicate = GeneratePredicate(@, bindings)]
    IN  IF Width(<<TableById(catalog, bound.table)>>) > MaxSlotId + 1 THEN CompileError
        ELSE plan @@ [columns |-> bindings[1].columns]

generate_plan(bound, catalog) ==
    CASE bound.k = "select" -> generate_select(bound, catalog)
      [] bound.k \in {"delete", "update"} -> generate_dml(bound, catalog)
      [] OTHER -> bound

\* compile, from the syntax tree on.
compile(ast, catalog) ==
    LET bound == analyze(ast, catalog)
    IN  IF Failed(bound) THEN CompileError ELSE generate_plan(optimize(bound), catalog)
=============================================================================
