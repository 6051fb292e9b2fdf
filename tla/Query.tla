------------------------------- MODULE Query -------------------------------
(***************************************************************************)
(* One statement from its tokens to its outcome: parsing, analysis,        *)
(* optimization and planning (compile, src/compiler/compiler.cpp), then    *)
(* the executor (execute_plan_impl, src/core/executor.cpp), against a      *)
(* reference that says what SQL means without slots, plans, hash keys or   *)
(* rewriting.                                                              *)
(***************************************************************************)
EXTENDS Executor, Parser

CONSTANTS Catalog,    \* the tables: a sequence of [id, name, columns]
          Statements, \* the statements tried, as the syntax trees meant
          Damaged,    \* sequences of tokens tried: statements gone wrong
          Contents    \* the records tried: functions from table ids

VARIABLES stage,     \* how far the statement has come
          source,    \* the statement meant: <<syntax tree>>, or <<>> if damaged
          tokens,    \* its tokens
          fix,       \* the fix-it of a syntax error, <<>> or <<fix>>
          at,        \* the token of the syntax error, 0 when there is none
          before,    \* the token of the error whose fix-it was applied last
          ast,       \* the syntax tree read
          bound,     \* the analysed statement
          optimized, \* the analysed statement after rewriting
          plan,      \* the plan handed to the executor
          start,     \* the tables' records before the statement
          tables,    \* and now
          result     \* [err, rows]

parserVars == <<source, tokens, fix, at, before>>
queryVars == <<stage, parserVars, ast, bound, optimized, plan, start, tables, result>>

NoResult == Rows(<<>>)

-----------------------------------------------------------------------------
(* How a statement is written, with the fewest parentheses: OR is weaker   *)
(* than AND, AND than NOT, NOT than a comparison; AND and OR group to the  *)
(* left.                                                                   *)

Strength(e) ==
    CASE e.k \in {"col", "lit"} -> 5
      [] e.k \in {"cmp", "null"} -> 4
      [] e.k = "not" -> 3
      [] e.k = "logic" -> IF e.op = "AND" THEN 2 ELSE 1

WrittenColumn(c) ==
    IF c.q = "" THEN <<Ident(c.n)>> ELSE <<Ident(c.q), Token("."), Ident(c.n)>>

RECURSIVE Written(_, _)
Written(e, least) ==
    LET bare == CASE e.k = "col" -> WrittenColumn(e.c)
                  [] e.k = "lit" -> <<Literal(e.val)>>
                  [] e.k = "cmp" -> Written(e.l, 5) \o <<Token(e.op)>> \o Written(e.r, 5)
                  [] e.k = "null" -> Written(e.e, 5) \o <<Token("IS")>> \o
                                     (IF e.neg THEN <<Token("NOT")>> ELSE <<>>) \o <<Token("NULL")>>
                  [] e.k = "not" -> <<Token("NOT")>> \o Written(e.e, 3)
                  [] e.k = "logic" -> Written(e.l, Strength(e)) \o <<Token(e.op)>> \o
                                      Written(e.r, Strength(e) + 1)
    IN  IF Strength(e) < least THEN <<Token("(")>> \o bare \o <<Token(")")>> ELSE bare

\* What an expression takes of the statement's budget: one for every
\* operand, operator and pair of parentheses.
RECURSIVE Complexity(_, _)
Complexity(e, least) ==
    (IF Strength(e) < least THEN 1 ELSE 0) +
    CASE e.k \in {"col", "lit"} -> 1
      [] e.k = "cmp" -> 1 + Complexity(e.l, 5) + Complexity(e.r, 5)
      [] e.k = "null" -> 1 + Complexity(e.e, 5)
      [] e.k = "not" -> 1 + Complexity(e.e, 3)
      [] e.k = "logic" -> 1 + Complexity(e.l, Strength(e)) + Complexity(e.r, Strength(e) + 1)

Comma(parts) == \* the parts, separated by commas
    FlattenSeq([i \in DOMAIN parts |-> (IF i = 1 THEN <<>> ELSE <<Token(",")>>) \o parts[i]])

Paren(parts) == <<Token("(")>> \o Comma(parts) \o <<Token(")")>>

Clause(keywords, parts) == IF parts = <<>> THEN <<>> ELSE keywords \o Comma(parts)

WrittenWhere(predicate) ==
    Clause(<<Token("WHERE")>>, [i \in DOMAIN predicate |-> Written(predicate[i], 1)])

WrittenItem(item) ==
    IF item.k = "col" THEN WrittenColumn(item.c)
    ELSE <<Token(item.kind)>> \o Paren(IF item.arg = <<>> THEN << <<Token("*")>> >>
                                                         ELSE <<WrittenColumn(item.arg[1])>>)

WrittenStatement(s) ==
    CASE s.k = "create" ->
           <<Token("CREATE"), Token("TABLE"), Ident(s.table)>> \o
           Paren([i \in DOMAIN s.columns |->
                    <<Ident(s.columns[i].name), Token(s.columns[i].type)>> \o
                    (IF s.columns[i].nullable THEN <<>> ELSE <<Token("NOT"), Token("NULL")>>)])
      [] s.k = "insert" ->
           <<Token("INSERT"), Token("INTO"), Ident(s.table)>> \o
           (IF s.columns = <<>> THEN <<>>
            ELSE Paren([i \in DOMAIN s.columns |-> <<Ident(s.columns[i])>>])) \o
           Clause(<<Token("VALUES")>>,
                  [i \in DOMAIN s.rows |->
                     Paren([j \in DOMAIN s.rows[i] |-> <<Literal(s.rows[i][j])>>])])
      [] s.k = "select" ->
           <<Token("SELECT")>> \o
           (IF s.all THEN <<Token("*")>> ELSE Comma([i \in DOMAIN s.items |-> WrittenItem(s.items[i])])) \o
           <<Token("FROM"), Ident(s.table)>> \o
           FlattenSeq([i \in DOMAIN s.joins |->
              <<Token("JOIN"), Ident(s.joins[i].table), Token("ON")>> \o Written(s.joins[i].condition, 1)]) \o
           WrittenWhere(s.predicate) \o
           Clause(<<Token("GROUP"), Token("BY")>>, [i \in DOMAIN s.group_by |-> WrittenColumn(s.group_by[i])]) \o
           Clause(<<Token("ORDER"), Token("BY")>>,
                  [i \in DOMAIN s.order_by |->
                     WrittenColumn(s.order_by[i].c) \o
                     (IF s.order_by[i].desc THEN <<Token("DESC")>> ELSE <<>>)])
      [] s.k = "delete" ->
           <<Token("DELETE"), Token("FROM"), Ident(s.table)>> \o WrittenWhere(s.predicate)
      [] s.k = "update" ->
           <<Token("UPDATE"), Ident(s.table)>> \o
           Clause(<<Token("SET")>>,
                  [i \in DOMAIN s.assignments |->
                     <<Ident(s.assignments[i].column), Token("="), Literal(s.assignments[i].val)>>]) \o
           WrittenWhere(s.predicate)

WrittenTokens(s) == Append(WrittenStatement(s), Token(";"))

\* The expressions of a statement share one budget.
StatementComplexity(s) ==
    LET conditions == IF s.k = "select" THEN [i \in DOMAIN s.joins |-> s.joins[i].condition] ELSE <<>>
        predicate == IF s.k \in {"select", "delete", "update"} THEN s.predicate ELSE <<>>
    IN  FoldLeft(LAMBDA n, e : n + Complexity(e, 1), 0, conditions \o predicate)

-----------------------------------------------------------------------------
(* The steps of compile and execute_plan_impl, and the user who applies a  *)
(* fix-it and submits the statement again.                                 *)

QueryInit ==
    /\ stage = "lexed"
    /\ \/ /\ \E statement \in Statements : source = <<statement>>
          /\ start \in Contents
          /\ tokens = WrittenTokens(source[1])
       \/ /\ source = <<>>
          /\ start = CHOOSE c \in Contents : TRUE
          /\ tokens \in Damaged
    /\ tables = start
    /\ fix = <<>> /\ at = 0 /\ before = 0
    /\ ast = CompileError /\ bound = CompileError /\ optimized = CompileError
    /\ plan = CompileError
    /\ result = NoResult

Parse ==
    /\ stage = "lexed"
    /\ LET parsed == parse(tokens)
       IN  IF parsed.ok
           THEN ast' = parsed.ast /\ stage' = "parsed" /\ fix' = <<>> /\ at' = 0
           ELSE ast' = CompileError /\ stage' = "misread" /\ fix' = parsed.fix /\ at' = parsed.at
    /\ UNCHANGED <<source, tokens, before, bound, optimized, plan, start, tables, result>>

\* The fix-it is applied to the text it was made for (GuiSession's FixesFit).
ApplyFix ==
    /\ stage = "misread" /\ fix # <<>>
    /\ tokens' = SubSeq(tokens, 1, at - 1) \o <<fix[1].token>> \o
                 SubSeq(tokens, at + fix[1].replaces, Len(tokens))
    /\ before' = at
    /\ stage' = "lexed"
    /\ UNCHANGED <<source, fix, at, ast, bound, optimized, plan, start, tables, result>>

Analyze ==
    /\ stage = "parsed"
    /\ bound' = analyze(ast, Catalog)
    /\ stage' = IF Failed(bound') THEN "refused" ELSE "bound"
    /\ UNCHANGED <<parserVars, ast, optimized, plan, start, tables, result>>

Optimize ==
    /\ stage = "bound"
    /\ optimized' = optimize(bound)
    /\ stage' = "optimized"
    /\ UNCHANGED <<parserVars, ast, bound, plan, start, tables, result>>

GeneratePlan ==
    /\ stage = "optimized"
    /\ plan' = generate_plan(optimized, Catalog)
    /\ stage' = IF Failed(plan') THEN "refused" ELSE "planned"
    /\ UNCHANGED <<parserVars, ast, bound, optimized, start, tables, result>>

ExecuteQuery ==
    /\ stage = "planned" /\ plan.k = "query"
    /\ result' = execute_query(Catalog, tables, plan)
    /\ stage' = "done"
    /\ UNCHANGED <<parserVars, ast, bound, optimized, plan, start, tables>>

Changed(table, records) ==
    CASE plan.k = "insert" -> execute_insert(table, records, plan)
      [] plan.k = "delete" -> execute_delete(table, records, plan)
      [] plan.k = "update" -> execute_update(table, records, plan)

ExecuteChange ==
    /\ stage = "planned" /\ plan.k \in {"insert", "delete", "update"}
    /\ result' = Changed(TableById(Catalog, plan.table), tables[plan.table])
    /\ tables' = IF result'.err = "" THEN [tables EXCEPT ![plan.table] = result'.rows]
                                     ELSE tables
    /\ stage' = "done"
    /\ UNCHANGED <<parserVars, ast, bound, optimized, plan, start>>

\* What execute_create_table checks before it calls the storage.
ExecuteCreate ==
    /\ stage = "planned" /\ plan.k = "create"
    /\ result' = IF validate_table_metadata(plan) THEN NoResult ELSE Fails("internal")
    /\ stage' = "done"
    /\ UNCHANGED <<parserVars, ast, bound, optimized, plan, start, tables>>

QueryNext ==
    Parse \/ ApplyFix \/ Analyze \/ Optimize \/ GeneratePlan \/ ExecuteQuery \/ ExecuteChange \/ ExecuteCreate

-----------------------------------------------------------------------------
(* What SQL means.  An environment env maps the id of every table of the   *)
(* statement to one of its records.                                        *)

Number(val) == IF val.t \in Numeric THEN AsDouble(val) ELSE val.v

\* Kleene logic on 0 (false), 1 (unknown), 2 (true).
Degree(val) == IF val.t = "NULL" THEN 1 ELSE 2 * val.v
FromDegree(n) == IF n = 1 THEN Null ELSE Bool(n = 2)

RECURSIVE Sql(_, _)
Sql(e, env) ==
    CASE e.k = "col" -> env[e.c.table][e.c.col]
      [] e.k = "lit" -> e.val
      [] e.k = "cmp" ->
            LET x == Sql(e.l, env) y == Sql(e.r, env)
            IN  IF Null \in {x, y} THEN Null ELSE Bool(Holds(e.op, Number(x), Number(y)))
      [] e.k = "logic" ->
            LET degrees == {Degree(Sql(e.l, env)), Degree(Sql(e.r, env))}
            IN  FromDegree(IF e.op = "AND" THEN Min(degrees) ELSE Max(degrees))
      [] e.k = "null" -> Bool((Sql(e.e, env) = Null) # e.neg)
      [] e.k = "not" -> FromDegree(2 - Degree(Sql(e.e, env)))

Selects(predicate, env) == \A i \in DOMAIN predicate : Sql(predicate[i], env) = Bool(TRUE)

Relations(statement) ==
    <<statement.table>> \o [i \in DOMAIN statement.joins |-> statement.joins[i].table]

\* The environments of the first n relations, in the order of nested loops.
RECURSIVE Product(_, _)
Product(relations, n) ==
    IF n = 0 THEN << <<>> >>
    ELSE LET outer == Product(relations, n - 1)
             inner == start[relations[n]]
         IN  FlattenSeq([i \in DOMAIN outer |->
                [j \in DOMAIN inner |-> outer[i] @@ (relations[n] :> inner[j])]])

\* The environments that satisfy the first n join conditions.
JoinedTo(n) ==
    SelectSeq(Product(Relations(bound), n + 1),
              LAMBDA env : \A i \in 1..n : Sql(bound.joins[i].condition, env) = Bool(TRUE))

Selected == SelectSeq(JoinedTo(Len(bound.joins)), LAMBDA env : Selects(bound.predicate, env))

Aggregated == bound.group_by # <<>> \/ \E i \in DOMAIN bound.items : bound.items[i].k = "agg"

KeyOf(env) == [i \in DOMAIN bound.group_by |-> Sql(Col(bound.group_by[i]), env)]

\* The output's groups, each a sequence of environments.
Groups ==
    CASE ~Aggregated -> [i \in DOMAIN Selected |-> <<Selected[i]>>]
      [] Aggregated /\ bound.group_by = <<>> -> <<Selected>>
      [] OTHER -> LET keys == Distinct([i \in DOMAIN Selected |-> KeyOf(Selected[i])])
                  IN  [g \in DOMAIN keys |-> SelectSeq(Selected, LAMBDA env : KeyOf(env) = keys[g])]

\* The values of an aggregate's argument that are not NULL.
Arguments(item, group) ==
    SelectSeq([i \in DOMAIN group |-> Sql(Col(item.arg[1]), group[i])], LAMBDA val : val # Null)

Total(vals) == FoldLeft(LAMBDA n, val : n + val.v, 0, vals)

SqlAggregate(item, group) ==
    IF item.arg = <<>> THEN Value("BIGINT", Len(group))
    ELSE LET vals == Arguments(item, group)
         IN  CASE item.kind = "COUNT" -> Value("BIGINT", Len(vals))
               [] item.kind # "COUNT" /\ vals = <<>> -> Null
               [] item.kind = "SUM" /\ vals # <<>> -> Value(item.type, Total(vals))
               [] item.kind = "AVG" /\ vals # <<>> ->
                     Value("DOUBLE", Number(Value(vals[1].t, Total(vals))) \div Len(vals))
               [] item.kind = "MIN" /\ vals # <<>> ->
                     CHOOSE val \in ToSet(vals) : \A w \in ToSet(vals) : Number(val) <= Number(w)
               [] item.kind = "MAX" /\ vals # <<>> ->
                     CHOOSE val \in ToSet(vals) : \A w \in ToSet(vals) : Number(val) >= Number(w)

SqlItem(item, group) ==
    IF item.k = "agg" THEN SqlAggregate(item, group) ELSE Sql(item, group[1])

\* A group's place in the order: per key, NULLs last, then the value.
SortTuple(group) ==
    FlattenSeq([i \in DOMAIN bound.order_by |->
       LET val == Sql(Col(bound.order_by[i].column), group[1])
       IN  IF val = Null THEN <<1, 0>>
           ELSE <<0, IF bound.order_by[i].desc THEN -Number(val) ELSE Number(val)>>])

LexLess(s, t) == \E i \in DOMAIN s : s[i] < t[i] /\ \A j \in 1..(i - 1) : s[j] = t[j]

SqlOrder(groups) ==
    LET Before(i, j) == \/ LexLess(SortTuple(groups[i]), SortTuple(groups[j]))
                        \/ SortTuple(groups[i]) = SortTuple(groups[j]) /\ i < j
    IN  IF bound.order_by = <<>> THEN groups
        ELSE [n \in DOMAIN groups |->
                groups[CHOOSE j \in DOMAIN groups :
                         Cardinality({i \in DOMAIN groups : Before(i, j)}) = n - 1]]

SqlRows ==
    LET groups == SqlOrder(Groups)
    IN  [g \in DOMAIN groups |->
           [i \in DOMAIN bound.items |-> SqlItem(bound.items[i], groups[g])]]

\* The sum of an aggregate leaves the type it is computed in.
SumOverflows(item, vals) ==
    CASE item.kind = "SUM" -> ~InRange(item.type, Total(vals))
      [] item.kind = "AVG" -> Number(Value(vals[1].t, Total(vals)))
                                 \notin -MaxLongDouble..MaxLongDouble
      [] OTHER -> FALSE

\* The limits a query may meet: too many records scanned or joined, or a
\* sum, of some of the values, that leaves its type.
OverLimit ==
    \/ \E i \in DOMAIN Relations(bound) : Len(start[Relations(bound)[i]]) > MaxQueryRows
    \/ \E n \in DOMAIN bound.joins : Len(JoinedTo(n)) > MaxQueryRows
    \/ \E i \in DOMAIN bound.items, g \in DOMAIN Groups :
          /\ bound.items[i].k = "agg" /\ bound.items[i].arg # <<>>
          /\ LET vals == Arguments(bound.items[i], Groups[g])
             IN  \E n \in DOMAIN vals : SumOverflows(bound.items[i], SubSeq(vals, 1, n))

\* The records a change leaves, record by record.
SqlRecords ==
    LET old == start[bound.table]
        Hit(record) == Selects(bound.predicate, bound.table :> record)
        columns == TableById(Catalog, bound.table).columns
        Given(row, col) == \* the value written for a column of a new record
            row[IF ast.columns = <<>> THEN col
                ELSE CHOOSE i \in DOMAIN row : ast.columns[i] = columns[col].name]
        Stored(val, col) == IF val = Null THEN Null
                            ELSE IF columns[col].type = "DOUBLE" THEN Value("DOUBLE", Number(val))
                            ELSE Value(columns[col].type, val.v)
        Assigned(col) == SelectSeq(ast.assignments, LAMBDA a : a.column = columns[col].name)
    IN  CASE bound.k = "insert" ->
               old \o [i \in DOMAIN ast.rows |->
                         [col \in DOMAIN columns |-> Stored(Given(ast.rows[i], col), col)]]
          [] bound.k = "delete" -> SelectSeq(old, LAMBDA record : ~Hit(record))
          [] bound.k = "update" ->
               [i \in DOMAIN old |->
                  [col \in DOMAIN columns |->
                     IF Hit(old[i]) /\ Assigned(col) # <<>>
                     THEN Stored(Assigned(col)[1].val, col) ELSE old[i][col]]]

-----------------------------------------------------------------------------
(* Properties.                                                             *)

\* A statement is read as the syntax tree that was written, with the usual
\* precedence and with AND and OR grouping to the left; it is refused only
\* when its expressions together exceed the complexity budget.
ReadAsWritten ==
    (source # <<>> /\ stage # "lexed") =>
       IF StatementComplexity(source[1]) <= MaxExpressionComplexity
       THEN ast = source[1] ELSE stage = "misread"

\* Applying fix-its leads somewhere: after one is applied the parser stops
\* at a later token, or at the same one with nothing more to propose.  (It
\* may stop there: a misspelt WHERE after a WHERE clause is "corrected".)
\* No chain of fix-its goes back or goes on for ever.
FixItsAdvance ==
    (stage = "misread" /\ before > 0) => at > before \/ (at = before /\ fix = <<>>)

\* The nodes above the leftmost scan of a query's plan: the projection, a
\* join each, and a filter (that is left after rewriting), grouping and
\* sorting if there are any.
NodesAbove ==
    1 + Len(bound.joins) + Len(optimized.predicate) + (IF Aggregated THEN 1 ELSE 0) +
    (IF bound.order_by = <<>> THEN 0 ELSE 1)

TooDeep == bound.k = "select" /\ NodesAbove >= MaxPlanDepth

\* A statement the compiler accepts is an internal error to the executor,
\* which ends the session (script.cpp), if and only if it is a SELECT whose
\* plan is as deep as kMaxPlanDepth.  The plan of every other statement
\* passes validate_query_plan and the checks of execute_insert,
\* execute_delete, execute_update and execute_create_table, and no
\* expression in it fails on a stored record.
CompiledRuns == stage = "done" => (result.err = "internal" <=> TooDeep)

\* executor.cpp:27: the compiler's budget for expressions already limits the
\* depth of plans.  It does not: a join takes at least one of the budget, but
\* the projection, grouping and sorting take nothing.  No run checks this.
BudgetLimitsDepth == stage = "done" => ~TooDeep

\* The rows of a SELECT are the ones SQL asks for, in their order, whatever
\* was folded, pushed into a hash key, grouped or sorted on the way; and the
\* only refusals are the documented limits.
QueriesFollowSql ==
    (stage = "done" /\ bound.k = "select" /\ result.err # "internal") =>
       /\ (result.err = "execute") = OverLimit
       /\ result.err = "" => result.rows = SqlRows

\* An INSERT, DELETE or UPDATE leaves exactly the records SQL asks for, with
\* values of the columns' own types, and touches no other table.
ChangesFollowSql ==
    (stage = "done" /\ bound.k \in {"insert", "delete", "update"} /\ result.err = "") =>
       tables = [start EXCEPT ![bound.table] = SqlRecords]
=============================================================================
