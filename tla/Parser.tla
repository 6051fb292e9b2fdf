------------------------------- MODULE Parser -------------------------------
(***************************************************************************)
(* The recursive descent parser (src/compiler/parser.cpp), from the tokens *)
(* of one statement to its syntax tree, or to the token it stops at and    *)
(* the fix-it it proposes there.                                           *)
(*                                                                         *)
(* A token is [k, n, val]: k is a keyword, an operator, "id" (named n) or  *)
(* "literal" (with value val); NULL is a keyword that is also a literal.   *)
(* The parser's object is a record s: the next token's index i, the        *)
(* expression complexity used, whether all went well, the fix-it of an     *)
(* error, the last column reference ref and expression e read, and the     *)
(* syntax tree so far.  After an error i stays at the offending token and  *)
(* there is no next token, so that no operator below goes on.  Messages    *)
(* are left out; best_suggestion's edit distance is the map NearMiss from  *)
(* misspelt names to keywords.                                             *)
(***************************************************************************)
EXTENDS Expression, SequencesExt

CONSTANTS MaxExpressionComplexity, \* kMaxExpressionComplexity
          NearMiss                 \* function: misspelt name -> keyword

Token(kind) == [k |-> kind, n |-> "", val |-> Null]
Ident(name) == [k |-> "id", n |-> name, val |-> Null]
Literal(val) == IF val = Null THEN Token("NULL") ELSE [k |-> "literal", n |-> "", val |-> val]

Types == {"INT", "BIGINT", "DOUBLE", "BOOLEAN", "VARCHAR"}
Aggregates == {"COUNT", "SUM", "AVG", "MIN", "MAX"}
CompareOps == {"=", "!=", "<", "<=", ">", ">="}

EmptyAst == [k |-> "", table |-> "", columns |-> <<>>, rows |-> <<>>, joins |-> <<>>,
             all |-> FALSE, items |-> <<>>, predicate |-> <<>>, group_by |-> <<>>,
             order_by |-> <<>>, assignments |-> <<>>]

peek_at(s, i) ==
    CASE ~s.ok -> Token("")
      [] s.ok /\ i <= Len(s.tokens) -> s.tokens[i]
      [] OTHER -> Token("END")

peek(s) == peek_at(s, s.i)
peek_next(s) == peek_at(s, s.i + 1)
check(s, kind) == peek(s).k = kind
advance(s) == IF ~s.ok \/ check(s, "END") THEN s ELSE [s EXCEPT !.i = @ + 1]
starts_literal(kind) == kind \in {"literal", "NULL"}

-----------------------------------------------------------------------------
(* Errors.  The first one stays.  A fix-it replaces so many tokens at the  *)
(* error by one token.                                                     *)

ErrorAt(s, fix) == IF s.ok THEN [s EXCEPT !.ok = FALSE, !.fix = fix] ELSE s

syntax_error(s) == ErrorAt(s, <<>>)

insertion_error(s, kind) == ErrorAt(s, <<[replaces |-> 0, token |-> Token(kind)]>>)

best_suggestion(name, candidates) ==
    IF name \in DOMAIN NearMiss /\ NearMiss[name] \in candidates THEN <<NearMiss[name]>> ELSE <<>>

keyword_error(s, candidates) ==
    LET candidate == IF check(s, "id") THEN best_suggestion(peek(s).n, candidates) ELSE <<>>
    IN  ErrorAt(s, [j \in DOMAIN candidate |->
                      [replaces |-> 1, token |-> Token(candidate[j])]])

semicolon_error(s) == IF check(s, "END") THEN insertion_error(s, ";") ELSE syntax_error(s)

(* (mutant) The semicolon's fix-it is proposed for a parenthesis. *)
right_parenthesis_error_Semicolon(s) ==
    IF peek(s).k \in {";", "END", "FROM", "WHERE", "GROUP", "ORDER"}
    THEN insertion_error(s, ";") ELSE syntax_error(s)

right_parenthesis_error(s) ==
    IF peek(s).k \in {";", "END", "FROM", "WHERE", "GROUP", "ORDER"}
    THEN insertion_error(s, ")") ELSE syntax_error(s)

-----------------------------------------------------------------------------
(* Expected tokens.  Read(s, part), at the end, reads a part of the        *)
(* grammar: the operators that need one another go through it.             *)

RECURSIVE Read(_, _)

Match(s, kind, error) == IF check(s, kind) THEN advance(s) ELSE error

Keyword(s, kind) == Match(s, kind, keyword_error(s, {kind}))
Symbol(s, kind) == Match(s, kind, syntax_error(s))
RightParen(s) == Match(s, ")", right_parenthesis_error(s))
End(s) == IF check(s, "END") THEN s ELSE syntax_error(s)
Finish(s) == End(Match(s, ";", semicolon_error(s)))

TableName(s) ==
    LET named == Symbol(s, "id") IN [named EXCEPT !.ast.table = peek(s).n]

-----------------------------------------------------------------------------
(* Expressions: OR binds weaker than AND, AND than NOT, NOT than one       *)
(* comparison or IS NULL test.  The budget is the whole statement's.       *)

consume_expression_budget(s) ==
    IF s.used >= MaxExpressionComplexity THEN syntax_error(s) ELSE [s EXCEPT !.used = @ + 1]

Spend(s) == advance(consume_expression_budget(s))

parse_column_reference(s) ==
    LET first == Symbol(s, "id")
        second == Symbol(advance(first), "id")
    IN  IF check(first, ".")
        THEN [second EXCEPT !.ref = [q |-> peek(s).n, n |-> peek(advance(first)).n]]
        ELSE [first EXCEPT !.ref = [q |-> "", n |-> peek(s).n]]

parse_primary(s) ==
    CASE check(s, "id") ->
            LET column == parse_column_reference(consume_expression_budget(s))
            IN  [column EXCEPT !.e = Col(column.ref)]
      [] starts_literal(peek(s).k) -> [Spend(s) EXCEPT !.e = Lit(peek(s).val)]
      [] check(s, "(") -> Symbol(Read(Spend(s), "expression"), ")")
      [] OTHER -> syntax_error(s)

Compared(lhs) ==
    LET tested == Spend(lhs)
        negated == check(tested, "NOT")
    IN  CASE check(lhs, "IS") ->
               [Symbol(IF negated THEN advance(tested) ELSE tested, "NULL") EXCEPT
                   !.e = IsNull(negated, @)]
          [] peek(lhs).k \in CompareOps ->
               [Read(tested, "primary") EXCEPT !.e = Cmp(peek(lhs).k, lhs.e, @)]
          [] OTHER -> lhs

parse_comparison(s) == Compared(Read(s, "primary"))

(* (mutant) NOT binds tighter than a comparison. *)
parse_not_Tight(s) ==
    IF check(s, "NOT")
    THEN [Read(Spend(s), "primary") EXCEPT !.e = Not(@)]
    ELSE parse_comparison(s)

parse_not(s) ==
    IF check(s, "NOT")
    THEN [Read(Spend(s), "negation") EXCEPT !.e = Not(@)]
    ELSE parse_comparison(s)

\* The other operands of a chain of ANDs or ORs.
RECURSIVE Rest(_, _, _)
Rest(lhs, op, part) ==
    IF ~check(lhs, op) THEN lhs
    ELSE Rest([Read(Spend(lhs), part) EXCEPT !.e = Logic(op, lhs.e, @)], op, part)

parse_and(s) == Rest(Read(s, "negation"), "AND", "negation")

parse_or(s) == Rest(Read(s, "conjunction"), "OR", "conjunction")

Where(s) ==
    IF ~check(s, "WHERE") THEN s
    ELSE LET read == Read(advance(s), "expression") IN [read EXCEPT !.ast.predicate = <<read.e>>]

-----------------------------------------------------------------------------
(* Comma-separated lists, and their items.                                 *)

\* Where a list is not continued but the next token could be an item, the
\* error proposes the comma.
MissingComma(part, kind) ==
    CASE part \in {"definition", "group", "order", "assignment"} -> kind = "id"
      [] part = "element" -> starts_literal(kind)
      [] OTHER -> FALSE

RECURSIVE List(_, _)
List(s, part) ==
    LET item == Read(s, part)
    IN  CASE check(item, ",") -> List(advance(item), part)
          [] MissingComma(part, peek(item).k) -> insertion_error(item, ",")
          [] OTHER -> item

ColumnDef(s) ==
    LET name == Symbol(s, "id")
        type == IF peek(name).k \in Types THEN advance(name) ELSE syntax_error(name)
        done == CASE check(type, "NULL") -> advance(type)
                  [] check(type, "NOT") -> Keyword(advance(type), "NULL")
                  [] OTHER -> type
    IN  [done EXCEPT !.ast.columns = Append(@, [name |-> peek(s).n, type |-> peek(name).k,
                                                nullable |-> ~check(type, "NOT")])]

InsertColumn(s) == [Symbol(s, "id") EXCEPT !.ast.columns = Append(@, peek(s).n)]

ReadLiteral(s) == IF starts_literal(peek(s).k) THEN advance(s) ELSE syntax_error(s)

Element(s) ==
    [ReadLiteral(s) EXCEPT !.ast.rows[Len(s.ast.rows)] = Append(@, peek(s).val)]

Assignment(s) ==
    LET target == Symbol(Symbol(s, "id"), "=")
    IN  [ReadLiteral(target) EXCEPT
            !.ast.assignments = Append(@, [column |-> peek(s).n, val |-> peek(target).val])]

\* Only COUNT takes a "*".
Aggregate(s) ==
    LET open == Symbol(advance(s), "(")
        star == IF check(s, "COUNT") THEN advance(open) ELSE syntax_error(advance(open))
        column == parse_column_reference(open)
        argument == IF check(open, "*") THEN star ELSE column
    IN  [RightParen(argument) EXCEPT
            !.ast.items = Append(@, [k |-> "agg", kind |-> peek(s).k,
                                     arg |-> IF check(open, "*") THEN <<>> ELSE <<column.ref>>])]

SelectItem(s) ==
    IF peek(s).k \in Aggregates THEN Aggregate(s)
    ELSE LET column == parse_column_reference(s)
         IN  [column EXCEPT !.ast.items = Append(@, Col(column.ref))]

GroupKeyItem(s) ==
    LET column == parse_column_reference(s)
    IN  [column EXCEPT !.ast.group_by = Append(@, column.ref)]

SortKey(s) ==
    LET column == parse_column_reference(s)
        directed == IF peek(column).k \in {"ASC", "DESC"} THEN advance(column) ELSE column
    IN  [directed EXCEPT !.ast.order_by = Append(@, [c |-> column.ref,
                                                     desc |-> check(column, "DESC")])]

Row(s) ==
    LET open == Symbol(s, "(")
    IN  RightParen(List([open EXCEPT !.ast.rows = Append(@, <<>>)], "element"))

-----------------------------------------------------------------------------
(* Statements.                                                             *)

parse_create_table(s) ==
    Finish(RightParen(List(Symbol(TableName(Keyword(s, "TABLE")), "("), "definition")))

parse_insert(s) ==
    LET table == TableName(Keyword(s, "INTO"))
        columns == IF check(table, "(") THEN RightParen(List(advance(table), "column")) ELSE table
    IN  Finish(List(Keyword(columns, "VALUES"), "row"))

\* A name after a table's is an alias when what follows it could go on
\* after an alias; AS always announces one.
reject_table_alias(s) ==
    CASE check(s, "id") /\ peek(s).n = "as" -> syntax_error(advance(s))
      [] /\ check(s, "id") /\ peek(s).n # "as"
         /\ peek_next(s).k \in {";", "JOIN", "INNER", "ON", "WHERE", "GROUP", "ORDER"} ->
            syntax_error(s)
      [] OTHER -> s

From(s) ==
    Match(s, "FROM",
        CASE check(s, "id") /\ peek(s).n = "as" -> syntax_error(s)
          [] check(s, "id") /\ peek(s).n # "as" /\ peek_next(s).k = "FROM" ->
                insertion_error(s, ",")
          [] OTHER -> keyword_error(s, {"FROM"}))

\* [INNER] JOIN table ON condition; after INNER JOIN one more JOIN is taken.
RECURSIVE Joins(_)
Joins(s) ==
    LET inner == IF check(s, "INNER") THEN Keyword(advance(s), "JOIN") ELSE s
        joined == IF check(inner, "JOIN") THEN advance(inner) ELSE inner
        table == reject_table_alias(Symbol(joined, "id"))
        condition == Read(Keyword(table, "ON"), "expression")
    IN  IF peek(s).k \notin {"JOIN", "INNER"} THEN s
        ELSE Joins([condition EXCEPT
                      !.ast.joins = Append(@, [table |-> peek(joined).n,
                                               condition |-> condition.e])])

SelectList(s) ==
    IF check(s, "*") THEN [advance(s) EXCEPT !.ast.all = TRUE] ELSE List(s, "item")

\* The end of a SELECT, where a misspelt clause is still recognized.
FinishSelect(s) ==
    LET clause == keyword_error(s, {"JOIN", "INNER", "WHERE", "GROUP", "ORDER"})
    IN  End(Match(s, ";", IF clause.fix # <<>> THEN clause ELSE semicolon_error(s)))

By(s, clause, part) ==
    IF check(s, clause) THEN List(Keyword(advance(s), "BY"), part) ELSE s

parse_select(s) ==
    LET from == reject_table_alias(TableName(From(SelectList(s))))
        where == Where(Joins(from))
        grouped == By(where, "GROUP", "group")
        ordered == By(grouped, "ORDER", "order")
    IN  FinishSelect(ordered)

parse_delete(s) == Finish(Where(TableName(Keyword(s, "FROM"))))

parse_update(s) == Finish(Where(List(Keyword(TableName(s), "SET"), "assignment")))

Read(s, part) ==
    CASE part = "expression"  -> parse_or(s)
      [] part = "conjunction" -> parse_and(s)
      [] part = "negation"    -> parse_not(s)
      [] part = "primary"     -> parse_primary(s)
      [] part = "definition"  -> ColumnDef(s)
      [] part = "column"      -> InsertColumn(s)
      [] part = "row"         -> Row(s)
      [] part = "element"     -> Element(s)
      [] part = "item"        -> SelectItem(s)
      [] part = "group"       -> GroupKeyItem(s)
      [] part = "order"       -> SortKey(s)
      [] part = "assignment"  -> Assignment(s)
      [] part = "create"      -> parse_create_table(s)
      [] part = "insert"      -> parse_insert(s)
      [] part = "select"      -> parse_select(s)
      [] part = "delete"      -> parse_delete(s)
      [] part = "update"      -> parse_update(s)

\* The fields a statement's syntax tree has.
Fields(kind) ==
    CASE kind = "create" -> {"k", "table", "columns"}
      [] kind = "insert" -> {"k", "table", "columns", "rows"}
      [] kind = "select" -> {"k", "table", "joins", "all", "items", "predicate",
                             "group_by", "order_by"}
      [] kind = "delete" -> {"k", "table", "predicate"}
      [] kind = "update" -> {"k", "table", "assignments", "predicate"}

Statement(s, kind) ==
    [ok |-> s.ok, at |-> s.i, fix |-> s.fix,
     ast |-> [f \in Fields(kind) |-> IF f = "k" THEN kind ELSE s.ast[f]]]

parse(tokens) ==
    LET s == [tokens |-> tokens, i |-> 1, used |-> 0, ok |-> TRUE, fix |-> <<>>,
              ref |-> [q |-> "", n |-> ""], e |-> Lit(Null), ast |-> EmptyAst]
        kinds == [CREATE |-> "create", INSERT |-> "insert", SELECT |-> "select",
                  DELETE |-> "delete", UPDATE |-> "update"]
        first == peek(s).k
    IN  IF first \in DOMAIN kinds
        THEN Statement(Read(advance(s), kinds[first]), kinds[first])
        ELSE Statement(keyword_error(s, DOMAIN kinds), "delete")
=============================================================================
