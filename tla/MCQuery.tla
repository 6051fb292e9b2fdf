------------------------------ MODULE MCQuery ------------------------------
(***************************************************************************)
(* The statements and tables of the query run.  t and u share a column     *)
(* name; t.a and u.c are of one type (a hash key), t.a and u.a are not.    *)
(***************************************************************************)
EXTENDS Query

Column(name, type, nullable) == [name |-> name, type |-> type, nullable |-> nullable]

\* Ten small tables, for long joins.
Small == [i \in 1..10 |->
    [id |-> 3 + i, name |-> <<"s1", "s2", "s3", "s4", "s5", "s6", "s7", "s8", "s9", "s10">>[i],
     columns |-> <<Column("k", "INT", FALSE)>>]]

MCCatalog ==
    << [id |-> 1, name |-> "t",
        columns |-> <<Column("a", "INT", FALSE), Column("b", "BOOLEAN", TRUE)>>],
       [id |-> 2, name |-> "u",
        columns |-> <<Column("a", "BIGINT", TRUE), Column("c", "INT", TRUE)>>],
       [id |-> 3, name |-> "w",
        columns |-> <<Column("d", "DOUBLE", TRUE), Column("s", "VARCHAR", FALSE)>>] >> \o Small

I(n) == Value("INT", n)
L(n) == Value("BIGINT", n)
D(n) == Value("DOUBLE", n)
S(n) == Value("VARCHAR", n)
True == Bool(TRUE)
False == Bool(FALSE)

MCContents == {big @@ [id \in 4..13 |-> << <<I(id)>> >>] : big \in
    { (1 :> << <<I(1), True>>, <<I(2), Null>>, <<I(1), False>> >>) @@
      (2 :> << <<L(1), I(1)>>, <<Null, I(2)>>, <<L(2), Null>> >>) @@
      (3 :> << <<D(9), S(2)>>, <<Null, S(1)>>, <<D(-6), S(1)>> >>),
      (1 :> <<>>) @@ (2 :> << <<L(2), I(1)>> >>) @@ (3 :> << <<D(12), S(1)>> >>),
      (1 :> << <<I(1), Null>> >>) @@
      (2 :> << <<L(1), I(1)>>, <<L(1), I(1)>>, <<L(1), I(1)>>, <<L(1), I(1)>> >>) @@
      (3 :> << <<D(12), S(1)>>, <<D(12), S(1)>>, <<D(18), S(2)>> >>) }}

-----------------------------------------------------------------------------
(* Predicates.                                                             *)

Name(n) == Col([q |-> "", n |-> n])
In(q, n) == Col([q |-> q, n |-> n])

Leaves == {Name("a"), Name("b"), Lit(I(1)), Lit(D(6)), Lit(D(9)), Lit(S(1)),
           Lit(True), Lit(False), Lit(Null)}

Atoms == {Name("b"), Lit(True), Lit(False), Lit(Null), Cmp("=", Name("a"), Lit(I(1))),
          Cmp("=", Lit(Null), Lit(I(1))), Cmp("<", Lit(I(1)), Lit(D(9))),
          Cmp("!=", Lit(S(1)), Lit(S(1)))}

Comparisons == {Cmp(op, l, r) : op \in {"=", "<", ">="}, l \in Leaves, r \in Leaves}
Negated == Atoms \cup {Not(e) : e \in Atoms} \cup {Not(Not(e)) : e \in Atoms}
Tested == {IsNull(neg, e) : neg \in BOOLEAN, e \in Leaves \cup Atoms}
Combined == {Logic(op, l, r) : op \in {"AND", "OR"}, l \in Negated, r \in Negated}
Nested == {Not(Logic(op, l, r)) : op \in {"AND", "OR"}, l \in Atoms, r \in Atoms}
          \cup {IsNull(FALSE, Logic(op, l, r)) : op \in {"AND", "OR"}, l \in Atoms, r \in Atoms}
          \cup {Cmp("=", Logic(op, l, Name("b")), r) : op \in {"AND", "OR"}, l \in Atoms, r \in Atoms}

Predicates == Comparisons \cup Negated \cup Tested \cup Combined \cup Nested

-----------------------------------------------------------------------------
(* Statements.                                                             *)

Select(table, joins, items, predicate, group_by, order_by) ==
    [k |-> "select", table |-> table, joins |-> joins, all |-> items = <<>>, items |-> items,
     predicate |-> predicate, group_by |-> group_by, order_by |-> order_by]
Agg(kind, arg) == [k |-> "agg", kind |-> kind, arg |-> arg]
Key(q, n) == [q |-> q, n |-> n]
Order(q, n, desc) == [c |-> Key(q, n), desc |-> desc]

Filters ==
    {Select("t", <<>>, <<>>, <<e>>, <<>>, <<>>) : e \in Predicates}
    \cup {[k |-> "delete", table |-> "t", predicate |-> <<e>>] : e \in Predicates}

Join(table, condition) == [table |-> table, condition |-> condition]
Equal(l, r) == Cmp("=", l, r)

\* Conditions for t JOIN u, or for t, u and w: the hash key alone, swapped,
\* twice, under OR and NOT, beside a second condition, none, and refused.
Conditions ==
    LET hashed == Equal(In("t", "a"), Name("c"))
        looped == Equal(In("t", "a"), In("u", "a"))
        extra == Cmp("<", In("u", "a"), Lit(I(2)))
    IN  {hashed, Equal(Name("c"), In("t", "a")), looped, Equal(In("u", "a"), In("t", "a")),
         Equal(In("u", "a"), Name("c")), Equal(Name("a"), Name("c")), Lit(True), Lit(Null),
         Name("b"), Lit(I(1)), Equal(In("t", "a"), In("w", "d")), Not(hashed), Not(looped)}
        \cup {Logic(op, l, r) : op \in {"AND", "OR"},
                                l \in {hashed, looped, extra}, r \in {hashed, looped, extra, Name("b"), Lit(False)}}

Items ==
    {<<>>, <<In("t", "a")>>, <<In("u", "a"), Name("b"), In("u", "a")>>, <<Name("c"), Agg("COUNT", <<>>)>>,
     <<Agg("COUNT", <<Key("u", "a")>>), Agg("SUM", <<Key("", "c")>>)>>,
     <<Agg("MIN", <<Key("u", "a")>>), Agg("MAX", <<Key("t", "a")>>)>>,
     <<Agg("AVG", <<Key("u", "a")>>)>>, <<Agg("MAX", <<Key("", "b")>>)>>,
     <<Agg("SUM", <<Key("", "b")>>)>>, <<Name("a")>>}

Groupings == {<<>>, <<Key("", "c")>>, <<Key("", "c"), Key("", "c")>>, <<Key("t", "a"), Key("", "b")>>}
Orderings == {<<>>, <<Order("", "c", FALSE)>>, <<Order("", "c", TRUE), Order("t", "a", FALSE)>>,
              <<Order("u", "a", TRUE)>>}

JoinStatements ==
    {Select("t", <<Join("u", e)>>, items, <<>>, <<>>, order) :
        e \in Conditions, items \in {<<>>, <<In("u", "a"), Name("b"), In("u", "a")>>}, order \in Orderings}
    \cup {Select("t", <<Join("u", Equal(In("t", "a"), In("u", "a")))>>, items, where, group, order) :
        items \in Items, where \in {<<>>, <<Cmp("<", Name("c"), Lit(I(2)))>>}, group \in Groupings, order \in Orderings}
    \cup {Select("t", <<Join("u", e), Join("w", f)>>, <<>>, <<>>, <<>>, <<>>) :
        e \in Conditions, f \in {Lit(True), Cmp("<", In("t", "a"), Name("d")), Equal(In("u", "a"), Name("d")),
                                 Logic("AND", Equal(In("u", "a"), Name("d")), Name("b"))}}
    \cup {Select("t", <<Join(x, Lit(True))>>, <<>>, <<>>, <<>>, <<>>) : x \in {"t", "w", "unknown"}}

\* Joins of small tables, about as many as the limits allow.
LongJoins ==
    {Select("s1", [i \in 1..n |-> Join(IF i < 10 THEN Small[i + 1].name ELSE "t", Lit(True))],
            items, where, group, order) :
        n \in 6..10, items \in {<<>>, <<Agg("COUNT", <<>>)>>, <<In("s1", "k")>>},
        where \in {<<>>, <<Lit(True)>>, <<Equal(In("s1", "k"), In("s2", "k"))>>},
        group \in {<<>>, <<Key("s1", "k")>>}, order \in {<<>>, <<Order("s1", "k", TRUE)>>}}

\* One table: groups with NULL keys, and sums and orders over every type.
Groups1 ==
    {Select(table, <<>>, <<Name(n), Agg(kind, <<Key("", n)>>)>>, <<>>, group, order) :
        table \in {"t", "u", "w"}, n \in {"a", "b", "c", "d", "s"}, kind \in {"COUNT", "SUM", "AVG", "MIN", "MAX"},
        group \in {<<Key("", m)>> : m \in {"a", "b", "c", "d", "s"}} \cup {<<>>}, order \in {<<>>, <<Order("", "a", TRUE)>>, <<Order("", "c", FALSE)>>}}
    \cup {Select(table, <<>>, <<Agg(kind, <<Key("", n)>>)>>, <<>>, <<>>, <<>>) :
        table \in {"t", "u", "w"}, n \in {"a", "b", "c", "d", "s"}, kind \in {"COUNT", "SUM", "AVG", "MIN", "MAX"}}
    \cup {Select(table, <<>>, <<>>, <<>>, <<>>, <<Order("", n, desc), Order("", m, ~desc)>>) :
        table \in {"t", "u", "w"}, n \in {"a", "b", "d", "s"}, m \in {"a", "c", "d", "s"}, desc \in BOOLEAN}

Vals == {I(2), L(2), D(9), S(1), True, Null}

Inserts ==
    {[k |-> "insert", table |-> table, columns |-> columns, rows |-> rows] :
        table \in {"t", "u", "w"},
        columns \in {<<>>, <<"a", "b">>, <<"b", "a">>, <<"c", "a">>, <<"s", "d">>, <<"a", "a">>, <<"a">>},
        rows \in {<< <<x, y>> >> : x \in Vals, y \in Vals}
                 \cup {<< <<I(1), True>>, <<I(2), x>> >> : x \in Vals} \cup {<< <<I(1)>> >>}}

Updates ==
    {[k |-> "update", table |-> table, assignments |-> <<[column |-> n, val |-> x]>>, predicate |-> where] :
        table \in {"t", "u", "w"}, n \in {"a", "b", "c", "d", "s"}, x \in Vals,
        where \in {<<>>, <<Cmp(">=", Name("a"), Lit(D(9)))>>, <<IsNull(FALSE, Name("d"))>>}}
    \cup {[k |-> "update", table |-> "u",
           assignments |-> <<[column |-> n, val |-> x], [column |-> m, val |-> I(1)]>>, predicate |-> <<>>] :
        n \in {"a", "c"}, m \in {"a", "c"}, x \in Vals}
    \cup {[k |-> "update", table |-> "t", assignments |-> <<[column |-> "a", val |-> I(3)]>>, predicate |-> <<e>>] :
        e \in Combined}

Creates ==
    {[k |-> "create", table |-> name, columns |-> <<Column(n, "INT", TRUE), Column(m, "VARCHAR", FALSE)>>] :
        name \in {"t", "new"}, n \in {"a", "b"}, m \in {"a", "b"}}

MCStatements == Filters \cup JoinStatements \cup LongJoins \cup Groups1 \cup Inserts \cup Updates \cup Creates

-----------------------------------------------------------------------------
(* Damaged statements: one token dropped, doubled, replaced or put in.     *)

MCNearMiss == [n \in {"selct", "form", "whre", "jion", "gropu", "nul", "valeus", "st", "no"} |->
    CASE n = "selct" -> "SELECT" [] n = "form" -> "FROM" [] n = "whre" -> "WHERE"
      [] n = "jion" -> "JOIN" [] n = "gropu" -> "GROUP" [] n = "nul" -> "NULL"
      [] n = "valeus" -> "VALUES" [] n = "st" -> "SET" [] n = "no" -> "ON"]

Sound ==
    {WrittenTokens(statement) : statement \in
       {Select("t", <<Join("u", Logic("OR", Equal(In("t", "a"), Name("c")), Not(Name("b"))))>>,
               <<Name("c"), Agg("COUNT", <<>>), Agg("SUM", <<Key("u", "a")>>)>>,
               <<IsNull(TRUE, Logic("AND", Name("b"), Name("b")))>>,
               <<Key("", "c"), Key("u", "a")>>, <<Order("", "c", TRUE), Order("u", "a", FALSE)>>),
        [k |-> "create", table |-> "new",
         columns |-> <<Column("a", "INT", FALSE), Column("b", "VARCHAR", TRUE)>>],
        [k |-> "insert", table |-> "t", columns |-> <<"b", "a">>,
         rows |-> << <<True, I(1)>>, <<Null, I(2)>> >>],
        [k |-> "delete", table |-> "t", predicate |-> <<Name("b")>>],
        [k |-> "update", table |-> "u",
         assignments |-> <<[column |-> "a", val |-> I(1)], [column |-> "c", val |-> Null]>>,
         predicate |-> <<Equal(Name("a"), Lit(I(1)))>>]}}

Intruders == {Ident(n) : n \in DOMAIN MCNearMiss \cup {"x", "as"}}
             \cup {Token(k) : k \in {",", "(", ")", ";", "*", "INNER", "JOIN", "WHERE", "NULL", "NOT", "="}}
             \cup {Literal(I(1))}

Without(s, i) == SubSeq(s, 1, i - 1) \o SubSeq(s, i + 1, Len(s))
With(s, i, t) == SubSeq(s, 1, i - 1) \o <<t>> \o SubSeq(s, i, Len(s))

Once(s) == {Without(s, i) : i \in DOMAIN s} \cup {With(s, i, t) : i \in DOMAIN s, t \in Intruders}
           \cup {[s EXCEPT ![i] = t] : i \in DOMAIN s, t \in Intruders}

\* One token of damage, or two tokens dropped.
MCDamaged == UNION {Once(s) \cup {Without(Without(s, i), j) : i \in 1..Len(s), j \in 1..(Len(s) - 1)} :
                     s \in Sound}

QuerySpec == QueryInit /\ [][QueryNext]_queryVars
=============================================================================
