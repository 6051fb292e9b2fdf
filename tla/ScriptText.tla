----------------------------- MODULE ScriptText -----------------------------
(***************************************************************************)
(* From the bytes of a script to its statements and tokens, and from the   *)
(* place of an error in a statement back to its place in the script:       *)
(* split_statements (src/compiler/compiler.cpp), the lexer                 *)
(* (src/compiler/lexer.cpp) and the range checks of the core               *)
(* (src/core/diagnostics.cpp, src/core/script.cpp).                        *)
(*                                                                         *)
(* A text is a sequence of bytes: "x" and "e" are letters, "1" a digit,    *)
(* "lf", "cr" and "sp" white space, "~" a byte that is not UTF-8, and the  *)
(* others stand for themselves.  Offsets start at 0.  A location is        *)
(* [line, column, offset].                                                 *)
(***************************************************************************)
EXTENDS Integers, Sequences, FiniteSets, SequencesExt

CONSTANTS Texts,              \* the scripts tried
          MaxSqlBytes,        \* kMaxSqlBytes
          MaxVarcharBytes,    \* kMaxVarcharBytes
          MaxIdentifierBytes, \* 64
          MaxIntegerDigits,   \* the digits of the largest integer literal
          MaxDoubleDigits,    \* the digits before the "." of the largest double
          MaxStatements       \* kMaxStatementsPerScript

Bytes == {"x", "e", "1", "_", "sp", "lf", "cr", "'", ";", "-", "/", "*", ".", "+", "<", "=", "!",
          "(", ")", ",", "~"}

(* Scripts are finite. *)
ASSUME TextAssumption ==
    /\ Texts \subseteq Seq(Bytes)
    /\ {MaxSqlBytes, MaxVarcharBytes, MaxIdentifierBytes, MaxIntegerDigits, MaxDoubleDigits,
        MaxStatements} \subseteq Nat
    /\ MaxIdentifierBytes # 0

VARIABLES text,       \* the script
          stage,      \* "new", "compiling", "refused", "internal" or "done"
          statements, \* its statements: [begin, end] locations
          compiled    \* per statement compiled: [tokens, error, at]

textVars == <<text, stage, statements, compiled>>

\* The byte at an offset; past the end a byte that matches nothing.
ByteAt(t, i) == IF i < Len(t) THEN t[i + 1] ELSE "nul"
is_whitespace(byte) == byte \in {"sp", "lf", "cr"}
Letters == {"x", "e"}
Digits == {"1"}
is_identifier_continue(byte) == byte \in Letters \cup Digits \cup {"_"}

-----------------------------------------------------------------------------
(* Locations, as the splitter and the lexer count them: a "cr" never takes *)
(* a column.                                                               *)

Origin == [line |-> 1, column |-> 1, offset |-> 0]

(* (mutant) A new line goes on counting columns. *)
advance_location_NoReset(loc, byte) ==
    [line |-> loc.line + (IF byte = "lf" THEN 1 ELSE 0),
     column |-> loc.column + (IF byte = "cr" THEN 0 ELSE 1),
     offset |-> loc.offset + 1]

advance_location(loc, byte) ==
    [line |-> loc.line + (IF byte = "lf" THEN 1 ELSE 0),
     column |-> CASE byte = "lf" -> 1
                  [] byte = "cr" -> loc.column
                  [] OTHER -> loc.column + 1,
     offset |-> loc.offset + 1]

location(t, i) ==
    LET at[n \in 0..i] == IF n = 0 THEN Origin ELSE advance_location(at[n - 1], t[n])
    IN  at[i]

-----------------------------------------------------------------------------
(* split_statements.  r is the loop's state: the SplitState, the index,    *)
(* the start of the segment, whether it has content, the segments so far.  *)
(* A round of this and of the lexer's loops takes at least one byte, and   *)
(* as many rounds as the text has bytes are enough (theorem LoopsFinish).  *)

Segment(t, r, last) == [begin |-> location(t, r.start), end |-> location(t, last)]

SplitStep(t, r) ==
    LET byte == ByteAt(t, r.index)
        next == ByteAt(t, r.index + 1)
        To(state, n) == [r EXCEPT !.state = state, !.index = @ + n]
    IN  CASE r.state = "normal" ->
               CASE byte = "'" -> [To("string", 1) EXCEPT !.content = TRUE]
                 [] byte = "-" /\ next = "-" -> To("line", 2)
                 [] byte = "/" /\ next = "*" -> To("block", 2)
                 [] byte = ";" ->
                      [To("normal", 1) EXCEPT
                         !.out = IF r.content THEN Append(@, Segment(t, r, r.index + 1)) ELSE @,
                         !.start = r.index + 1, !.content = FALSE]
                 [] OTHER -> [To("normal", 1) EXCEPT !.content = @ \/ ~is_whitespace(byte)]
          [] r.state = "string" ->
               IF byte = "'" /\ next = "'" THEN To("string", 2)
               ELSE To(IF byte = "'" THEN "normal" ELSE "string", 1)
          [] r.state = "line" -> To(IF byte = "lf" THEN "normal" ELSE "line", 1)
          [] r.state = "block" ->
               IF byte = "*" /\ next = "/" THEN To("normal", 2) ELSE To("block", 1)

SplitLoop(t, r) == IF r.index >= Len(t) THEN r ELSE SplitStep(t, r)

SplitStart == [state |-> "normal", index |-> 0, start |-> 0, content |-> FALSE, out |-> <<>>]

SplitRun(t) ==
    LET run[n \in 0..Len(t)] == IF n = 0 THEN SplitStart ELSE SplitLoop(t, run[n - 1])
    IN  run[Len(t)]

split_statements(t) ==
    LET r == SplitRun(t)
    IN  IF r.content \/ r.state \in {"string", "block"}
        THEN Append(r.out, Segment(t, r, Len(t))) ELSE r.out

-----------------------------------------------------------------------------
(* The lexer.  A token is [kind, begin, end] and an error [what, begin,    *)
(* end], in offsets; a scan step returns [tokens, error, i], error being   *)
(* <<>> or <<error>>.                                                      *)

\* The end of the run of bytes that starts at i.
RunEnd(t, i, bytes) ==
    CHOOSE j \in i..Len(t) : /\ \A m \in i..(j - 1) : ByteAt(t, m) \in bytes
                             /\ ByteAt(t, j) \notin bytes

Yields(kind, i, j) == [tokens |-> <<[kind |-> kind, begin |-> i, end |-> j]>>,
                       error |-> <<>>, i |-> j]
Skips(j) == [tokens |-> <<>>, error |-> <<>>, i |-> j]
Stops(what, i, j) == [tokens |-> <<>>, error |-> <<[what |-> what, begin |-> i, end |-> j]>>,
                      i |-> j]

skip_line_comment(t, i) ==
    Skips(CHOOSE j \in i..Len(t) : /\ j = Len(t) \/ ByteAt(t, j) = "lf"
                                   /\ \A m \in i..(j - 1) : ByteAt(t, m) # "lf")

(* (mutant) The star that opens a comment may also close it. *)
skip_block_comment_Short(t, i) ==
    LET closed == {j \in (i + 1)..(Len(t) - 2) : ByteAt(t, j) = "*" /\ ByteAt(t, j + 1) = "/"}
    IN  IF closed = {} THEN Stops("comment", i, Len(t))
        ELSE Skips((CHOOSE j \in closed : \A m \in closed : j <= m) + 2)

skip_block_comment(t, i) ==
    LET closed == {j \in (i + 2)..(Len(t) - 2) : ByteAt(t, j) = "*" /\ ByteAt(t, j + 1) = "/"}
    IN  IF closed = {} THEN Stops("comment", i, Len(t))
        ELSE Skips((CHOOSE j \in closed : \A m \in closed : j <= m) + 2)

scan_word(t, i) ==
    LET end == RunEnd(t, i, Letters \cup Digits \cup {"_"})
    IN  IF end - i > MaxIdentifierBytes THEN Stops("identifier", i, i + MaxIdentifierBytes)
        ELSE Yields("word", i, end)

\* A "." belongs to the number only before a digit or an exponent, and
\* exponents are refused.  A literal is out of range when it has too many
\* digits.
scan_number(t, i) ==
    LET whole == RunEnd(t, i, Digits)
        dotted == ByteAt(t, whole) = "."
        end == CASE dotted /\ ByteAt(t, whole + 1) \in Digits -> RunEnd(t, whole + 1, Digits)
                 [] dotted /\ ByteAt(t, whole + 1) = "e" -> whole + 1
                 [] OTHER -> whole
        sign == IF ByteAt(t, end + 1) \in {"+", "-"} THEN end + 2 ELSE end + 1
    IN  IF ByteAt(t, end) = "e" THEN Stops("exponent", i, RunEnd(t, sign, Digits))
        ELSE IF end = whole /\ end - i > MaxIntegerDigits THEN Stops("integer", i, end)
        ELSE IF end # whole /\ whole - i > MaxDoubleDigits THEN Stops("double", i, end)
        ELSE Yields("number", i, end)

\* A string literal reads on to its closing quote, the end of the text or
\* its limit: r is the place and the bytes of value read.
Doubled(t, j) == ByteAt(t, j) = "'" /\ ByteAt(t, j + 1) = "'"
Closes(t, j) == ByteAt(t, j) = "'" /\ ByteAt(t, j + 1) # "'"

StringLoop(t, r) ==
    IF r.j >= Len(t) \/ Closes(t, r.j) \/ r.size >= MaxVarcharBytes THEN r
    ELSE [j |-> IF Doubled(t, r.j) THEN r.j + 2 ELSE r.j + 1, size |-> r.size + 1]

StringRun(t, i) ==
    LET run[n \in 0..Len(t)] == IF n = 0 THEN [j |-> i + 1, size |-> 0]
                                ELSE StringLoop(t, run[n - 1])
    IN  run[Len(t)]

scan_string(t, i) ==
    LET j == StringRun(t, i).j
    IN  CASE j >= Len(t) -> Stops("string", i, j)
          [] j < Len(t) /\ Closes(t, j) ->
               IF "~" \in {ByteAt(t, m) : m \in i..j} THEN Stops("utf8", i, j + 1)
               ELSE Yields("string", i, j + 1)
          [] OTHER -> Stops("varchar", i, j)

\* One- and two-byte operators; every other byte is refused.
scan_symbol(t, i) ==
    LET byte == ByteAt(t, i)
        equal == ByteAt(t, i + 1) = "="
    IN  CASE byte \in {"=", "(", ")", ",", ";", "*", "."} -> Yields(byte, i, i + 1)
          [] byte = "<" -> Yields(byte, i, IF equal THEN i + 2 ELSE i + 1)
          [] byte = "!" /\ equal -> Yields("!=", i, i + 2)
          [] OTHER -> Stops("character", i, i + 1)

ScanStep(t, i) ==
    LET byte == ByteAt(t, i)
        next == ByteAt(t, i + 1)
    IN  CASE is_whitespace(byte) -> Skips(i + 1)
          [] byte = "-" /\ next = "-" -> skip_line_comment(t, i)
          [] byte = "/" /\ next = "*" -> skip_block_comment(t, i)
          [] byte \in Letters -> scan_word(t, i)
          [] byte \in Digits -> scan_number(t, i)
          [] byte = "'" -> scan_string(t, i)
          [] OTHER -> scan_symbol(t, i)

ScanLoop(t, r) ==
    LET step == ScanStep(t, r.i)
    IN  IF r.i >= Len(t) \/ r.error # <<>> THEN r
        ELSE [tokens |-> r.tokens \o step.tokens, error |-> step.error, i |-> step.i]

tokenize(t) ==
    LET run[n \in 0..Len(t)] == IF n = 0 THEN Skips(0) ELSE ScanLoop(t, run[n - 1])
    IN  run[Len(t)]

-----------------------------------------------------------------------------
(* The core's own view of locations: a "cr" takes a column unless a "lf"   *)
(* follows it, and no range may end between the two.                       *)

Nowhere == [line |-> 0, column |-> 0, offset |-> 0]

is_valid_endpoint(t, i) == i <= Len(t) /\ ~(i > 0 /\ ByteAt(t, i - 1) = "cr" /\ ByteAt(t, i) = "lf")

location_at_offset(t, i) ==
    LET breaks == {m \in 0..(i - 1) : ByteAt(t, m) = "lf"}
        first == IF breaks = {} THEN 0 ELSE (CHOOSE m \in breaks : \A n \in breaks : n <= m) + 1
    IN  IF ~is_valid_endpoint(t, i) THEN Nowhere
        ELSE [line |-> Cardinality(breaks) + 1, column |-> i - first + 1, offset |-> i]

is_valid_source_range(t, range) ==
    /\ range.begin.offset <= range.end.offset
    /\ range.begin = location_at_offset(t, range.begin.offset)
    /\ range.end = location_at_offset(t, range.end.offset)

\* The range of the script, or <<>>.
absolutize_range(statement, relative, t) ==
    LET sql == SubSeq(t, statement.begin.offset + 1, statement.end.offset)
        begin == location_at_offset(t, statement.begin.offset + relative.begin.offset)
        end == location_at_offset(t, statement.begin.offset + relative.end.offset)
    IN  IF /\ is_valid_source_range(t, statement)
           /\ is_valid_source_range(sql, relative)
           /\ Nowhere \notin {begin, end}
        THEN <<[begin |-> begin, end |-> end]>> ELSE <<>>

-----------------------------------------------------------------------------
(* execute_script: split, check the ranges, compile statement after        *)
(* statement (the analyze policy).  Parser and analysis may report an      *)
(* error at any token.                                                     *)

TextInit ==
    /\ text \in Texts
    /\ stage = "new"
    /\ statements = <<>> /\ compiled = <<>>

Split ==
    /\ stage = "new"
    /\ LET split == split_statements(text)
       IN  IF Len(text) > MaxSqlBytes
           THEN stage' = "refused" /\ UNCHANGED statements
           ELSE /\ statements' = split
                /\ stage' = CASE \E i \in DOMAIN split : ~is_valid_source_range(text, split[i]) ->
                                   "internal"
                              [] OTHER -> IF Len(split) > MaxStatements THEN "refused"
                                                                        ELSE "compiling"
    /\ UNCHANGED <<text, compiled>>

Sql(statement) == SubSeq(text, statement.begin.offset + 1, statement.end.offset)

\* The places at which compile may report an error, the end of the statement
\* among them, and "no error".
ErrorPlaces(sql, lexed) ==
    IF lexed.error # <<>>
    THEN {<<[begin |-> location(sql, lexed.error[1].begin), end |-> location(sql, lexed.error[1].end)]>>}
    ELSE {<<>>, <<[begin |-> location(sql, Len(sql)), end |-> location(sql, Len(sql))]>>} \cup
         {<<[begin |-> location(sql, lexed.tokens[j].begin), end |-> location(sql, lexed.tokens[j].end)]>> :
            j \in DOMAIN lexed.tokens}

Compile ==
    /\ stage = "compiling" /\ Len(compiled) < Len(statements)
    /\ LET statement == statements[Len(compiled) + 1]
           sql == Sql(statement)
           lexed == tokenize(sql)
       IN  \E place \in ErrorPlaces(sql, lexed) :
              LET at == IF place = <<>> THEN <<>> ELSE absolutize_range(statement, place[1], text)
              IN  /\ compiled' = Append(compiled, [tokens |-> lexed.tokens, error |-> lexed.error,
                                                   at |-> at])
                  /\ stage' = IF place # <<>> /\ at = <<>> THEN "internal" ELSE "compiling"
    /\ UNCHANGED <<text, statements>>

Done ==
    /\ stage = "compiling" /\ Len(compiled) = Len(statements)
    /\ stage' = "done"
    /\ UNCHANGED <<text, statements, compiled>>

TextNext == Split \/ Compile \/ Done

TextSpec == TextInit /\ [][TextNext]_textVars

-----------------------------------------------------------------------------
(* Properties.                                                             *)

\* The tokens of the whole text up to each ";", without empty statements.
Grouped(groups, token) ==
    LET last == Append(groups[Len(groups)], token)
    IN  IF token.kind = ";" /\ last = <<token>> THEN groups
        ELSE SubSeq(groups, 1, Len(groups) - 1) \o
                (IF token.kind = ";" THEN <<last, <<>>>> ELSE <<last>>)

GroupRun(tokens) ==
    LET run[n \in 0..Len(tokens)] == IF n = 0 THEN <<<<>>>> ELSE Grouped(run[n - 1], tokens[n])
    IN  run[Len(tokens)]

Groups(tokens) ==
    LET groups == GroupRun(tokens)
    IN  IF groups[Len(groups)] = <<>> THEN SubSeq(groups, 1, Len(groups) - 1) ELSE groups

\* A statement's tokens or errors at their offset in the script.
Moved(part, by) == [part EXCEPT !.begin = @ + by, !.end = @ + by]
Shifted(parts, by) == [j \in DOMAIN parts |-> Moved(parts[j], by)]

\* The splitter and the lexer agree on quotes, comments and semicolons: the
\* statements' tokens are those of the whole text cut at its ";" tokens, up
\* to the first lexical error, which both meet at the same place.
SplitFollowsLexer ==
    LET whole == tokenize(text)
        groups == Groups(whole.tokens)
        TokensOf(i) == Shifted(compiled[i].tokens, statements[i].begin.offset)
        ErrorOf(i) == Shifted(compiled[i].error, statements[i].begin.offset)
        Failed == {i \in DOMAIN compiled : compiled[i].error # <<>>}
    IN  (stage = "done" /\ Len(text) <= MaxSqlBytes) =>
          IF whole.error = <<>>
          THEN Failed = {} /\ groups = [i \in DOMAIN compiled |-> TokensOf(i)]
          ELSE \E n \in Failed :
                 /\ ErrorOf(n) = whole.error
                 /\ \A i \in 1..(n - 1) : i \notin Failed /\ TokensOf(i) = groups[i]

HasLoneCr(t) == \E i \in 0..(Len(t) - 1) : ByteAt(t, i) = "cr" /\ ByteAt(t, i + 1) # "lf"

\* A string literal that is cut off at its limit between a "cr" and its "lf".
CutAtLimit ==
    \E i \in DOMAIN compiled :
        /\ compiled[i].error # <<>> /\ compiled[i].error[1].what = "varchar"
        /\ ~is_valid_endpoint(text, statements[i].begin.offset + compiled[i].error[1].end)

\* The ranges of the compiler pass the core's checks, so that no error in a
\* script's text becomes an internal error that ends the session.  Two
\* exceptions: a "cr" without a "lf" (run script_ranges), and a string
\* literal that reaches its limit between a "cr" and its "lf".
RangesLocated == stage = "internal" => HasLoneCr(text) \/ CutAtLimit

\* docs/消息契约详细设计.md: a lone "cr" is an ordinary byte and takes a
\* column.  The ranges of split_statements, by that rule.
LoneCrTakesColumn ==
    \A i \in DOMAIN statements :
       statements[i].end.column = location_at_offset(text, statements[i].end.offset).column
=============================================================================
