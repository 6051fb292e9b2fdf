---------------------------- MODULE MCScriptText ----------------------------
(***************************************************************************)
(* The texts of the script_text runs.                                      *)
(***************************************************************************)
EXTENDS ScriptText

Upto(bytes, n) == UNION {[1..m -> bytes] : m \in 0..n}

\* Every text of up to six bytes about quotes, comments and semicolons.
Quoting == Upto({"x", "'", ";", "-", "lf"}, 6) \cup Upto({"x", "'", ";", "/", "*"}, 6)

\* Line ends of both kinds, numbers and operators, and bytes that are refused.
LineEnds == Upto({"x", ";", "'", "cr", "lf"}, 5)
Numbers == {<<"1">> \o t : t \in Upto({"1", ".", "e", "-", ";"}, 5)}
Operators == Upto({"<", "=", "!", "~", "'", "sp", ";"}, 4)

TooLong == {[i \in 1..(MaxSqlBytes + 1) |-> "x"]}

MCTexts == TooLong \cup Quoting \cup {t \in LineEnds : ~HasLoneCr(t)} \cup Numbers \cup Operators
MCLoneCr == Upto({"x", ";", "cr", "lf"}, 4)
=============================================================================
