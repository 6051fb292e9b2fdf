------------------------------- MODULE Script -------------------------------
(***************************************************************************)
(* core/script.cpp and the statement drivers of core/executor.cpp: a       *)
(* script runs its statements one after the other, each compiled against   *)
(* the catalog that the ones before it left, and gives one result for      *)
(* each.  An error stops it, or (analyze) turns the rest into an analysis  *)
(* against a shadow catalog; a cancellation ends it; a broken storage or   *)
(* compiler call aborts it and ends the session.                           *)
(*                                                                         *)
(* A step is one storage call or one decision between two of them.  A      *)
(* statement is its kind and its table; what it selects is a choice, and   *)
(* the rows of a table are their number.                                   *)
(***************************************************************************)
EXTENDS Database, Naturals, Sequences, FiniteSets

CONSTANTS
    Scripts,        \* the scripts clients run: sequences of statements
    Policies,       \* error policies and modes: [analyze, plan_only]
    BatchRows,      \* rows of an INSERT
    MaxRows,        \* rows a table has room for
    MaxQueryRows    \* max_query_rows of the request

VARIABLES
    run,        \* execute_script of each object: locals and result
    rows,       \* number of rows of each table in storage
    cursor,     \* tables on which the running statement has a cursor
    leaked,     \* tables on which an unclosed cursor was left behind
    cancel      \* the cancel token of the running script

progress == <<run, rows, cursor, leaked, cancel>>

vars == <<lifecycle, progress>>

Kinds == {"create", "insert", "delete", "update", "query", "bad"}

ASSUME ScriptAssumption ==
    /\ \A stmts \in Scripts : stmts \in Seq([kind : Kinds, table : Tables])
    /\ \A policy \in Policies : policy \in [analyze : BOOLEAN, plan_only : BOOLEAN]
    /\ BatchRows \in Nat /\ MaxRows \in Nat /\ MaxQueryRows \in Nat

NoScript ==
    [pc |-> "none", stmts |-> <<>>, policy |-> [analyze |-> FALSE, plan_only |-> FALSE],
     allowed |-> TRUE, shadow |-> {}, results |-> <<>>, effects |-> <<>>,
     error |-> FALSE, called |-> FALSE, left |-> 0, hits |-> 0]

ScriptInit ==
    /\ Init
    /\ run = [h \in Handles |-> NoScript]
    /\ rows = [t \in Tables |-> 0]
    /\ cursor = {} /\ leaked = {}
    /\ cancel = [h \in Handles |-> FALSE]

At(h, label) == run[h].pc = label

Index(r) == Len(r.results) + 1
Statement(r) == r.stmts[Index(r)]

-----------------------------------------------------------------------------
(* Results *)

Result(status, count) == [status |-> status, count |-> count]

(* fill_skipped, fill_cancelled: one result for each statement left. *)
Filled(r, status) ==
    [r EXCEPT !.pc = "done",
              !.results = @ \o [i \in 1..Len(r.stmts) - Len(@) |-> Result(status, 0)]]

Pushed(r, status, count) ==
    [r EXCEPT !.results = Append(@, Result(status, count)), !.pc = "statement",
              !.called = FALSE, !.left = 0, !.hits = 0]

(* An error closes execution; without analyze the script is over. *)
Failed(r, status, count) ==
    LET q == [Pushed(r, status, count) EXCEPT !.allowed = FALSE]
    IN  IF r.policy.analyze THEN q ELSE Filled(q, "skipped")

(* (mutant) The statement that was under way is reported as skipped. *)
Aborted_Skipped(r, side_effects) == [Filled(r, "skipped") EXCEPT !.error = TRUE]

(* abort_script: a statement that may have had an effect is indeterminate. *)
Aborted(r, side_effects) ==
    [Filled(IF side_effects THEN Pushed(r, "indeterminate", 0) ELSE r, "skipped")
        EXCEPT !.error = TRUE]

(* Rows (or the table) that the current statement changed. *)
Effect(r, n) == [r EXCEPT !.effects[Index(r)] = @ + n]

Set(h, r) == run' = [run EXCEPT ![h] = r]

-----------------------------------------------------------------------------
(* The loop over the statements *)

execute_script(h, stmts, policy) ==
    /\ BeginScript(h)
    /\ Set(h, [NoScript EXCEPT !.pc = "statement", !.stmts = stmts, !.policy = policy,
                               !.effects = [i \in DOMAIN stmts |-> 0],
                               !.shadow = IF policy.analyze THEN db[h].catalog ELSE {}])
    /\ UNCHANGED <<rows, cursor, leaked>>

(* The text cannot be split, or has too many statements: no results. *)
RefuseScript(h) ==
    /\ BeginScript(h)
    /\ Set(h, [NoScript EXCEPT !.pc = "done", !.error = TRUE])
    /\ UNCHANGED <<rows, cursor, leaked>>

(* The token is looked at between two statements. *)
AtStatement(h) == At(h, "statement") /\ Index(run[h]) <= Len(run[h].stmts)

View(h) == IF run[h].allowed THEN db[h].catalog ELSE run[h].shadow

(* A table is created once and used only when it is there. *)
Compiles(view, s) ==
    CASE s.kind = "bad" -> FALSE
      [] s.kind = "create" -> s.table \notin view
      [] OTHER -> s.table \in view

FinishScript(h) ==
    /\ At(h, "statement") /\ Index(run[h]) > Len(run[h].stmts)
    /\ Set(h, [run[h] EXCEPT !.pc = "done"])
    /\ UNCHANGED <<lifecycle, rows, cursor, leaked, cancel>>

CancelAtStatement(h) ==
    /\ AtStatement(h) /\ cancel[h]
    /\ Set(h, Filled(run[h], "cancelled"))
    /\ UNCHANGED <<lifecycle, rows, cursor, leaked, cancel>>

CompileError(h) ==
    /\ AtStatement(h) /\ ~cancel[h]
    /\ ~Compiles(View(h), Statement(run[h]))
    /\ Set(h, Failed(run[h], "compile_error", 0))
    /\ UNCHANGED <<lifecycle, rows, cursor, leaked, cancel>>

(* The compiler or the update of the shadow catalog throws, or the         *)
(* compiler reports an impossible range or plan.                           *)
CompilerBreaks(h) ==
    /\ "compiler" \in Faults
    /\ AtStatement(h) /\ ~cancel[h]
    /\ Set(h, Aborted(run[h], run[h].called \/ db[h].retry \/ db[h].forced))
    /\ UNCHANGED <<lifecycle, rows, cursor, leaked, cancel>>

RenderPlan(h) ==
    /\ AtStatement(h) /\ ~cancel[h]
    /\ Compiles(View(h), Statement(run[h])) /\ run[h].policy.plan_only
    /\ Set(h, Pushed(run[h], "plan_only", 0))
    /\ UNCHANGED <<lifecycle, rows, cursor, leaked, cancel>>

(* apply_supported_ddl: a CREATE TABLE after an error changes the shadow. *)
Analyze(h) ==
    LET s == Statement(run[h]) IN
    /\ AtStatement(h) /\ ~cancel[h]
    /\ Compiles(View(h), s) /\ ~run[h].policy.plan_only /\ ~run[h].allowed
    /\ Set(h, [Pushed(run[h], "analysis_only", 0) EXCEPT
                  !.shadow = IF s.kind = "create" THEN @ \cup {s.table} ELSE @])
    /\ UNCHANGED <<lifecycle, rows, cursor, leaked, cancel>>

(* The shadow catalog has no table number left for the CREATE TABLE. *)
RejectDdl(h) ==
    /\ "analysis" \in Faults
    /\ AtStatement(h) /\ ~cancel[h]
    /\ Compiles(View(h), Statement(run[h])) /\ ~run[h].policy.plan_only /\ ~run[h].allowed
    /\ Statement(run[h]).kind = "create"
    /\ Set(h, Pushed(run[h], "analysis_error", 0))
    /\ UNCHANGED <<lifecycle, rows, cursor, leaked, cancel>>

FirstCall(kind) ==
    CASE kind = "create" -> "create" [] kind = "insert" -> "write" [] OTHER -> "open_table"

(* execute_plan_impl: from here on storage has been called. *)
Execute(h) ==
    /\ AtStatement(h) /\ ~cancel[h]
    /\ Compiles(View(h), Statement(run[h])) /\ ~run[h].policy.plan_only /\ run[h].allowed
    /\ Set(h, [run[h] EXCEPT !.pc = FirstCall(Statement(run[h]).kind), !.called = TRUE])
    /\ UNCHANGED <<lifecycle, rows, cursor, leaked, cancel>>

-----------------------------------------------------------------------------
(* abort_after_storage_exception; then the statement is reported *)

Broken(h, created, r, then) ==
    /\ StorageException(h, created)
    /\ Set(h, [r EXCEPT !.pc = then])
    /\ UNCHANGED cancel

Throws == "throw" \in Faults
Errors == "error" \in Faults

Orphaned == leaked' = IF storage'.open THEN leaked \cup cursor ELSE {}

AbortStatement(h) ==
    /\ AbortScript(h)
    /\ \/ /\ At(h, "abort_internal")
          /\ Set(h, Aborted(run[h], TRUE))
       \/ /\ At(h, "abort_error")
          /\ Set(h, Failed(run[h], "execution_error", 0))
       \/ /\ At(h, "abort_malformed")
          /\ Set(h, [run[h] EXCEPT !.pc = "close_late"])
    /\ cursor' = {} /\ Orphaned
    /\ UNCHANGED <<rows, cancel>>

(* scan_records closes the cursor of a malformed record after the handler  *)
(* has already given up the storage layer; CursorIds are never reused, so  *)
(* the call finds nothing.                                                 *)
CloseLate(h) ==
    /\ At(h, "close_late")
    /\ Set(h, Aborted(run[h], TRUE))
    /\ UNCHANGED <<lifecycle, rows, cursor, leaked, cancel>>

-----------------------------------------------------------------------------
(* CREATE TABLE *)

(* With analyze the shadow catalog follows (mirror_runtime_catalog); if it *)
(* cannot, the statement stands and the script is over.                    *)
Created(h) ==
    LET r == run[h]
        t == Statement(r).table
        q == Pushed(Effect(r, 1), "executed", 0)
    IN  /\ At(h, "create")
        /\ CreateTable(h, t)
        /\ \/ Set(h, IF r.policy.analyze THEN [q EXCEPT !.shadow = db'[h].catalog] ELSE q)
           \/ /\ r.policy.analyze /\ "analysis" \in Faults
              /\ Set(h, Aborted(q, FALSE))
        /\ UNCHANGED <<rows, cursor, leaked, cancel>>

CreateFails(h) ==
    /\ At(h, "create") /\ Errors
    /\ Set(h, Failed(run[h], "execution_error", 0))
    /\ UNCHANGED <<lifecycle, rows, cursor, leaked, cancel>>

CreateThrows(h) ==
    /\ At(h, "create") /\ Throws
    /\ \E created \in {{}, {Statement(run[h]).table}} :
          Broken(h, created, Effect(run[h], Cardinality(created)), "abort_internal")
    /\ UNCHANGED <<rows, cursor, leaked>>

-----------------------------------------------------------------------------
(* The scan of DELETE, UPDATE and SELECT *)

OpenTable(h) ==
    LET t == Statement(run[h]).table IN
    /\ At(h, "open_table")
    /\ \/ /\ cursor' = cursor \cup {t}
          /\ Set(h, [run[h] EXCEPT !.pc = "scan", !.left = rows[t]])
          /\ UNCHANGED <<lifecycle, cancel>>
       \/ /\ Errors
          /\ Set(h, Failed(run[h], "execution_error", 0))
          /\ UNCHANGED <<lifecycle, cursor, cancel>>
       \/ /\ Throws
          /\ cursor' \in {cursor, cursor \cup {t}}
          /\ Broken(h, {}, run[h], "abort_internal")
    /\ UNCHANGED <<rows, leaked>>

(* Before each record the token is looked at; unwinding closes the cursor. *)
CancelScan(h) ==
    /\ At(h, "scan") /\ cancel[h]
    /\ Set(h, [run[h] EXCEPT !.pc = "close_cancelled"])
    /\ UNCHANGED <<lifecycle, rows, cursor, leaked, cancel>>

IsQuery(r) == Statement(r).kind = "query"

(* A record comes, and is selected or not; a query may hit its limit. *)
ScanRecord(h) ==
    LET r == run[h] IN
    /\ At(h, "scan") /\ ~cancel[h] /\ r.left > 0
    /\ \/ /\ ~IsQuery(r)
          /\ Set(h, [r EXCEPT !.left = @ - 1])
       \/ /\ IsQuery(r) => r.hits < MaxQueryRows
          /\ Set(h, [r EXCEPT !.left = @ - 1, !.hits = @ + 1])
       \/ /\ IsQuery(r) /\ r.hits = MaxQueryRows
          /\ Set(h, [r EXCEPT !.pc = "close_failed"])
    /\ UNCHANGED <<lifecycle, rows, cursor, leaked, cancel>>

ScanEnd(h) ==
    /\ At(h, "scan") /\ ~cancel[h] /\ run[h].left = 0
    /\ Set(h, [run[h] EXCEPT !.pc = "close_cursor"])
    /\ UNCHANGED <<lifecycle, rows, cursor, leaked, cancel>>

(* scan_next reports an error, or throws: the cursor is closed first. *)
ScanFails(h) ==
    /\ At(h, "scan") /\ ~cancel[h]
    /\ \/ Errors /\ Set(h, [run[h] EXCEPT !.pc = "close_failed"])
       \/ Throws /\ Set(h, [run[h] EXCEPT !.pc = "close_broken"])
    /\ UNCHANGED <<lifecycle, rows, cursor, leaked, cancel>>

(* A record does not fit the schema: the handler aborts on the spot. *)
ScanMalformed(h) ==
    /\ At(h, "scan") /\ ~cancel[h] /\ run[h].left > 0
    /\ "malformed" \in Faults
    /\ Broken(h, {}, run[h], "abort_malformed")
    /\ UNCHANGED <<rows, cursor, leaked>>

-----------------------------------------------------------------------------
(* Closing the cursor.  An attempt is made once; a failure leaves it open. *)

(* (mutant) A cancelled scan drops its cursor without closing it. *)
CursorAfterCancel_Kept == cursor

CursorAfterCancel == {}

CloseCancelled(h) ==
    /\ At(h, "close_cancelled")
    /\ \/ UNCHANGED leaked
       \/ (Errors \/ Throws) /\ leaked' = leaked \cup cursor
    /\ cursor' = CursorAfterCancel
    /\ Set(h, Filled(run[h], "cancelled"))
    /\ UNCHANGED <<lifecycle, rows, cancel>>

(* Behind an error: only an exception is noticed, and aborts as well. *)
CloseFailed(h) ==
    /\ At(h, "close_failed")
    /\ \/ /\ \/ UNCHANGED leaked
             \/ Errors /\ leaked' = leaked \cup cursor
          /\ cursor' = {}
          /\ Set(h, Failed(run[h], "execution_error", 0))
          /\ UNCHANGED <<lifecycle, cancel>>
       \/ /\ Throws
          /\ Broken(h, {}, run[h], "abort_error")
          /\ UNCHANGED <<cursor, leaked>>
    /\ UNCHANGED rows

CloseBroken(h) ==
    /\ At(h, "close_broken")
    /\ cursor' \in {{}, cursor}
    /\ Broken(h, {}, run[h], "abort_internal")
    /\ UNCHANGED <<rows, leaked>>

CloseCursor(h) ==
    LET r == run[h] IN
    /\ At(h, "close_cursor")
    /\ \/ /\ cursor' = {}
          /\ Set(h, IF IsQuery(r) THEN Pushed(r, "executed", r.hits) ELSE [r EXCEPT !.pc = "write"])
          /\ UNCHANGED <<lifecycle, leaked, cancel>>
       \/ /\ Errors
          /\ cursor' = {} /\ leaked' = leaked \cup cursor
          /\ Set(h, Failed(r, "execution_error", 0))
          /\ UNCHANGED <<lifecycle, cancel>>
       \/ /\ Throws
          /\ Broken(h, {}, r, "abort_internal")
          /\ UNCHANGED <<cursor, leaked>>
    /\ UNCHANGED rows

-----------------------------------------------------------------------------
(* The write of INSERT, DELETE and UPDATE: a prefix of the batch is done   *)

Batch(r) == IF Statement(r).kind = "insert" THEN BatchRows ELSE r.hits

RowsAfter(r, n) ==
    [rows EXCEPT ![Statement(r).table] =
        CASE Statement(r).kind = "insert" -> @ + n
          [] Statement(r).kind = "delete" -> @ - n
          [] OTHER -> @]

(* storage refuses a batch while the table has a cursor; an empty one is   *)
(* done before that is looked at.                                          *)
Refused(r) == Batch(r) > 0 /\ Statement(r).table \in leaked \cup cursor

Room(r) ==
    IF Refused(r) THEN 0
    ELSE IF Statement(r).kind = "insert" THEN MaxRows - rows[Statement(r).table] ELSE Batch(r)

Written(h) ==
    LET r == run[h] IN
    /\ At(h, "write") /\ Batch(r) <= Room(r)
    /\ rows' = RowsAfter(r, Batch(r))
    /\ Set(h, Pushed(Effect(r, Batch(r)), "executed", Batch(r)))
    /\ UNCHANGED <<lifecycle, cursor, leaked, cancel>>

(* affected_rows of a batch that failed after n rows. *)
Reported(n) == n

WriteFails(h) ==
    LET r == run[h] IN
    /\ At(h, "write")
    /\ \E n \in 0..BatchRows + MaxRows :
          /\ n < Batch(r) /\ n <= Room(r)
          /\ Errors \/ n = Room(r)
          /\ rows' = RowsAfter(r, n)
          /\ Set(h, Failed(Effect(r, n), "execution_error", Reported(n)))
    /\ UNCHANGED <<lifecycle, cursor, leaked, cancel>>

WriteThrows(h) ==
    LET r == run[h] IN
    /\ At(h, "write") /\ Throws
    /\ \E n \in 0..MaxRows :
          /\ n <= Batch(r) /\ n <= Room(r)
          /\ rows' = RowsAfter(r, n)
          /\ Broken(h, {}, Effect(r, n), "abort_internal")
    /\ UNCHANGED <<cursor, leaked>>

-----------------------------------------------------------------------------
ScriptStep(h) ==
    \/ FinishScript(h) \/ CancelAtStatement(h) \/ CompileError(h) \/ CompilerBreaks(h)
    \/ RenderPlan(h) \/ Analyze(h) \/ RejectDdl(h) \/ Execute(h)
    \/ AbortStatement(h) \/ CloseLate(h)
    \/ Created(h) \/ CreateFails(h) \/ CreateThrows(h)
    \/ OpenTable(h) \/ CancelScan(h) \/ ScanRecord(h) \/ ScanEnd(h) \/ ScanFails(h)
    \/ ScanMalformed(h) \/ CloseCancelled(h) \/ CloseFailed(h) \/ CloseBroken(h) \/ CloseCursor(h)
    \/ Written(h) \/ WriteFails(h) \/ WriteThrows(h)

(* Open cursors go with the storage layer. *)
LifecycleStep(h) ==
    /\ Lifecycle(h)
    /\ leaked' = IF storage'.open THEN leaked ELSE {}
    /\ UNCHANGED <<run, rows, cursor, cancel>>

-----------------------------------------------------------------------------
(* Properties *)

(* What a script reports is what happened: one result per statement and in *)
(* order; a statement that is not reported as executed, failed or          *)
(* indeterminate has changed nothing, and the counts of the others are the *)
(* rows that were changed, whichever call broke and whenever the script    *)
(* was cancelled.  After a cancelled statement all are cancelled.          *)
Truthful(r, i) ==
    LET result == r.results[i]
        create == r.stmts[i].kind = "create"
        changed == r.effects[i]
    IN  CASE result.status = "executed" ->
                CASE create -> changed = 1
                  [] r.stmts[i].kind = "query" -> changed = 0
                  [] OTHER -> changed = result.count
          [] result.status = "execution_error" -> changed = result.count
          [] result.status = "indeterminate" -> r.error
          [] OTHER -> changed = 0

OutcomesTruthful ==
    \A h \in Handles :
        LET r == run[h] IN
        /\ \A i \in DOMAIN r.results : Truthful(r, i)
        /\ \A i \in DOMAIN r.stmts : i > Index(r) => r.effects[i] = 0
        /\ r.pc = "done" => Len(r.results) = Len(r.stmts)
        /\ \A i, j \in DOMAIN r.results :
              i < j /\ r.results[i].status = "cancelled" => r.results[j].status = "cancelled"

(* No statement leaves its cursor behind, cancelled, failed or not, and    *)
(* what storage could not close is forgotten with the session: writes to   *)
(* the table are refused as long as a cursor is open.                      *)
CursorsReleased ==
    /\ cursor # {} => \E h \in Handles : pc[h] \in {"script", "abort"} /\ run[h].pc # "done"
    /\ leaked # {} => storage.open

(* h is in a storage call. *)
InStorage(h) ==
    \/ pc[h] \in Calls
    \/ run[h].pc \in {"create", "write", "open_table", "scan", "close_cursor", "close_cancelled",
                      "close_failed", "close_broken", "close_late"}

(* The storage layer has no locks of its own; of all the objects and       *)
(* threads only one is in a storage call.                                  *)
StorageSerial == \A h, g \in Handles : InStorage(h) /\ InStorage(g) => h = g
=============================================================================
