----------------------------- MODULE GuiSession -----------------------------
(***************************************************************************)
(* gui/main_window.cpp, worker.cpp, core_backend.cpp, session_state.cpp:   *)
(* the window and its worker thread as a client of one Database.  The      *)
(* window (UI thread) sends open, execute and close as queued signals, the *)
(* worker serves them one at a time on the Database and queues its answer; *)
(* meanwhile the user edits, cancels, clicks and closes the window.        *)
(*                                                                         *)
(* A handler of the window is one step; a request of the worker takes the  *)
(* steps of module Database.  A text is a value, a directory does not      *)
(* appear (opening another one is opening again), what a script does is    *)
(* the choice of its outcome (module Script has its steps).                *)
(***************************************************************************)
EXTENDS Database, Naturals, Sequences

CONSTANTS
    Main,           \* the Database of CoreBackend
    Texts,          \* what the editor may hold
    MaxSnapshots    \* bound on what the user starts

ASSUME GuiAssumption == Main \in Handles /\ MaxSnapshots \in Nat

VARIABLES
    ui,         \* members of MainWindow
    editor,     \* the editor's text, the texts of the snapshot and of the last result
    schema,     \* what the schema browser shows: tables, and how it got them
    cancelled,  \* tokens (named by their snapshot) on which request_cancel was called
    inbox,      \* signals queued for the worker
    outbox,     \* signals queued for the window
    worker      \* the request being served; the members of CoreBackend

guiVars == <<ui, editor, schema, cancelled, inbox, outbox, worker>>
sessionVars == <<lifecycle, guiVars>>

NoTask == [kind |-> "none", snapshot |-> 0, token |-> 0]

GuiInit ==
    /\ Init
    /\ ui = [state |-> "closed", busy |-> FALSE, cancel_pending |-> FALSE, closing |-> FALSE,
             cleanup |-> FALSE, pending |-> FALSE, schema_snapshot |-> 0,
             executed |-> 0, token |-> 0, counter |-> 0, window |-> "shown"]
    /\ \E text \in Texts : editor = [text |-> text, snapshot |-> text, last |-> text, fix |-> FALSE]
    /\ schema = [tables |-> {}, status |-> "empty"]
    /\ cancelled = {}
    /\ inbox = <<>> /\ outbox = <<>>
    /\ worker = [task |-> NoTask, running |-> FALSE, created |-> FALSE, broken |-> FALSE,
                 open_reported |-> FALSE]

Shown == ui.window = "shown"

Request(kind, snapshot, token) == [kind |-> kind, snapshot |-> snapshot, token |-> token]

ClearedSchema == [tables |-> {}, status |-> "empty"]

-----------------------------------------------------------------------------
(* The window: what the user does *)

(* (mutant) After a failed open the next one is tried at once. *)
CloseFirst_Open(u) == u.state \in {"open", "reopen"}

(* Switching, reopening and the retry of a failed open close first. *)
CloseFirst(u) == u.state \in {"open", "reopen"} \/ u.cleanup

(* open_directory: the window u after it, and the signal. *)
Opening(u) ==
    IF CloseFirst(u)
    THEN [ui |-> [u EXCEPT !.busy = TRUE, !.pending = TRUE], signal |-> Request("close", 0, 0)]
    ELSE [ui |-> [u EXCEPT !.busy = TRUE], signal |-> Request("open", 0, 0)]

open_directory ==
    /\ Shown /\ ~ui.busy /\ ui.counter < MaxSnapshots
    /\ ui' = Opening(ui).ui
    /\ inbox' = Append(inbox, Opening(ui).signal)
    /\ UNCHANGED <<lifecycle, editor, schema, cancelled, outbox, worker>>

(* Every execution has a token of its own. *)
NewToken(u) == u.counter + 1

execute_editor_text ==
    LET snapshot == ui.counter + 1 IN
    /\ Shown /\ ui.state = "open" /\ ~ui.busy /\ ui.counter < MaxSnapshots
    /\ ui' = [ui EXCEPT !.counter = snapshot, !.executed = snapshot, !.busy = TRUE,
                        !.token = NewToken(ui), !.cancel_pending = FALSE]
    /\ editor' = [editor EXCEPT !.snapshot = editor.text]
    /\ inbox' = Append(inbox, Request("execute", snapshot, NewToken(ui)))
    /\ UNCHANGED <<lifecycle, schema, cancelled, outbox, worker>>

(* refresh_schema_browser, of the window u. *)
Refreshing(u) ==
    IF u.state # "open" \/ u.busy THEN u
    ELSE [u EXCEPT !.counter = @ + 1, !.schema_snapshot = u.counter + 1, !.busy = TRUE,
                   !.token = NewToken(u), !.cancel_pending = FALSE]

RefreshSignals(u) ==
    IF u.state # "open" \/ u.busy THEN <<>> ELSE <<Request("schema", u.counter + 1, NewToken(u))>>

refresh_schema_browser ==
    /\ Shown /\ ui.state = "open" /\ ~ui.busy /\ ui.counter < MaxSnapshots
    /\ ui' = Refreshing(ui)
    /\ inbox' = inbox \o RefreshSignals(ui)
    /\ UNCHANGED <<lifecycle, editor, schema, cancelled, outbox, worker>>

(* update_controls: the cancel button. *)
CancelEnabled == ui.state = "open" /\ ui.busy /\ ~ui.closing /\ ~ui.cancel_pending

request_cancel ==
    /\ Shown /\ CancelEnabled
    /\ cancelled' = cancelled \cup {ui.token}
    /\ ui' = [ui EXCEPT !.cancel_pending = TRUE]
    /\ UNCHANGED <<lifecycle, editor, schema, inbox, outbox, worker>>

(* on_editor_text_edited; the editor is read-only unless the session is open. *)
edit(text) ==
    /\ Shown /\ ui.state = "open" /\ text # editor.text
    /\ editor' = [editor EXCEPT !.text = text, !.fix = FALSE]
    /\ UNCHANGED <<lifecycle, ui, schema, cancelled, inbox, outbox, worker>>

(* on_fix_requested: the fix-it of the last result changes the text. *)
apply_fix(text) ==
    /\ Shown /\ editor.fix /\ text # editor.text
    /\ editor' = [editor EXCEPT !.text = text, !.fix = FALSE]
    /\ UNCHANGED <<lifecycle, ui, schema, cancelled, inbox, outbox, worker>>

MayLeave(u) == ~u.busy /\ u.state = "closed"

(* Refused while busy; an open session is closed by the worker first. *)
closeEvent ==
    /\ Shown
    /\ \/ /\ MayLeave(ui)
          /\ ui' = [ui EXCEPT !.window = "gone"]
          /\ UNCHANGED inbox
       \/ /\ ~ui.busy /\ ui.state # "closed"
          /\ ui' = [ui EXCEPT !.busy = TRUE, !.closing = TRUE]
          /\ inbox' = Append(inbox, Request("close", 0, 0))
    /\ UNCHANGED <<lifecycle, editor, schema, cancelled, outbox, worker>>

-----------------------------------------------------------------------------
(* The worker: requests on the Database *)

Serving(kind) == worker.task.kind = kind

Take ==
    /\ worker.task = NoTask /\ inbox # <<>> /\ ui.window = "shown"
    /\ worker' = [worker EXCEPT !.task = Head(inbox), !.running = FALSE,
                                !.created = FALSE, !.broken = FALSE]
    /\ inbox' = Tail(inbox)
    /\ UNCHANGED <<lifecycle, ui, editor, schema, cancelled, outbox>>

Emit(payload) ==
    /\ outbox' = Append(outbox, payload)
    /\ UNCHANGED <<ui, editor, schema, cancelled, inbox>>

Lifecycle_(action) == [kind |-> action, snapshot |-> 0]

(* A call of the Database begins, *)
Begin ==
    /\ worker.task # NoTask /\ ~worker.running
    /\ \/ Serving("open") /\ open(Main)
       \/ Serving("close") /\ close(Main)
       \/ worker.task.kind \in {"execute", "schema"} /\ BeginScript(Main)
    /\ worker' = [worker EXCEPT !.running = TRUE]
    /\ UNCHANGED <<ui, editor, schema, cancelled, inbox, outbox>>

(* goes on, *)
Continue ==
    /\ \/ OpenStorage(Main) \/ ListTables(Main) \/ AbortOpen(Main)
       \/ CloseOpen(Main) \/ RetryClose(Main)
    /\ UNCHANGED guiVars

(* and returns; an open reports whether the Database is open. *)
OpenReturns ==
    /\ Serving("open") /\ worker.running /\ Idle(Main)
    /\ Emit(Lifecycle_(IF db[Main].open THEN "opened" ELSE "open_failed"))
    /\ worker' = [worker EXCEPT !.task = NoTask, !.open_reported = db[Main].open]
    /\ UNCHANGED lifecycle

(* close_succeeded: "not open" is a success if no open succeeded before. *)
close_succeeded(open_reported, error) ==
    error = "none" \/ (~open_reported /\ error = "execute")

CloseReturns ==
    LET error == IF worker.running THEN IF db[Main].forced THEN "storage" ELSE "none"
                 ELSE "execute"
        ok == close_succeeded(worker.open_reported, error)
    IN  /\ Serving("close") /\ Idle(Main)
        /\ worker.running \/ ~(db[Main].open \/ db[Main].forced)
        /\ Emit(Lifecycle_(IF ok THEN "closed" ELSE "close_failed"))
        /\ worker' = [worker EXCEPT !.task = NoTask, !.open_reported = FALSE]
        /\ UNCHANGED lifecycle

(* A script of the user creates a table, *)
ScriptCreates ==
    /\ Serving("execute") /\ worker.running /\ ~worker.broken
    /\ \E t \in Tables \ db[Main].catalog : CreateTable(Main, t)
    /\ worker' = [worker EXCEPT !.created = TRUE]
    /\ UNCHANGED <<ui, editor, schema, cancelled, inbox, outbox>>

(* or loses the storage layer. *)
ScriptBreaks ==
    /\ "throw" \in Faults /\ worker.running /\ ~worker.broken
    /\ \E created \in {{}} \cup {{t} : t \in Tables} :
          /\ created # {} => Serving("execute")
          /\ StorageException(Main, created)
    /\ worker' = [worker EXCEPT !.broken = TRUE]
    /\ UNCHANGED <<ui, editor, schema, cancelled, inbox, outbox>>

(* What an ExecuteScriptResult says: a script error, that a statement was  *)
(* cancelled or failed, that a command succeeded; the tables a query saw.  *)
Outcome(error, cut, failed, commands) ==
    [kind |-> "script", snapshot |-> worker.task.snapshot, error |-> error, cut |-> cut,
     failed |-> failed, commands |-> commands, tables |-> db[Main].catalog]

ScriptReturns ==
    /\ worker.running /\ pc[Main] = "script"
    /\ EndScript(Main)
    /\ \E error \in {"none", "compile", "internal"}, cut, failed, commands \in BOOLEAN :
          /\ error = "compile" => ~worker.created /\ ~worker.broken /\ ~cut /\ ~failed /\ ~commands
          /\ error = "internal" => "compiler" \in Faults \/ worker.broken
          /\ worker.broken => error = "internal" \/ failed
          /\ cut => worker.task.token \in cancelled /\ ~worker.broken
          /\ commands => Serving("execute")
          /\ worker.created => commands
          /\ Emit(Outcome(error, cut, failed, commands))
    /\ worker' = [worker EXCEPT !.task = NoTask]

(* The Database is not open: execute_script refuses. *)
ScriptRefused ==
    /\ worker.task.kind \in {"execute", "schema"} /\ ~worker.running /\ ~db[Main].open
    /\ Emit(Outcome("execute", FALSE, FALSE, FALSE))
    /\ worker' = [worker EXCEPT !.task = NoTask]
    /\ UNCHANGED lifecycle

(* (mutant) An exception leaves the slot without a signal. *)
Caught_Lost(payload) == outbox

(* Every exception becomes an answer. *)
Caught(payload) == Append(outbox, payload)

Raises ==
    /\ "throw" \in Faults
    /\ worker.task # NoTask /\ ~worker.running
    /\ outbox' = Caught(CASE Serving("open") -> Lifecycle_("open_failed")
                          [] Serving("close") -> Lifecycle_("close_failed")
                          [] OTHER -> Outcome("internal", FALSE, FALSE, FALSE))
    /\ worker' = [worker EXCEPT !.task = NoTask]
    /\ UNCHANGED <<lifecycle, ui, editor, schema, cancelled, inbox>>

WorkerStep ==
    \/ Take \/ Begin \/ Continue \/ OpenReturns \/ CloseReturns
    \/ ScriptCreates \/ ScriptBreaks \/ (AbortScript(Main) /\ UNCHANGED guiVars)
    \/ ScriptReturns \/ ScriptRefused \/ Raises

-----------------------------------------------------------------------------
(* The window: answers *)

Answer(kind) == outbox # <<>> /\ Head(outbox).kind = kind /\ Shown

Answered == [ui EXCEPT !.busy = FALSE]

on_opened ==
    LET u == [Answered EXCEPT !.state = "open"] IN
    /\ Answer("opened")
    /\ ui' = Refreshing(u)
    /\ inbox' = inbox \o RefreshSignals(u)
    /\ schema' = ClearedSchema
    /\ outbox' = Tail(outbox)
    /\ UNCHANGED <<lifecycle, editor, cancelled, worker>>

on_open_failed ==
    /\ Answer("open_failed")
    /\ ui' = [Answered EXCEPT !.cleanup = TRUE, !.state = "closed"]
    /\ outbox' = Tail(outbox)
    /\ UNCHANGED <<lifecycle, editor, schema, cancelled, inbox, worker>>

on_closed ==
    LET u == [Answered EXCEPT !.cleanup = FALSE, !.state = "closed"] IN
    /\ Answer("closed")
    /\ \/ /\ u.pending
          /\ ui' = Opening([u EXCEPT !.pending = FALSE]).ui
          /\ inbox' = Append(inbox, Opening([u EXCEPT !.pending = FALSE]).signal)
       \/ /\ ~u.pending
          /\ ui' = [u EXCEPT !.window = IF u.closing THEN "gone" ELSE "shown"]
          /\ UNCHANGED inbox
    /\ schema' = ClearedSchema
    /\ outbox' = Tail(outbox)
    /\ UNCHANGED <<lifecycle, editor, cancelled, worker>>

(* (mutant) A database that could not be closed counts as closed. *)
AfterCloseFailed_Closed == "closed"

AfterCloseFailed == "reopen"

on_close_failed ==
    /\ Answer("close_failed")
    /\ ui' = [Answered EXCEPT !.pending = FALSE, !.state = AfterCloseFailed,
                              !.closing = FALSE, !.window = IF ui.closing THEN "gone" ELSE "shown"]
    /\ schema' = ClearedSchema
    /\ outbox' = Tail(outbox)
    /\ UNCHANGED <<lifecycle, editor, cancelled, inbox, worker>>

(* Only a script that cannot be split leaves an open session open. *)
next_session_state(state, error) == IF error \in {"none", "compile"} THEN state ELSE "reopen"

Finished(error) ==
    [Answered EXCEPT !.cancel_pending = FALSE, !.state = next_session_state(ui.state, error)]

(* What the browser shows after a refresh; a cancelled one keeps the old. *)
SchemaAfter(r) ==
    CASE next_session_state(ui.state, r.error) = "reopen" -> ClearedSchema
      [] r.error # "none" -> [schema EXCEPT !.status = "failed"]
      [] r.cut -> [schema EXCEPT !.status = "cancelled"]
      [] r.failed -> [schema EXCEPT !.status = "failed"]
      [] OTHER -> [tables |-> r.tables, status |-> "read"]

IsRefresh(r) == ui.schema_snapshot # 0 /\ r.snapshot = ui.schema_snapshot

on_refresh_finished ==
    LET r == Head(outbox) IN
    /\ Answer("script") /\ IsRefresh(r)
    /\ ui' = [Finished(r.error) EXCEPT !.schema_snapshot = 0]
    /\ schema' = SchemaAfter(r)
    /\ outbox' = Tail(outbox)
    /\ UNCHANGED <<lifecycle, editor, cancelled, inbox, worker>>

(* (mutant) Only a script without an error refreshes the schema. *)
NeedsRefresh_Clean(r) == r.commands /\ ~r.failed /\ ~r.cut

(* has_successful_command: the catalog may have changed. *)
NeedsRefresh(r) == r.commands

(* (mutant) The text is not compared with the one that was executed. *)
MatchesSnapshot_Always == TRUE

(* Ranges of the result apply to the text it was computed from only. *)
MatchesSnapshot == editor.text = editor.snapshot

(* on_script_finished and apply_script_result, of the user's script. *)
on_script_finished ==
    LET r == Head(outbox)
        u == Finished(r.error)
    IN  /\ Answer("script") /\ ~IsRefresh(r) /\ r.snapshot = ui.executed
        /\ editor' = [editor EXCEPT !.last = editor.snapshot, !.fix = MatchesSnapshot]
        /\ schema' = IF u.state = "reopen" THEN ClearedSchema ELSE schema
        /\ IF NeedsRefresh(r)
           THEN ui' = Refreshing(u) /\ inbox' = inbox \o RefreshSignals(u)
           ELSE ui' = u /\ UNCHANGED inbox
        /\ outbox' = Tail(outbox)
        /\ UNCHANGED <<lifecycle, cancelled, worker>>

(* The window is gone: its thread ends, then the backend with its Database. *)
Quit ==
    /\ ui.window = "gone" /\ worker.task = NoTask
    /\ destroy(Main) \/ DestroyOwner(Main)
    /\ UNCHANGED guiVars

-----------------------------------------------------------------------------
Handler ==
    \/ on_opened \/ on_open_failed \/ on_closed \/ on_close_failed
    \/ on_refresh_finished \/ on_script_finished

User ==
    \/ open_directory \/ execute_editor_text \/ refresh_schema_browser \/ request_cancel
    \/ \E text \in Texts : edit(text) \/ apply_fix(text)
    \/ closeEvent

GuiNext == User \/ WorkerStep \/ Handler \/ Quit

(* Both event loops run; the user need not do anything. *)
GuiSpec == GuiInit /\ [][GuiNext]_sessionVars /\ WF_sessionVars(WorkerStep) /\ WF_sessionVars(Handler)

-----------------------------------------------------------------------------
(* Requests under way, from the signal to its answer. *)
InFlight == Len(inbox) + Len(outbox) + (IF worker.task = NoTask THEN 0 ELSE 1)

(* The window is busy exactly while one request is on its way, so that a   *)
(* result is always the answer to the last request and a window that goes  *)
(* leaves no call behind.                                                  *)
OneInFlight ==
    /\ InFlight = IF ui.busy THEN 1 ELSE 0
    /\ ui.window = "gone" => ~ui.busy

(* No open reaches a Database that must be closed first: the core would    *)
(* refuse it for ever.  A cleanup that failed is retried, whatever answers *)
(* the window has seen.                                                    *)
CleanBeforeOpen ==
    (\E i \in DOMAIN inbox : inbox[i].kind = "open") \/ (Serving("open") /\ ~worker.running)
        => ~db[Main].open /\ ~db[Main].forced

(* What the window shows of the session is true of the Database: an idle   *)
(* window that shows it closed has nothing left to clean up, unless it     *)
(* knows that it may have; one that shows it open can execute, or has lost *)
(* the storage layer in its last script.                                   *)
SessionHonest ==
    ~ui.busy /\ Shown =>
        /\ ui.state = "closed" /\ ~ui.cleanup => ~db[Main].open /\ ~db[Main].forced
        /\ ui.state = "open" => db[Main].open \/ db[Main].forced

(* A fix-it is offered only for the text that its result is about, however *)
(* the text was edited while the script ran.                               *)
FixesFit == editor.fix => editor.text = editor.last

(* An idle window that shows a schema it has read shows the catalog: a     *)
(* script that failed or was cancelled after a CREATE TABLE as well.       *)
SchemaFresh ==
    ~ui.busy /\ ui.state = "open" /\ schema.status = "read" /\ db[Main].open
        => schema.tables = db[Main].catalog

(* A script whose token is set is one that the user has cancelled, not one *)
(* that follows it.                                                        *)
CancelHitsOwn ==
    worker.task.kind \in {"execute", "schema"} /\ worker.task.token \in cancelled
        => ui.cancel_pending

(* Whatever a request meets, exceptions included, its answer ends the      *)
(* wait; the requests that follow from answers come to an end as well.     *)
RequestsAnswered == ui.busy ~> ~ui.busy

(* While a close is under way no cancel is offered. *)
NoCancelDuringClose == CancelEnabled => ~Serving("close")
=============================================================================
