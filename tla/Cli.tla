-------------------------------- MODULE Cli --------------------------------
(***************************************************************************)
(* app/runner.cpp and session_core.cpp: the command line as a client of    *)
(* one Database.  It opens the database, runs one script (batch) or one    *)
(* per line (REPL), closes once and exits.  Ctrl+C may come at any moment: *)
(* the handler cancels the script whose token is registered, or ends the   *)
(* process.  Other threads open, close, move and destroy other objects of  *)
(* the process meanwhile.                                                  *)
(***************************************************************************)
EXTENDS Script

CONSTANT Session    \* the Database of the command line

ASSUME SessionAssumption == Session \in Handles

VARIABLES
    cli,        \* where run_cli is, and its locals
    active,     \* g_active_token: a token is registered
    signalled   \* Ctrl+C has hit the registered token

cliVars == <<cli, active, signalled>>
allVars == <<vars, cliVars>>

CliInit ==
    /\ ScriptInit
    /\ \E interactive \in BOOLEAN :
          cli = [pc |-> "start", interactive |-> interactive, failed |-> FALSE,
                 whole |-> TRUE, code |-> 9]
    /\ active = FALSE /\ signalled = FALSE

At_(label) == cli.pc = label

Goto(label) == cli' = [cli EXCEPT !.pc = label]

Alive == cli.pc # "killed"

(* open, refused at once when another object has the slot. *)
CliOpen ==
    /\ At_("start")
    /\ \/ /\ open(Session)
          /\ Goto("opening")
       \/ /\ slot
          /\ cli' = [cli EXCEPT !.pc = "discard", !.code = 1]
          /\ UNCHANGED lifecycle
    /\ UNCHANGED <<progress, active, signalled>>

(* CoreSession keeps the Database only when it opened. *)
CliOpened ==
    /\ At_("opening") /\ Idle(Session)
    /\ IF db[Session].open THEN Goto("prompt")
       ELSE cli' = [cli EXCEPT !.pc = "discard", !.code = 1]
    /\ UNCHANGED <<vars, active, signalled>>

(* cancel_requested of a new token. *)
FreshToken == FALSE

(* A line, or the whole text, and a token of its own, which is registered. *)
CliLine ==
    /\ At_("prompt")
    /\ Goto("call")
    /\ cancel' = [cancel EXCEPT ![Session] = FreshToken]
    /\ active' = TRUE /\ signalled' = FALSE
    /\ UNCHANGED <<lifecycle, run, rows, cursor, leaked>>

(* End of the input, or no more input to be had. *)
CliEndOfInput ==
    /\ At_("prompt")
    /\ \E failed \in {cli.failed, TRUE} :
          cli' = [cli EXCEPT !.pc = "close", !.failed = failed]
    /\ UNCHANGED <<vars, active, signalled>>

CliExecute ==
    /\ At_("call") /\ db[Session].open
    /\ \/ \E stmts \in Scripts, policy \in Policies : execute_script(Session, stmts, policy)
       \/ RefuseScript(Session)
    /\ Goto("executing")
    /\ UNCHANGED <<cancel, active, signalled>>

(* An earlier script lost the database: execute_script refuses. *)
CliRefused ==
    /\ At_("call") /\ ~db[Session].open
    /\ cli' = [cli EXCEPT !.pc = "close", !.failed = TRUE]
    /\ active' = FALSE
    /\ UNCHANGED <<vars, signalled>>

(* had_error of the statements shown. *)
HadError(r) ==
    \E i \in DOMAIN r.results :
        r.results[i].status \in
            {"compile_error", "analysis_error", "execution_error", "indeterminate", "cancelled"}

Carried(r) ==
    /\ ~r.error
    /\ \A i \in DOMAIN r.results : r.results[i].status \in {"executed", "plan_only"}

(* The script returns, its token goes, its result is shown; a script error *)
(* or an output that fails ends the session.                               *)
CliReturn ==
    /\ At_("executing") /\ At(Session, "done")
    /\ EndScript(Session)
    /\ \E output_ok \in BOOLEAN :
          cli' = [cli EXCEPT
                     !.pc = IF cli.interactive /\ output_ok /\ ~run[Session].error
                            THEN "prompt" ELSE "close",
                     !.failed = @ \/ HadError(run[Session]) \/ run[Session].error \/ ~output_ok,
                     !.whole = @ /\ Carried(run[Session])]
    /\ Set(Session, NoScript)
    /\ active' = FALSE
    /\ UNCHANGED <<rows, cursor, leaked, cancel, signalled>>

(* close_once *)
CliClose ==
    /\ At_("close")
    /\ IF db[Session].open \/ db[Session].forced
       THEN close(Session) /\ Goto("closing")
       ELSE /\ cli' = [cli EXCEPT !.pc = "discard", !.code = 1]
            /\ UNCHANGED lifecycle
    /\ UNCHANGED <<progress, active, signalled>>

(* (mutant) The answer of close is ignored. *)
ExitCode_Failed(failed, close_ok) == IF failed THEN 1 ELSE 0

ExitCode(failed, close_ok) == IF failed \/ ~close_ok THEN 1 ELSE 0

CliClosed ==
    /\ At_("closing") /\ Idle(Session)
    /\ cli' = [cli EXCEPT !.pc = "discard", !.code = ExitCode(cli.failed, ~db[Session].forced)]
    /\ UNCHANGED <<vars, active, signalled>>

(* The session goes, and with it the Database. *)
CliDiscard ==
    /\ At_("discard")
    /\ destroy(Session)
    /\ Goto("exit")
    /\ UNCHANGED <<progress, active, signalled>>

(* tinydbms_sigint_handler: the registered token, *)
CtrlC ==
    /\ cli.pc \notin {"discard", "exit"}
    /\ active /\ ~cancel[Session]
    /\ cancel' = [cancel EXCEPT ![Session] = TRUE]
    /\ signalled' = TRUE
    /\ UNCHANGED <<lifecycle, run, rows, cursor, leaked, cli, active>>

(* or, without one or the second time, the end of the process. *)
CtrlCKills ==
    /\ cli.pc \notin {"discard", "exit"}
    /\ ~active \/ cancel[Session]
    /\ Goto("killed")
    /\ slot' = FALSE /\ abandoned' = FALSE
    /\ db' = [h \in Handles |-> Cleared]
    /\ pc' = [h \in Handles |-> "idle"]
    /\ storage' = [storage EXCEPT !.open = FALSE]
    /\ run' = [h \in Handles |-> NoScript]
    /\ cursor' = {} /\ leaked' = {}
    /\ cancel' = [h \in Handles |-> FALSE]
    /\ active' = FALSE /\ signalled' = FALSE
    /\ UNCHANGED rows

(* The storage calls that CliOpen, CliClose and CliDiscard began. *)
SessionCall ==
    /\ \/ OpenStorage(Session) \/ ListTables(Session) \/ AbortOpen(Session)
       \/ CloseOpen(Session) \/ RetryClose(Session) \/ DestroyOwner(Session)
    /\ leaked' = IF storage'.open THEN leaked ELSE {}
    /\ UNCHANGED <<run, rows, cursor, cancel, cliVars>>

CliStep ==
    \/ CliOpen \/ CliOpened \/ CliLine \/ CliEndOfInput \/ CliExecute \/ CliRefused
    \/ CliReturn \/ CliClose \/ CliClosed \/ CliDiscard \/ SessionCall
    \/ ScriptStep(Session) /\ UNCHANGED cliVars

(* Other threads leave the session's object alone. *)
OtherStep(h) ==
    /\ LifecycleStep(h)
    /\ db'[Session] = db[Session]
    /\ UNCHANGED cliVars

CliNext ==
    /\ Alive
    /\ CliStep \/ CtrlC \/ CtrlCKills \/ \E h \in Handles \ {Session} : OtherStep(h)

CliSpec == CliInit /\ [][CliNext]_allVars

-----------------------------------------------------------------------------
(* Exit code 0 means that every statement of every line was carried out    *)
(* and that close reported success; a cancellation, a skipped rest or a    *)
(* failed close never passes for success.                                  *)
ExitTruthful ==
    cli.code = 0 => cli.whole /\ ~db[Session].open /\ ~db[Session].retry

(* Ctrl+C concerns the script it interrupts: no later line is cancelled by *)
(* it, and the registered token exists.                                    *)
CtrlCLocal ==
    /\ active => cli.pc \in {"call", "executing"}
    /\ cli.pc = "executing" /\ cancel[Session] => signalled
=============================================================================
