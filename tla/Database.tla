------------------------------ MODULE Database ------------------------------
(***************************************************************************)
(* core/database.cpp: the lifecycle of Database objects.  The storage      *)
(* layer has one global state, so that a process-wide slot                 *)
(* (g_database_open) decides which object may use it.  An object whose     *)
(* close failed keeps the slot until a retry succeeds; an object whose     *)
(* script met an exception is closed behind its back and waits for its     *)
(* owner's close.                                                          *)
(*                                                                         *)
(* A call holds the object's mutex, so an object is in one call at a time; *)
(* calls of different objects interleave at every storage call.  Storage   *)
(* itself appears as what it promises (module Storage): each call          *)
(* succeeds, reports an error, or throws and leaves its state unknown.     *)
(* Calls that are refused change nothing and are not steps.                *)
(***************************************************************************)
CONSTANTS
    Handles,    \* Database objects
    Tables,     \* tables that can be created
    Faults      \* what may go wrong: "error", "throw", ... (see Script)

VARIABLES
    slot,       \* g_database_open
    db,         \* Impl of each object
    pc,         \* where the call on each object is
    storage,    \* the storage layer: open or not, and its tables
    abandoned   \* somebody gave the slot back with the storage layer open

lifecycle == <<slot, db, pc, storage, abandoned>>

Calls == {"open_storage", "list_tables", "abort_open", "close", "retry", "destroy", "abort"}

(* Impl as clear() leaves it. *)
Cleared == [alive |-> TRUE, open |-> FALSE, forced |-> FALSE, retry |-> FALSE, catalog |-> {}]

(* forced_close_pending, and perhaps cleanup_retry_needed. *)
Pending(retry) == [Cleared EXCEPT !.forced = TRUE, !.retry = retry]

MovedFrom == [Cleared EXCEPT !.alive = FALSE]

Init ==
    /\ slot = FALSE
    /\ db = [h \in Handles |-> Cleared]
    /\ pc = [h \in Handles |-> "idle"]
    /\ storage = [open |-> FALSE, tables |-> {}]
    /\ abandoned = FALSE

(* h answers for the storage layer: it is open, or being opened, or has to *)
(* retry a close.                                                          *)
Owns(h) ==
    \/ db[h].open \/ db[h].retry
    \/ pc[h] \in {"open_storage", "list_tables", "abort_open"}

-----------------------------------------------------------------------------
(* close_storage.  It succeeds also when nothing is open.  "invalid" is    *)
(* kInvalidRequest: the buffer pool refuses to close, for example because  *)
(* a page is pinned, and storage stays open; every caller takes it for     *)
(* success.                                                                *)

Clean(result) == result \in {"ok", "invalid"}

CloseStorage(result) ==
    \/ result = "ok" /\ storage' = [storage EXCEPT !.open = FALSE]
    \/ result = "invalid" /\ "invalid" \in Faults /\ storage.open /\ UNCHANGED storage
    \/ result = "error" /\ "error" \in Faults /\ storage.open /\ UNCHANGED storage
    \/ /\ result = "throw" /\ "throw" \in Faults
       /\ \E open \in {FALSE, storage.open} : storage' = [storage EXCEPT !.open = open]

Results == {"ok", "invalid", "error", "throw"}

(* A caller that keeps the slot unless the answer is clean. *)
CloseOwned(result) ==
    /\ CloseStorage(result)
    /\ abandoned' = (abandoned \/ (Clean(result) /\ storage'.open))

Idle(h) == pc[h] = "idle"

-----------------------------------------------------------------------------
(* open *)

open(h) ==
    /\ Idle(h) /\ db[h].alive /\ ~db[h].open /\ ~db[h].forced
    /\ ~slot /\ slot' = TRUE
    /\ pc' = [pc EXCEPT ![h] = "open_storage"]
    /\ UNCHANGED <<db, storage, abandoned>>

(* A failed open_storage acquires nothing; after an exception nobody       *)
(* knows.  An open storage layer refuses.                                  *)
OpenStorage(h) ==
    /\ pc[h] = "open_storage"
    /\ \/ /\ ~storage.open /\ storage' = [storage EXCEPT !.open = TRUE]
          /\ pc' = [pc EXCEPT ![h] = "list_tables"]
          /\ UNCHANGED <<slot, db>>
       \/ /\ storage.open \/ "error" \in Faults
          /\ slot' = FALSE
          /\ db' = [db EXCEPT ![h] = Cleared]
          /\ pc' = [pc EXCEPT ![h] = "idle"]
          /\ UNCHANGED storage
       \/ /\ "throw" \in Faults
          /\ storage' \in {storage, [storage EXCEPT !.open = TRUE]}
          /\ pc' = [pc EXCEPT ![h] = "abort_open"]
          /\ UNCHANGED <<slot, db>>
    /\ UNCHANGED abandoned

(* The catalog is what storage lists; an error, an exception or metadata   *)
(* that make no sense abort the open.                                      *)
ListTables(h) ==
    /\ pc[h] = "list_tables"
    /\ \/ /\ db' = [db EXCEPT ![h] = [Cleared EXCEPT !.open = TRUE, !.catalog = storage.tables]]
          /\ pc' = [pc EXCEPT ![h] = "idle"]
       \/ /\ Faults # {}
          /\ pc' = [pc EXCEPT ![h] = "abort_open"]
          /\ UNCHANGED db
    /\ UNCHANGED <<slot, storage, abandoned>>

(* (mutant) The slot is given back although the close has to be retried. *)
SlotAfterAbortOpen_Released(result) == FALSE

SlotAfterAbortOpen(result) == ~Clean(result)

AbortOpen(h) ==
    /\ pc[h] = "abort_open"
    /\ \E result \in Results :
          /\ CloseOwned(result)
          /\ db' = [db EXCEPT ![h] = IF Clean(result) THEN Cleared ELSE Pending(TRUE)]
          /\ slot' = SlotAfterAbortOpen(result)
    /\ pc' = [pc EXCEPT ![h] = "idle"]

-----------------------------------------------------------------------------
(* close: of an open database, of one whose last close failed, or of one   *)
(* that an exception closed.                                               *)

close(h) ==
    /\ Idle(h) /\ db[h].alive
    /\ \/ /\ db[h].open
          /\ pc' = [pc EXCEPT ![h] = "close"]
          /\ UNCHANGED db
       \/ /\ ~db[h].open /\ db[h].forced /\ db[h].retry
          /\ pc' = [pc EXCEPT ![h] = "retry"]
          /\ UNCHANGED db
       \/ /\ ~db[h].open /\ db[h].forced /\ ~db[h].retry
          /\ db' = [db EXCEPT ![h].forced = FALSE]
          /\ UNCHANGED pc
    /\ UNCHANGED <<slot, storage, abandoned>>

CloseOpen(h) ==
    /\ pc[h] = "close"
    /\ \E result \in Results :
          /\ CloseOwned(result)
          /\ db' = [db EXCEPT ![h] = IF Clean(result) THEN Cleared ELSE Pending(TRUE)]
          /\ slot' = ~Clean(result)
    /\ pc' = [pc EXCEPT ![h] = "idle"]

RetryClose(h) ==
    /\ pc[h] = "retry"
    /\ \E result \in Results :
          /\ CloseOwned(result)
          /\ IF Clean(result)
             THEN db' = [db EXCEPT ![h].retry = FALSE, ![h].forced = FALSE] /\ slot' = FALSE
             ELSE UNCHANGED <<db, slot>>
    /\ pc' = [pc EXCEPT ![h] = "idle"]

-----------------------------------------------------------------------------
(* Destructor, constructor, moves.  Callers keep them apart from other     *)
(* calls on the objects.                                                   *)

destroy(h) ==
    /\ Idle(h) /\ db[h].alive
    /\ IF Owns(h)
       THEN pc' = [pc EXCEPT ![h] = "destroy"] /\ UNCHANGED db
       ELSE db' = [db EXCEPT ![h] = MovedFrom] /\ UNCHANGED pc
    /\ UNCHANGED <<slot, storage, abandoned>>

(* Best effort: the slot is released whatever storage answers. *)
DestroyOwner(h) ==
    /\ pc[h] = "destroy"
    /\ \E result \in Results : CloseStorage(result)
    /\ abandoned' = (abandoned \/ storage'.open)
    /\ db' = [db EXCEPT ![h] = MovedFrom]
    /\ slot' = FALSE
    /\ pc' = [pc EXCEPT ![h] = "idle"]

construct(h) ==
    /\ Idle(h) /\ ~db[h].alive
    /\ db' = [db EXCEPT ![h] = Cleared]
    /\ UNCHANGED <<slot, pc, storage, abandoned>>

(* operator=: an object that must retry its close keeps its Impl, and the  *)
(* other one its own.                                                      *)
move_assign(h, g) ==
    /\ h # g /\ Idle(h) /\ Idle(g)
    /\ \E result \in Results :
          /\ IF Owns(h)
             THEN CloseOwned(result)
             ELSE result = "ok" /\ UNCHANGED <<storage, abandoned>>
          /\ IF Clean(result)
             THEN /\ db' = [db EXCEPT ![h] = db[g], ![g] = MovedFrom]
                  /\ slot' = (slot /\ ~Owns(h))
             ELSE /\ db' = [db EXCEPT ![h] = Pending(TRUE)]
                  /\ UNCHANGED slot
    /\ UNCHANGED pc

-----------------------------------------------------------------------------
(* What a script does to the lifecycle (module Script has its steps) *)

BeginScript(h) ==
    /\ Idle(h) /\ db[h].alive /\ db[h].open
    /\ pc' = [pc EXCEPT ![h] = "script"]
    /\ UNCHANGED <<slot, db, storage, abandoned>>

EndScript(h) ==
    /\ pc[h] = "script"
    /\ pc' = [pc EXCEPT ![h] = "idle"]
    /\ UNCHANGED <<slot, db, storage, abandoned>>

(* (mutant) The catalog is not told. *)
CatalogAfterCreate_Stale(h, t) == db[h].catalog

CatalogAfterCreate(h, t) == db[h].catalog \cup {t}

(* create_table succeeds: storage first, then the catalog. *)
CreateTable(h, t) ==
    /\ pc[h] = "script" /\ db[h].open
    /\ storage' = [storage EXCEPT !.tables = @ \cup {t}]
    /\ db' = [db EXCEPT ![h].catalog = CatalogAfterCreate(h, t)]
    /\ UNCHANGED <<slot, pc, abandoned>>

(* A storage call throws, or its answer makes no sense; the call may have  *)
(* created table t.  Now abort_after_storage_exception closes storage.     *)
StorageException(h, created) ==
    /\ pc[h] = "script" /\ db[h].open
    /\ storage' = [storage EXCEPT !.tables = @ \cup created]
    /\ pc' = [pc EXCEPT ![h] = "abort"]
    /\ UNCHANGED <<slot, db, abandoned>>

AbortScript(h) ==
    /\ pc[h] = "abort"
    /\ \E result \in Results :
          /\ CloseOwned(result)
          /\ db' = [db EXCEPT ![h] = Pending(~Clean(result))]
          /\ slot' = ~Clean(result)
    /\ pc' = [pc EXCEPT ![h] = "script"]

-----------------------------------------------------------------------------
Lifecycle(h) ==
    \/ open(h) \/ OpenStorage(h) \/ ListTables(h) \/ AbortOpen(h)
    \/ close(h) \/ CloseOpen(h) \/ RetryClose(h)
    \/ destroy(h) \/ DestroyOwner(h) \/ construct(h)
    \/ \E g \in Handles : move_assign(h, g)

Next ==
    \E h \in Handles :
        \/ Lifecycle(h)
        \/ BeginScript(h) \/ EndScript(h) \/ AbortScript(h)
        \/ \E t \in Tables : CreateTable(h, t)
        \/ \E created \in {{}} \cup {{t} : t \in Tables} : StorageException(h, created)

Spec == Init /\ [][Next]_lifecycle

-----------------------------------------------------------------------------
(* The slot is taken exactly while some object answers for the storage     *)
(* layer, and never by two; and the storage layer is not open without one, *)
(* unless a destructor gave it up or a close took kInvalidRequest for      *)
(* success: whatever else fails, a close can be retried.                   *)
SlotOwned ==
    /\ slot <=> \E h \in Handles : Owns(h)
    /\ \A h, g \in Handles : Owns(h) /\ Owns(g) => h = g
    /\ storage.open => slot \/ abandoned

(* The catalog of an open database is what storage would list: a table     *)
(* whose creation failed is in neither, one whose outcome is unknown ends  *)
(* the session.                                                            *)
CatalogMatchesStorage ==
    \A h \in Handles :
        db[h].open /\ pc[h] # "abort" => storage.open /\ db[h].catalog = storage.tables
=============================================================================
