------------------------------- MODULE Storage -------------------------------
(***************************************************************************)
(* storage/storage: the life of a data directory and of its catalog.       *)
(*                                                                         *)
(* The directory holds storage.meta and one file per table.  The schemas   *)
(* of the user tables are rows of two system tables, which are read and    *)
(* written through the buffer pool: create_table makes a file, adds the    *)
(* column rows, adds the table row (the commit marker) and flushes the     *)
(* marker; a step that fails is undone by further steps, which may fail as *)
(* well.  A directory of an earlier version (Legacy) has the schemas in    *)
(* storage.meta instead.                                                   *)
(*                                                                         *)
(* Callers serialize their calls.  A step is one change of the directory,  *)
(* of a file or of a row, so that the process can end between any two.     *)
(* Calls that are refused change nothing and are not steps.                *)
(***************************************************************************)
EXTENDS Integers, Sequences, FiniteSets

CONSTANTS
    TableIds,   \* ids of user tables
    Names,      \* names of user tables
    Schemas,    \* column names of a table, in order
    Scenarios,  \* what the directory is and what may go wrong, see Scenario
    MaxLeftover,  \* for how many ids a clean-up may fail (a bound)
    None

(* legacy: the directory is one of an earlier version; failures: file      *)
(* operations and page I/O may fail; cleanup: so may the operations that   *)
(* undo a failed call; crashes: the process may end without closing;       *)
(* throws: BufferPool::close may throw; max_rows: the number of RIDs of    *)
(* the system tables, dead rows on disk included (a bound).                *)
Scenario == [legacy : BOOLEAN, failures : BOOLEAN, cleanup : BOOLEAN,
             crashes : BOOLEAN, throws : BOOLEAN, max_rows : Nat]

SystemIds == {0, 1}

ASSUME StorageAssumption ==
    /\ TableIds \cap SystemIds = {}
    /\ \A s \in Schemas :
        /\ s # <<>> /\ s \in Seq({s[i] : i \in DOMAIN s})
        /\ \A i, j \in DOMAIN s : s[i] = s[j] => i = j
    /\ Scenarios \subseteq Scenario
    /\ MaxLeftover \in Nat
    /\ None \notin [id : TableIds, name : Names, cols : Schemas]

VARIABLES
    scenario,       \* never changes
    lifecycle,      \* state.lifecycle; "opening" while an empty directory is
                    \* initialized
    tables,         \* state.tables, the user tables
    open_files,     \* the files the FileManager has open
    cursor,         \* there is a cursor on a system table
    rows,           \* rows of the system tables: in the pool, on disk
    dir,            \* the data directory: storage.meta, its temporary, files
    call,           \* the call that is under way: its next step, its table,
                    \* the column rows and the marker it has added
    created,        \* (callers) tables whose create_table has succeeded
    leftover,       \* (callers) ids a failed call could not clean up
    begun,          \* (callers) ids whose create_table the process's end cut off
    lost            \* (callers) how what the pool held was lost

vars == <<scenario, lifecycle, tables, open_files, cursor, rows, dir, call,
          created, leftover, begun, lost>>

Legacy == scenario.legacy

Failures == scenario.failures

RowIds == 1..scenario.max_rows

Tables == [id : TableIds, name : Names, cols : Schemas]

(* A row of tdb_sys_tables, the commit marker of a table; a row of         *)
(* tdb_sys_columns.                                                        *)
TableRow(rid, t) ==
    [rid |-> rid, kind |-> "table", id |-> t.id, name |-> t.name, n |-> Len(t.cols)]

ColumnRow(rid, t, i) ==
    [rid |-> rid, kind |-> "column", id |-> t.id, name |-> t.cols[i], n |-> i]

Idle == [pc |-> "idle", table |-> None, rows |-> <<>>, marker |-> None]

(* storage.meta: none, the bootstrap marker, or the tables of a legacy one. *)
Bootstrap == [kind |-> "bootstrap", tables |-> {}]

NoMeta == [kind |-> "none", tables |-> {}]

LegacyMeta(ts) == [kind |-> "legacy", tables |-> ts]

Steps == {"idle", "make_tables", "make_columns", "write", "rename", "load", "uninit",
          "columns", "marker", "flush", "unmark", "undo", "unfile"}

TypeOK ==
    /\ scenario \in Scenarios
    /\ lifecycle \in {"closed", "opening", "open", "closing"}
    /\ tables \in SUBSET Tables
    /\ open_files \in SUBSET (TableIds \cup SystemIds)
    /\ cursor \in BOOLEAN
    /\ DOMAIN rows = {"pool", "disk"}
    /\ \A side \in {"pool", "disk"} : \A r, s \in rows[side] : r.rid = s.rid => r = s
    /\ dir.meta.kind \in {"none", "bootstrap", "legacy"} /\ dir.tmp \in BOOLEAN
    /\ dir.files \in SUBSET (TableIds \cup SystemIds)
    /\ call.pc \in Steps /\ call.table \in Tables \cup {None}
    /\ created \in SUBSET Tables
    /\ leftover \in SUBSET (TableIds \cup SystemIds)
    /\ begun \in SUBSET TableIds
    /\ lost \in SUBSET {"crash", "throw"}

Init ==
    /\ scenario \in Scenarios
    /\ lifecycle = "closed" /\ tables = {} /\ open_files = {} /\ cursor = FALSE
    /\ rows = [pool |-> {}, disk |-> {}]
    /\ dir = [meta |-> IF Legacy THEN LegacyMeta({}) ELSE NoMeta, tmp |-> FALSE, files |-> {}]
    /\ call = Idle
    /\ created = {} /\ leftover = {} /\ begun = {} /\ lost = {}

Ids(ts) == {t.id : t \in ts}

-----------------------------------------------------------------------------
(* What open_storage makes of a directory. *)

Markers(R) == {r \in R : r.kind = "table"}

ColumnsOf(R, id) == {r \in R : r.kind = "column" /\ r.id = id}

(* (mutant) The number of columns is not compared with the marker's. *)
ColumnsComplete_Contiguous(R, m) ==
    {r.n : r \in ColumnsOf(R, m.id)} = 1..Cardinality(ColumnsOf(R, m.id))

(* The columns of marker m: one for each ordinal, as many as m says. *)
ColumnsComplete(R, m) ==
    /\ Cardinality(ColumnsOf(R, m.id)) = m.n
    /\ {r.n : r \in ColumnsOf(R, m.id)} = 1..m.n

(* load_user_catalog accepts the rows. *)
CatalogValid(R) ==
    /\ \A m1, m2 \in Markers(R) : m1.id = m2.id \/ m1.name = m2.name => m1 = m2
    /\ \A r \in R \ Markers(R) : r.id \in {m.id : m \in Markers(R)}
    /\ \A m \in Markers(R) :
        /\ ColumnsComplete(R, m)
        /\ \A r, s \in ColumnsOf(R, m.id) : r.name = s.name => r.n = s.n

(* The tables it makes of them, if they are valid. *)
CatalogTables(R) ==
    {[id |-> m.id, name |-> m.name,
      cols |-> [i \in {r.n : r \in ColumnsOf(R, m.id)} |-> (CHOOSE r \in ColumnsOf(R, m.id) : r.n = i).name]]
        : m \in Markers(R)}

Shown == IF dir.meta.kind = "legacy" THEN dir.meta.tables ELSE CatalogTables(rows.disk)

(* validate_catalog_table_files, after the catalog's files were opened. *)
FilesMatch(ts) == dir.files = SystemIds \cup Ids(ts)

(* A directory without storage.meta must be empty. *)
Fresh == dir.meta.kind = "none" /\ ~dir.tmp /\ dir.files = {}

Openable ==
    \/ dir.meta.kind = "legacy" /\ Ids(dir.meta.tables) \subseteq dir.files
    \/ dir.meta.kind = "bootstrap" /\ CatalogValid(rows.disk) /\ FilesMatch(Shown)

(* The storage is open on what the directory holds. *)
Opened ==
    /\ lifecycle' = "open"
    /\ tables' = Shown
    /\ open_files' = Ids(Shown) \cup (IF dir.meta.kind = "legacy" THEN {} ELSE SystemIds)
    /\ rows' = [rows EXCEPT !.pool = rows.disk]

open_storage ==
    /\ lifecycle = "closed" /\ call = Idle
    /\ Openable
    /\ Opened
    /\ UNCHANGED <<cursor, dir, call, created, leftover, begun, lost, scenario>>

-----------------------------------------------------------------------------
(* open_storage in an empty directory: the two system files, storage.meta, *)
(* and the load of an empty catalog.  After a failure what was made is     *)
(* removed again, as far as that is possible.                              *)

Goto(pc) == call' = [call EXCEPT !.pc = pc]

InitializeCatalog ==
    /\ lifecycle = "closed" /\ call = Idle
    /\ Fresh
    /\ lifecycle' = "opening"
    /\ Goto("make_tables")
    /\ UNCHANGED <<tables, open_files, cursor, rows, dir, created,
                   leftover, begun, lost, scenario>>

(* An operation that undoes a part of a failed call fails in turn: a row   *)
(* or a file of id stays behind.                                           *)
NotCleaned(id) ==
    /\ scenario.cleanup
    /\ Cardinality(leftover \cup {id}) <= MaxLeftover
    /\ leftover' = leftover \cup {id}

(* PageFile::create; a failure may leave the file behind. *)
FileMade(id) ==
    /\ dir' = [dir EXCEPT !.files = @ \cup {id}]
    /\ open_files' = open_files \cup {id}
    /\ UNCHANGED leftover

FileNotMade(id) ==
    /\ Failures
    /\ \/ UNCHANGED <<dir, leftover>>
       \/ NotCleaned(id) /\ dir' = [dir EXCEPT !.files = @ \cup {id}]
    /\ UNCHANGED open_files

MakeSystemTables ==
    /\ call.pc = "make_tables"
    /\ \/ FileMade(0) /\ Goto("make_columns") /\ UNCHANGED lifecycle
       \/ FileNotMade(0) /\ call' = Idle /\ lifecycle' = "closed"
    /\ UNCHANGED <<tables, cursor, rows, created, begun, lost, scenario>>

MakeSystemColumns ==
    /\ call.pc = "make_columns"
    /\ \/ FileMade(1) /\ Goto("write")
       \/ FileNotMade(1) /\ Goto("uninit")
    /\ UNCHANGED <<lifecycle, tables, cursor, rows, created, begun, lost, scenario>>

(* The pool, and load_user_catalog on the new, empty tables; a failure of  *)
(* validate_catalog_table_files is not followed by a rollback.             *)
LoadNew ==
    /\ call.pc = "load"
    /\ \/ Opened /\ call' = Idle
       \/ Failures /\ Goto("uninit") /\ UNCHANGED <<lifecycle, tables, open_files,
                                                    rows>>
       \/ /\ Failures /\ call' = Idle
          /\ lifecycle' = "closed" /\ open_files' = {}
          /\ UNCHANGED <<tables, rows>>
    /\ UNCHANGED <<cursor, dir, created, leftover, begun, lost, scenario>>

(* (mutant) storage.meta stays behind. *)
rollback_initialization_KeepsMeta ==
    /\ call.pc = "uninit"
    /\ dir' = [dir EXCEPT !.files = {}]
    /\ lifecycle' = "closed" /\ call' = Idle /\ open_files' = {}
    /\ UNCHANGED <<tables, cursor, rows, created, leftover, begun, lost, scenario>>

(* Each of the three removals may fail, which is ignored; a temporary      *)
(* storage.meta that could not be removed stays as well.                   *)
rollback_initialization ==
    /\ call.pc = "uninit"
    /\ \E kept \in SUBSET dir.files, meta \in {NoMeta, dir.meta} :
        /\ scenario.cleanup \/ (kept = {} /\ meta = NoMeta)
        /\ dir' = [dir EXCEPT !.files = kept, !.meta = meta]
        /\ leftover' = leftover \cup kept \cup
                          (IF meta.kind # "none" \/ dir.tmp THEN SystemIds ELSE {})
    /\ lifecycle' = "closed" /\ call' = Idle /\ open_files' = {}
    /\ UNCHANGED <<tables, cursor, rows, created, begun, lost, scenario>>

-----------------------------------------------------------------------------
(* write_bootstrap and write_metadata: a temporary file that replaces      *)
(* storage.meta.  They are called by the initialization, by create_table   *)
(* in legacy mode and by close_storage.                                    *)

NewMeta == IF Legacy THEN LegacyMeta(tables) ELSE Bootstrap

WriteTemporary ==
    /\ call.pc = "write"
    /\ dir' = [dir EXCEPT !.tmp = TRUE]
    /\ Goto("rename")
    /\ UNCHANGED <<lifecycle, tables, open_files, cursor, rows, created,
                   leftover, begun, lost, scenario>>

(* reset_state *)
Reset ==
    /\ lifecycle' = "closed"
    /\ tables' = {}
    /\ open_files' = {}
    /\ cursor' = FALSE
    /\ rows' = [rows EXCEPT !.pool = {}]

ReplaceMetadata ==
    /\ call.pc = "rename"
    /\ dir' = [dir EXCEPT !.meta = NewMeta, !.tmp = FALSE]
    /\ \/ /\ lifecycle = "opening" /\ Goto("load")
          /\ UNCHANGED <<lifecycle, tables, open_files, cursor, rows, created>>
       \/ /\ lifecycle = "open" /\ call' = Idle
          /\ created' = created \cup {call.table}
          /\ UNCHANGED <<lifecycle, tables, open_files, cursor, rows>>
       \/ lifecycle = "closing" /\ Reset /\ call' = Idle /\ UNCHANGED created
    /\ UNCHANGED <<leftover, begun, lost, scenario>>

(* Writing or replacing fails; the temporary file is removed if possible.  *)
(* close_storage returns with the storage still Closing.                   *)
MetadataFails ==
    /\ call.pc \in {"write", "rename"} /\ Failures
    /\ \E tmp \in {FALSE, scenario.cleanup} : dir' = [dir EXCEPT !.tmp = tmp]
    /\ \/ lifecycle = "opening" /\ Goto("uninit") /\ UNCHANGED tables
       \/ lifecycle = "open" /\ Goto("unfile") /\ tables' = tables \ {call.table}
       \/ lifecycle = "closing" /\ call' = Idle /\ UNCHANGED tables
    /\ UNCHANGED <<lifecycle, open_files, cursor, rows, created,
                   leftover, begun, lost, scenario>>

-----------------------------------------------------------------------------
(* create_table *)

FreeRid == CHOOSE rid \in RowIds : \A r \in rows.pool \cup rows.disk : r.rid # rid

HasFreeRid == \E rid \in RowIds : \A r \in rows.pool \cup rows.disk : r.rid # rid

Admissible(t) ==
    /\ lifecycle = "open" /\ call = Idle
    /\ \A u \in tables : u.id # t.id /\ u.name # t.name
    /\ t.id \notin open_files \cup dir.files

(* A cursor on a system table, which is looked for after the file was made. *)
CatalogBusy == cursor /\ ~Legacy

create_table(t) ==
    /\ Admissible(t)
    /\ \/ /\ FileMade(t.id)
          /\ call' = [pc |-> IF Legacy THEN "write"
                             ELSE IF CatalogBusy THEN "unfile" ELSE "columns",
                      table |-> t, rows |-> <<>>, marker |-> None]
          /\ tables' = IF Legacy THEN tables \cup {t} ELSE tables
       \/ FileNotMade(t.id) /\ UNCHANGED <<call, tables>>
    /\ UNCHANGED <<lifecycle, cursor, rows, created, begun, lost, scenario>>

InsertColumn ==
    /\ call.pc = "columns"
    /\ \/ LET i == Len(call.rows) + 1
              row == ColumnRow(FreeRid, call.table, i)
          IN  /\ HasFreeRid
              /\ rows' = [rows EXCEPT !.pool = @ \cup {row}]
              /\ call' = [call EXCEPT !.rows = Append(@, row),
                              !.pc = IF i = Len(call.table.cols) THEN "marker" ELSE "columns"]
       \/ Failures /\ Goto("undo") /\ UNCHANGED rows
    /\ UNCHANGED <<lifecycle, tables, open_files, cursor, dir, created,
                   leftover, begun, lost, scenario>>

InsertMarker ==
    /\ call.pc = "marker"
    /\ \/ LET row == TableRow(FreeRid, call.table)
          IN  /\ HasFreeRid
              /\ rows' = [rows EXCEPT !.pool = @ \cup {row}]
              /\ call' = [call EXCEPT !.pc = "flush", !.marker = row]
       \/ Failures /\ Goto("undo") /\ UNCHANGED rows
    /\ UNCHANGED <<lifecycle, tables, open_files, cursor, dir, created,
                   leftover, begun, lost, scenario>>

(* flush_page on the marker's page; then the table is shown. *)
FlushMarker ==
    /\ call.pc = "flush"
    /\ \/ /\ rows' = [rows EXCEPT !.disk = @ \cup {call.marker}]
          /\ tables' = tables \cup {call.table}
          /\ created' = created \cup {call.table}
          /\ call' = Idle
       \/ Failures /\ Goto("unmark") /\ UNCHANGED <<rows, tables, created>>
    /\ UNCHANGED <<lifecycle, open_files, cursor, dir, leftover,
                   begun, lost, scenario>>

DeleteMarker ==
    /\ call.pc = "unmark"
    /\ Goto("undo")
    /\ \/ rows' = [rows EXCEPT !.pool = @ \ {call.marker}] /\ UNCHANGED leftover
       \/ NotCleaned(call.table.id) /\ UNCHANGED rows
    /\ UNCHANGED <<lifecycle, tables, open_files, cursor, dir,
                   created, begun, lost, scenario>>

(* (mutant) The rollback removes the file but not the rows. *)
rollback_catalog_create_FileOnly ==
    /\ call.pc = "undo"
    /\ Goto("unfile")
    /\ UNCHANGED <<lifecycle, tables, open_files, cursor, rows, dir,
                   created, leftover, begun, lost, scenario>>

(* The rows in the order of their insertion, up to the first failure. *)
rollback_catalog_create ==
    /\ call.pc = "undo"
    /\ \/ call.rows = <<>> /\ Goto("unfile") /\ UNCHANGED <<rows, leftover>>
       \/ /\ call.rows # <<>>
          /\ \/ /\ rows' = [rows EXCEPT !.pool = @ \ {Head(call.rows)}]
                /\ call' = [call EXCEPT !.rows = Tail(@)]
                /\ UNCHANGED leftover
             \/ NotCleaned(call.table.id) /\ Goto("unfile") /\ UNCHANGED rows
    /\ UNCHANGED <<lifecycle, tables, open_files, cursor, dir,
                   created, begun, lost, scenario>>

remove_table_file ==
    /\ call.pc = "unfile"
    /\ call' = Idle
    /\ \/ /\ dir' = [dir EXCEPT !.files = @ \ {call.table.id}]
          /\ open_files' = open_files \ {call.table.id}
          /\ UNCHANGED leftover
       \/ /\ NotCleaned(call.table.id)
          /\ open_files' \in {open_files, open_files \ {call.table.id}}
          /\ UNCHANGED dir
    /\ UNCHANGED <<lifecycle, tables, cursor, rows, created, begun, lost, scenario>>

-----------------------------------------------------------------------------

(* open_table and close_cursor on a system table. *)
ToggleCursor ==
    /\ lifecycle = "open" /\ call = Idle /\ ~Legacy
    /\ cursor' = ~cursor
    /\ UNCHANGED <<lifecycle, tables, open_files, rows, dir, call,
                   created, leftover, begun, lost, scenario>>

(* The pool writes a page back, in an eviction or a flush.  The border     *)
(* between two pages may fall anywhere between two rows.                   *)
WriteBack ==
    /\ lifecycle = "open"
    /\ \/ \E r \in rows.pool \ rows.disk : rows' = [rows EXCEPT !.disk = @ \cup {r}]
       \/ \E r \in rows.disk \ rows.pool : rows' = [rows EXCEPT !.disk = @ \ {r}]
    /\ UNCHANGED <<lifecycle, tables, open_files, cursor, dir, call,
                   created, leftover, begun, lost, scenario>>

(* close_storage, first part: the pool is flushed and closed.  A flush     *)
(* that fails leaves the storage open, with some pages written back.  An   *)
(* exception leaves it Closing.                                            *)
ClosePool ==
    /\ lifecycle = "open" /\ call = Idle
    /\ lifecycle' = "closing"
    /\ \/ /\ rows' = [rows EXCEPT !.disk = rows.pool]
          /\ UNCHANGED lost
       \/ scenario.throws /\ lost' = lost \cup {"throw"} /\ UNCHANGED rows
    /\ UNCHANGED <<tables, open_files, cursor, dir, call,
                   created, leftover, begun, scenario>>

(* Second part, also of a retry: the files, and then storage.meta. *)
CloseFiles ==
    /\ lifecycle = "closing" /\ call = Idle
    /\ \E failed \in IF Failures THEN SUBSET open_files ELSE {{}} :
        /\ open_files' = failed
        /\ IF failed = {} THEN Goto("write") ELSE UNCHANGED call
    /\ UNCHANGED <<lifecycle, tables, cursor, rows, dir, created,
                   leftover, begun, lost, scenario>>

(* The process ends: what the pool holds is lost. *)
Crash ==
    /\ scenario.crashes
    /\ lifecycle # "closed"
    /\ Reset
    /\ call' = Idle
    /\ begun' = IF call.table = None THEN begun ELSE begun \cup {call.table.id}
    /\ lost' = lost \cup {"crash"}
    /\ UNCHANGED <<dir, created, leftover, scenario>>

Next ==
    \/ open_storage \/ InitializeCatalog \/ MakeSystemTables \/ MakeSystemColumns
    \/ LoadNew \/ rollback_initialization
    \/ WriteTemporary \/ ReplaceMetadata \/ MetadataFails
    \/ \E t \in Tables : create_table(t)
    \/ InsertColumn \/ InsertMarker \/ FlushMarker
    \/ DeleteMarker \/ rollback_catalog_create \/ remove_table_file
    \/ ToggleCursor \/ WriteBack \/ ClosePool \/ CloseFiles \/ Crash

Spec == Init /\ [][Next]_vars

-----------------------------------------------------------------------------

(* Whatever clean-ups or crashes have left behind: open_storage accepts    *)
(* only a directory that has every table whose create_table succeeded,     *)
(* with its schema; a table that it shows besides comes from a call that   *)
(* could not be undone or that a crash cut off.                            *)
FailClosed ==
    lifecycle = "closed" /\ call = Idle /\ Openable =>
        /\ created \subseteq Shown
        /\ Ids(Shown \ created) \subseteq leftover \cup begun

(* The directory can be opened, or initialized if nothing was created, and *)
(* has exactly the tables that were created.                               *)
Reopens ==
    \/ Fresh /\ created = {}
    \/ Openable /\ Shown = created

(* After close_storage has succeeded, and after an open_storage that       *)
(* failed, the directory reopens, whichever calls have failed in between,  *)
(* as long as their clean-up did not fail in turn and the pool's pages     *)
(* were not lost.  With a legacy storage.meta it does so even after a      *)
(* crash.                                                                  *)
ReopenShowsCreated ==
    lifecycle = "closed" /\ call = Idle /\ leftover = {} /\ (Legacy \/ lost = {}) => Reopens

(* What storage-contract.md says of a close that failed and was retried:   *)
(* once close_storage succeeds the directory reopens, also when            *)
(* BufferPool::close threw the first time.                                 *)
RetriedCloseSaves ==
    lifecycle = "closed" /\ call = Idle /\ leftover = {} /\ "crash" \notin lost => Reopens

(* Between calls the tables in memory are those the catalog's rows         *)
(* describe, and their files are open and in the directory: a failed       *)
(* create_table leaves nothing behind.                                     *)
CatalogAgrees ==
    lifecycle = "open" /\ call = Idle /\ leftover = {} =>
        /\ ~Legacy => CatalogValid(rows.pool) /\ CatalogTables(rows.pool) = tables
        /\ Ids(tables) \subseteq open_files \cap dir.files

(* While a cursor is open on a system table, no row of the catalog is      *)
(* added or removed under it.                                              *)
StableUnderCursor ==
    [][cursor /\ cursor' => rows'.pool = rows.pool]_vars
=============================================================================
