# tinydbms: TLA+ models, checks and proofs

tinydbms is a small relational database in C++20: a SQL compiler, an executor,
a paged storage engine, a command line and a Qt GUI. This directory holds TLA+
models of its parts, the TLC configurations that check them on small instances,
and TLAPS proofs about them for every size. Paths below are relative to the
repository, which PROJECT.json sees under `src/`.

Run a check with `tlc -config pool_demand.cfg MCBufferPool`, a proof with
`tlapm BufferPoolProofs.tla`.

## 1. Inventory

| Component | State it keeps | Operations | Talks to |
|---|---|---|---|
| `storage/buffer_pool` | frames (key, page, dirty, pin, ticket, state, reservation), PageTable, loading table, replacement list, lifecycle, prefetch queue and worker | `fetch_page`, guards (`mutable_page`, `mark_dirty`, release), `flush_page`, `flush_all`, `release_table`, `close`, `prefetch_page`, worker loop | PageFile through leases of FileManager; called by HeapTable and storage |
| `storage/file_manager` | open files, leases in flight, closing marks | create, open, acquire, release, close one, close all, remove | PageFile; called by BufferPool, HeapTable, storage |
| `storage/page_file` | stream, header (page count, free list head), poison latch | create, open, read, write, allocate, free, close | the file system |
| `storage/slotted_page`, `record_page` | slot directory with generations, record bytes | insert, replace, erase, read, validate | pure, on a page |
| `storage/heap_table`, `cursor_state` | cursors; pages through guards | insert, delete, update, get, scan open/next/close | BufferPool, FileManager |
| `storage/storage` | service state (Closed, Open, Closing), catalog, TableIds | open, close, create table, CRUD | everything above |
| `storage/record_codec` | none | encode, decode | pure |
| `core/database` | the process-wide database slot | open, close, abort, execute | storage, compiler |
| `core/script`, `executor`, `analysis_catalog` | statement loop, shadow catalog, cancellation | run a script; CREATE, INSERT, SELECT, DELETE, UPDATE | compiler, storage |
| `core/expression`, `plan_text` | none | evaluate, format | pure |
| `compiler/*` | none | lex, parse, bind, optimize, plan | pure |
| `app/*` | REPL state, active cancel token | REPL, batch, SIGINT | core |
| `gui/*` | session state, worker thread, pending requests | open, execute, cancel, close | core over Qt's queued signals |

Hard behaviours, and what makes each component correct:

* **BufferPool** is the concurrent heart. `load_page` gives up `metadata_mutex_`
  for I/O up to three times and comes back to a pool that others have changed.
  Correct means: one copy of each page; a holder keeps its page; nothing a
  holder wrote is lost by eviction, failed writes, flushing, releasing or
  closing; loads of a page are shared; nobody waits for ever.
* **FileManager** hands out leases that protect files against being closed, and
  its closers sleep on a condition variable. Correct means: a leased file is
  open; two closers never meet; a failed close keeps the file for a retry; every
  close returns.
* **PageFile** updates a header and a page in two writes; a failure between them
  poisons the file. Correct means: no page is both free and allocated.
* **SlottedPage** reuses slots. Correct means: an old RID never names a new
  record, also at the limit of the generation counter.
* **Storage** creates a table in several files and rows and undoes it when a
  step fails; a crash may fall anywhere. Correct means: after any failure and
  reopening, a table is there completely or not at all; close can be retried.
* **Database, Script** combine a process-wide slot, error policies, cancellation
  and statements of two phases. Correct means: the reported outcome
  (nothing done, done, possibly done) matches what happened.
* **Runner, GUI** have asynchronous requests: a signal handler, a worker thread.
  Correct means: a late answer or cancellation never hits the wrong statement,
  and closing always ends.

`PROJECT.json` lists every hazard at its line, with the properties that watch
it, or why none does.

## 2. Plan

The order was: first the two components whose correctness is about concurrency,
then the two below them whose correctness is about failing writes and long
histories, then upwards through the catalog, the tables, the sessions and the
clients, and at last the language, which has no concurrency but many cases.

| Modules | Part | State |
|---|---|---|
| `PageStore`, `BufferPool`, `MCBufferPool`, `BufferPoolProofs` | page cache | checked and proved |
| `FileManager`, `MCFileManager`, `FileManagerProofs` | open files and leases | checked and proved |
| `PageFile`, `MCPageFile`, `PageFileProofs` | header, free list, failing writes | checked and proved |
| `RecordStore`, `SlottedPage`, `MCSlottedPage`, `SlottedPageProofs` | slots, generations, compaction | checked and proved |
| `Storage`, `MCStorage`, `StorageProofs` | lifecycle and catalog of a directory | checked and proved |
| `HeapTable`, `MCHeapTable`, `HeapTableProofs` | tables over pages, scans, batches | checked and proved |
| `Database`, `SessionProofs` | the process-wide slot | checked and proved |
| `Script`, `Cli`, `MCCli`, `SessionProofs` | statements, cancellation, command line | checked and proved |
| `GuiSession`, `MCGuiSession`, `SessionProofs` | window and worker thread | checked and proved |
| `Expression`, `Parser`, `Semantic`, `Optimizer`, `Planner`, `Executor`, `Query`, `MCQuery` | a statement from tokens to rows | checked |
| `ScriptText`, `MCScriptText`, `ScriptTextProofs` | from bytes to tokens and positions | checked, proved |

`HeapTable` implements `RecordStore`, which `SlottedPage` implements for one
page. `Script` and `GuiSession` extend `Database`; `Cli` extends `Script`.

## 3. BufferPool

### 3.1 Model

One step is one critical section of `metadata_mutex_`, one unlocked page read or
write, or one unlocked mutation through a guard. `pc[t]` says where thread `t`
is: a client rests at `idle`, `holding` (has a guard) or `mutated` (has changed
the page and not marked it dirty yet); inside `load_page` it is before or after
an I/O (`free_io`, `free_ret`, `clean_*`, `dirty_*`, `write_*`), `waiting` for
another thread's load or `woken`; inside `release_table` and `close` it joins
the worker (`join_*`) and restarts it.

| Actions | Code (`buffer_pool.cpp`) |
|---|---|
| `Fetch`, `Hit`, `Join`, `LoadFree`, `Reserve`, `LookupFails` | first critical section of `load_page` |
| `ReadPage`, `PublishFree`, `AbandonFree` | miss into a free frame |
| `CommitClean`, `CancelClean` | replacement of a clean victim |
| `SnapshotVictim`, `WriteBack`, `CommitDirty`, `CancelDirty`, `CancelWritten` | replacement of a dirty victim with its writeback |
| `WakeReady`, `WakeRetry`, `WakeError` | a waiter after its wait |
| `Mutate`, `mark_dirty`, `ReleaseGuard` | `PageGuard` |
| `flush_page`, `flush_all`, `flush_dirty_frames_for_experiment` | flushes, each in one critical section, any write may fail |
| `release_table`, `Release*`, `close`, `Close*`, `Restart` | stop and join the worker, act, restart |
| `prefetch_page`, `Worker*` | queue and worker loop |

Abstractions: a page's content is an element of `Values`; the shared objects
`LoadReservation` and `LoadCompletion` are identified with the thread whose load
they belong to; `access_generation`, only ever compared with its value at the
reservation, is the flag `touched`; the replacement list is the order relation
of its frames. Statistics, logging, test hooks and memory exhaustion are left
out. Reads and writes may fail at any time, which includes a file that cannot be
leased.

`ConcurrentFlush` says whether an explicit flush may overlap the victim
writeback of the same frame by another thread. With FALSE the model describes
the pool under the storage service, which serializes its operations; with TRUE
the pool under any caller.

### 3.2 What is checked

| Run | Instance | Shows |
|---|---|---|
| `pool_demand` | 2 clients, 3 pages of 2 tables, 2 frames, FIFO | `LoadsExclusive`, `CleanPagesOnDisk`, `LoadedPagesFresh`, and `ImplementsPageStore` |
| `pool_waits` | 2 clients and the worker, 2 pages of 2 tables, 1 frame, LRU, fairness | `PinsAccounted`, `ImplementsPageStore`, `CallsReturn` |

The other invariants of the module (`TypeOK`, `MappingConsistent`,
`WaitersHaveLoader`, `ControlOK`, `ClosedQuiescent`) hold in these runs as well,
and are proved below. `CallsReturn` has two parts: who waits
for a load stops waiting, and once prefetch submissions end every call returns.

`PageStore` is the abstract specification: pages with one content each, guards,
and writes by holders. `ImplementsPageStore` maps a page's content to its
resident copy, or else to the file, and says that everything else the pool does
is a stuttering step.

Bounds. More pages than frames, so that evictions happen; pages of two tables,
so that `release_table` meets frames and loads of its own and of another table;
two values in `pool_demand`, so that a lost or an old content is seen. `MaxTicket` (2) cuts
the number of loads per frame, and is at the same time the numeric limit at
which the code refuses; two tickets suffice for load, eviction and reload of a
frame. `PrefetchQueueCap` is the 2 of the code. Client threads, and values, are
interchangeable, hence the symmetry sets (not used for liveness).

Fairness. `FairSpec` assumes weak fairness of every thread that is inside a
call and of the worker: I/O returns, mutexes are granted, notified threads run.
No thread is assumed to call the pool or to release a guard. `CallsReturn`
assumes in addition that prefetch submissions end some time: a waiter whose
prefetch failed starts over, and the code has nothing that prevents a new
prefetch of the same page from overtaking it each time.

### 3.3 What is proved

`BufferPoolProofs` proves, for any finite set of clients, any pages, tables and
values, any number of frames and any ticket limit, both policies, with and
without prefetching and concurrent flushes:

`TypeCorrect`, `MappingAlwaysConsistent`, `PinsAlwaysAccounted`,
`LoadsAlwaysExclusive`, `NoLostWakeup`, `WorkerStaysJoined`.

None of these is inductive alone. Their conjunction with `LocalsOK` (what the
local variables of `load_page` hold where they are used) is: `IInv`. The
mapping needs exclusive loads (whoever commits has the frame and the loading
entry it reserved), exclusive loads need the mapping (a page that is loaded is
not resident), pins need both (only a READY frame is guarded), and a waiter's
loader cannot vanish because a loader leaves its load only through `Complete`.
The proof has one lemma per action; the actions that leave the frame control
alone go through the lemmas `Quiet` and `LocalStep`, the ones that clean
frames through `CleaningStep`, the ones that end a load through
`CompleteFacts`, the ones that free frames through `FreeingStep`.

`ClosedStaysQuiescent` is proved on top of it: a closed pool has only free frames
(`ClosedFree`, kept because every load begins under the mutex in an open pool),
and in such a pool nobody can be inside a load or hold a guard, by `IInv`.

The second part of the module goes on to what the pages contain, under the assumption
`~ConcurrentFlush`: `CleanPagesStayOnDisk`, `LoadsStayFresh` and
`PoolImplementsPageStore`. The assumption is needed: section 13 has a
counterexample without it. The invariant is `DInv`, the conjunction of
`CleanPagesOnDisk`, `LoadedPagesFresh` and `SnapshotCurrent`, inductive on top
of `IInv`. `SnapshotCurrent` is the missing link: while a thread writes a victim
back, the victim stays dirty, and unless it was touched nobody holds it and it
equals the snapshot (after a successful write: the file), so that the commit may
drop the frame. Each action has one lemma `...Data`, which shows that it keeps
`DInv` and is a step of `PageStore` or a stutter under the mapping.

Assumed of the constants: `ConstantsAssumption` (clients finite, at least one
frame, `None` outside the other sets).

Only model-checked: the liveness properties (fairness is outside the prover's
reach).

## 4. FileManager

### 4.1 Model

One step is one critical section of `mutex_`, one `PageFile::close` outside it,
or the removal of one directory entry. A thread that sleeps on `state_changed_`
is in `asleep` and looks at its condition only after a `notify_all`, so a
missing notification is visible. A lease belongs to nobody in particular, as
`PageFileLease` is movable. `PageFile::close` succeeds, or fails with the stream
still open, or fails although the stream is closed (`stuck`: every retry fails,
as the comment in `page_file.cpp` says). Calls that are refused change nothing
and are not steps.

| Actions | Code (`file_manager.cpp`) |
|---|---|
| `create_table_file`, `open_table_file`, `acquire_file`, `release_lease` | the functions of these names |
| `close_table_file`, `SleepOn`, `TableDrained`, `CloseTable`, `FinishTable` | `close_table_file` |
| `remove_table_file`, `Unlink` | `remove_table_file` (an open table goes through the close first) |
| `close_all`, `SleepOn`, `AllDrained`, `CloseNext`, `FinishAll` | `close_all`, the destructor |

### 4.2 What is checked and proved

| Run | Instance | Shows |
|---|---|---|
| `files` | 3 callers, 2 leases, 2 tables | `LeasedFilesOpen`, `OwnersKept`, and `ClosesReturn` under fairness |

Three callers are enough for two table closers and a `close_all`; two leases for
a file that stays leased when one lease goes. Fairness: a thread inside a call
goes on, and every lease is released some time (its holder does one bounded I/O
operation with it; `file-manager.md` calls anything else the holder's error).

`FileManagerProofs` proves for any callers, finite set of leases and any tables
`LeasesProtectFiles`, `LeasesAlwaysCounted`, `ClosersAlwaysExclusive` and the
action property `OwnersAlwaysKept`. The inductive invariant adds to these: a
closer past its wait has no lease on its table (`ClosersDrained`), the PageFile
of an open table exists and only its closer has it closed (`FilesAccounted`),
and leases are on open files (`LeasesValid`).

## 5. PageFile

### 5.1 Model

`mutex_` is held for a whole call, so calls do not interleave. What makes the
file hard is that `allocate_page` and `free_page` change two pages of it, and
either write may fail, or the process may end between them. A step is therefore
one raw write; `op` says which write the current call still has to do.

| Actions | Code (`page_file.cpp`) |
|---|---|
| `write_page` | the function of this name |
| `TakeFree`, then `Clear` | `allocate_page` with a free page: header without it, then zeroes |
| `Extend`, then `Grow` | `allocate_page` without: a zero page at the end, then the header's count |
| `free_page`, then `Link` | `free_page`: the marker, then the header's head |
| `mark_poisoned`, `close`, `open` | the functions of these names |
| `Crash` | the process ends, at any step |

`file` is what is on disk, `mem` the members of the object. A page's content is
one of `Values`, all zeroes, a free page's marker (the id of the next free
page), `Torn` (a failed write changed a part of it), `Partial` (the file ends
inside it) or `Absent` (the file ends before it). A failed write leaves the old
content, a part, or the new content. The 24 bytes of the header are assumed to
reach the file together; a later crash of the operating system, which could
reorder completed writes, is outside the model, as it is outside what
`page-file-format.md` promises.

The walks along the free list are not written as recursion: `FreePages` is the
least set of pages that has the head and is closed under "next", and `ListValid`
says that a walk meets only marked pages in range and none twice.

`owned` and `last` are the callers' view and change nothing: the pages they were
given and have not freed, and what they last wrote. `last` is `Unknown` after a
write that failed.

### 5.2 What is checked and proved

| Run | Instance | Shows |
|---|---|---|
| `page_file` | 4 pages, 2 values | `DiskSound`, `OwnedContent`, `MemoryMatchesFile` |

Four pages give free lists of every order with a page in use beside them, and
reach the limit of the PageIds. Deadlock is not checked: a file that open refuses
stays closed for ever.

`PageFileProofs` proves these, and `OwnedNotFree`, for any number of pages and any values:
`FileAlwaysSound`, `OwnedNeverFree`, `OwnedKeepsContent`, `MemoryAlwaysMatches`.
The inductive invariant `IInv` adds to the checked properties `OpOK`: what is
true of the page between the two writes of a call (after `TakeFree` it has left
the list and nobody owns it; after the marker of `free_page` it is not in the
list yet, and points to its head; after `Extend` it is behind the last counted
page). The argument rests on four lemmas about the free list: writing a page
that is not in it changes nothing (`FreeOther`), taking the head removes exactly
the head (`FreeTake`), linking a page adds exactly that page (`FreePut`), and a
page's successors are in the list (`FreeSuffix`). The definition of the list as
a least set is what makes them provable without induction.

`ClosedReopens` is the only one of the file's properties that fails (section 13).

## 6. SlottedPage

### 6.1 Model

`RecordStore` says what a record page promises: records under record ids, and an
id once given out is never given out for another record. `SlottedPage` has the
page: slot directory, counters, and its bytes, each payload at the offset its
entry names. `insert_record`, `replace_record` and `erase_record` compute a new
page as the code does, validate it, and replace the old one. Record ids are
numbers, composed from page, generation and slot by multiplication and taken
apart by `\div` and `%`, so that they meet their widths; ids of the neighbouring
pages and invalid ids are among the inputs. `validate` says what the code's loops
and its sorted list of ranges check: counters, legal entries, and that the
payloads tile the page from `free_upper` to its end. A payload is its data and
its length; no two of its bytes are equal, so that a byte in the wrong place
shows. A header field that never changes (magic, page id) is left out.

The mapping to `RecordStore` needs no history variable: the ids used so far are
the generations of each slot up to its current one.

### 6.2 What is checked and proved

| Run | Instance | Shows |
|---|---|---|
| `record_page` | 7 bytes, header and entry of 1, 3 generations, payloads of 1 to 3 bytes | `FinalChecksPass`, `NoResidue`, `ImplementsRecordStore` |

With 7 bytes the directory and the payloads meet in every combination of up to
six empty slots and up to three records, a slot is reused twice and retired, and
a replacement grows to the last free byte. Deadlock is not checked: a page whose
slots are all retired and whose directory is full accepts nothing any more.

`SlottedPageProofs` proves, for pages of any size and any number of generations,
`PageImplementsRecordStore`, `NoResidueEver` and `FinalChecksAlwaysPass`. The
inductive invariant `PageOK`
is the code's own `validate`, with the types and with two facts about what
`validate` does not look at: entries behind the directory are unused, bytes below
`free_upper` are zero. The proof that compaction keeps every record takes from
the final validation that the moved payloads do not overlap, as the code does.

That this validation always succeeds (`FinalChecksPass`) is a fact about the
cursor of `compact`, which moves down by the length of each payload: a payload
is packed against the one before it (`CursorPacks`), and the cursor never
passes the sum of the lengths below the end of the page (`CursorCounts`), which
the check for space has compared with the room there is. Both are inductions
over the slots. `SetInduction` gets induction from the well-foundedness of `<`
as a statement about membership in a set, which needs no operator parameter.

## 7. Storage

### 7.1 Model

`Storage` is the life of one data directory. The layers below are taken for what
their own modules show of them: a file is there or not and open or not, a row of
a system table is in the pool or on disk.

| Variable | Code |
|---|---|
| `lifecycle` | `state.lifecycle`; `opening` is the part of `open_storage` that initializes an empty directory |
| `tables`, `open_files`, `cursor` | `state.tables` (user tables), the FileManager's open files, a cursor on a system table in `state.cursors` |
| `rows` | the rows of `tdb_sys_tables` and `tdb_sys_columns`, as the pool has them and as the files have them |
| `dir` | the directory: `storage.meta`, `storage.meta.tmp`, `tables/table_<id>.dat` |
| `call` | the call under way: next step, its table, the rows it has added |
| `created`, `leftover`, `begun` | what callers know: successful creations, ids whose clean-up failed, ids whose creation a crash cut off |

Callers serialize their calls, so one call is under way at a time; it is cut
into the steps between which the process can end. `create_table` is
`create_table` (the file, and the look for cursors), `InsertColumn` for each
column, `InsertMarker`, `FlushMarker`; after a failure `DeleteMarker`,
`rollback_catalog_create`, `remove_table_file`, each of which may fail too.
`InitializeCatalog` to `LoadNew` and `rollback_initialization` are
`open_storage` in an empty directory; `WriteTemporary`, `ReplaceMetadata` and
`MetadataFails` are `write_bootstrap` and `write_metadata` for all three
callers. `close_storage` is `ClosePool` and `CloseFiles`, then the metadata; a
retry starts at `CloseFiles`. A failing `BufferPool::close` leaves the storage
open with some pages written: that is `WriteBack`, which may write any row
back at any time. `open_storage` accepts a directory exactly if `Openable`.

The constant `Scenarios` is a set of records that say what may go wrong:
`failures` (a step), `cleanup` (a step that undoes), `crashes`, `throws` (out of
`BufferPool::close`), and `legacy`, the catalog mode; `max_rows` bounds the
number of rows, dead ones on disk included. `scenario` is one of them and never
changes.

### 7.2 What is checked

`storage_catalog` has two ids and two names, so that tables collide in either,
both or none, schemas of one and of two columns, and four scenarios:

* `Failing`: any step may fail. Four rows are two one-column tables, or a
  two-column table next to the dead row of an earlier attempt.
* `FailingTwice`: clean-up may fail as well, for `MaxLeftover` ids. Three rows
  are a created one-column table and a row that could not be removed.
* `Losing`: the process ends anywhere, or `BufferPool::close` throws.
* `FailingLegacy`: failures, failing clean-up and crashes together, in a legacy
  directory.

`CatalogAgrees` and `ReopenShowsCreated` say that a failed call is undone
completely, in memory, rows and files, and that a closed storage reopens with
exactly the created tables. A legacy directory even does so after a crash,
because one atomic rename commits a table. `FailClosed` says what is left when
clean-up fails or pages are lost: `open_storage` refuses the directory or shows
every created table with its own schema.

No scenario of the system catalog has failing steps *and* crashes: `FailClosed`
does not hold then. The columns of a rolled-back `create_table` may be on disk
still when the marker of the next one with the same id is flushed, and a crash
pairs the new marker with the old columns. The documents promise no
crash-atomic DDL, so this is a hazard and not a finding.

Deadlock is not checked: a directory that
`open_storage` refuses stays closed.

### 7.3 What is proved

`StorageProofs` proves, for any ids, names and schemas, any number of rows and
any scenario, those that no run has included:

| Theorem | States |
|---|---|
| `CatalogAlwaysAgrees` | `CatalogAgrees` |
| `ReopensAsCreated` | `ReopenShowsCreated` |
| `FailsClosed` | `FailClosed`, for a legacy directory, when no step fails, or as long as nothing was lost |
| `CatalogStableUnderCursor` | `StableUnderCursor`: a cursor on a system table never sees a row come or go |

The hypothesis of `FailsClosed` is the boundary that section 7.2 describes:
what it leaves out, failures together with losses, is where `FailClosed` fails.

All rest on one inductive invariant, `StorageInv`. Its parts, and why the
properties do not stand without them:

* `Types`, `Control`, `CallRows`, `NewTable`: where the call under way is, which
  rows it has added and in which order, and that its table has an id and a name
  that no other table has. The rollback removes the rows the call knows of; that
  those are all of them is the next part.
* `RowsMatch`: the rows of the call under way apart (`Base`), the pool is a
  valid catalog of exactly `tables`; the rows of the call (`Own`) are those on its
  list and the marker. A finished or an undone call gives `CatalogAgrees`.
* `FilesThere`, `MetaMatches`, `Flushed`, `Saved`: the files of the tables are
  there, `storage.meta` comes before the first row and after the last flush, and
  the directory of a closed storage holds what was created.
* `CreatedKept` (as long as nothing is lost: created tables keep all their rows)
  and `CommittedKept` (as long as nothing fails: the markers of created tables
  are on disk, and no column row of another table carries their id). Each is
  enough for `FailClosed`, by a different argument: with all its rows a table
  cannot be shown with others, as `load_user_catalog` counts them
  (`ShownIfComplete`, an argument about cardinalities); with only its own rows
  it can only be shown complete (`ShownIfAlone`).
* `LegacyMatches`: with a legacy `storage.meta` the file has the created tables.

The step from rows to tables is in `TableAdded`: a valid catalog, together with
one row for each column of a new table and its marker, is a valid catalog of the
tables and the new one.

Assumed of the constants: `StorageAssumption` (user ids are not system ids,
schemas are nonempty sequences of different names, which `has_valid_columns`
checks, `None` is no table).

## 8. HeapTable

### 8.1 Model

`HeapTable` is one table: the allocated pages of its file, the data calls of
`storage.cpp` on it, and its cursors. The caller is one thread, but a batch is
one step per row, a row that needs a page is three (`AllocatePage`,
`BootstrapWrite`, `InsertFresh`), and between them the pool may evict and its
prefetch worker may load.

| Actions | Code (`storage.cpp`, `heap_table.cpp`, `cursor_state.cpp`) |
|---|---|
| `open_table`, `ScanRecord`, `ScanEnd`, `ScanFails`, `close_cursor` | scans; `Announce` is their prefetch request |
| `insert`, `InsertRow`, `AllocatePage`, `BootstrapWrite`, `InsertFresh` | `insert`, `HeapTable::insert`, `create_record_page` |
| `AllocateFails`, `BootstrapFails`, `FreshFails`, `RowFails` | their failures; `Compensated` gives the page back |
| `delete_records`, `DeleteRow`, `update_rows`, `UpdateRow`, `Return` | the other batches and the answer |
| `Evict`, `WorkerRead`, `WorkerPublish` | the pool, from `BufferPool` |

The pool appears as what `PageStore` promises, except for the one thing that a
serial caller can notice: a page the worker reads before the bootstrap write
and publishes after it. A record is its size, and a page has room or not;
where the bytes go is `SlottedPage`'s matter.

### 8.2 What is checked and proved

| Run | Instance | Shows |
|---|---|---|
| `heap_table` | 2 pages of capacity 4, sizes 1 and 3, 2 generations, one cursor, batches of up to 2 | `PagesInitialized`, `BatchIsPrefix`, `ScansComplete`, `ImplementsRecordStore` |

Capacity 4 with sizes 1 and 3 gives pages that are full with one record and
pages with room for two, so that a batch stays in a page or needs a second one;
two generations let a slot be reused once and then retire. Two configurations
are checked: as shipped (no worker) with failing operations, and with the
worker of the prefetch experiment without failures. Both together violate
`FreshNeverResident` (section 13). Deadlock is not checked: a poisoned file
accepts nothing.

`HeapTableProofs` proves, for any number of pages, slots, generations and
cursors and batches of any length, all four: `PagesAreInitialized`,
`BatchesArePrefixes`, `ScansAreComplete` and `TableImplementsRecordStore`. They
assume `HeapTableAssumption` (sizes are positive and a record fits into an empty
page; TLC evaluates it in `heap_table`) and `Sane`: the worker is off or nothing
fails. Without `Sane` they are false, see `FreshNeverResident`.

The inductive invariant `HInv` was checked by TLC on the instance of
`heap_table` before it was proved. Its parts:

- `FileInv`: the free list holds each of its pages once and only pages of the
  file, and a page that is not initialized has no slots;
- `PoolInv`: frames and the worker's buffer equal the file, and neither they nor
  the worker's queue know a page that is being created. This is why writing it
  behind the pool is harmless. It needs that with the worker on no page is ever
  given back, which is where `Sane` enters;
- `CreationInv`: the page between `AllocatePage` and `BootstrapWrite` holds
  zeroes and is the only allocated one that does;
- `CallInv`: a batch and a cursor are never there together, and where a batch is
  decides what its rows are;
- `PrefixInv`: `BatchIsPrefix` row by row, and, for an update, that the rows to
  come are still there and all different;
- `ScanInv`: a cursor has returned exactly the records up to its position.

Records, live ids and issued ids depend on nothing but the slots of the
allocated pages (`ViewIs`). So a step is one of three: it leaves the slots alone
(`Quiet`), puts a record into a slot that was free or new (`ViewInsert`: its id
was never issued, as the generation of a reused slot grows), or changes one slot
and not its generation (`ViewChange`). That a page with room has a slot within
its capacity (`WithRecordFacts`) is an induction over the sum of the sizes
(`UsedAtLeast`).

## 9. Database, Script and Cli

### 9.1 Model

`Database` is the life of `Database` objects around the process-wide slot
(`g_database_open`). An object is in one call at a time (its mutex); calls of
different objects interleave at every storage call. Storage is open or not and
has tables; each of its calls succeeds, reports an error, or throws and leaves
its state unknown. A close has a fourth answer, `kInvalidRequest`
(`CloseStorage`, fault `"invalid"`): the buffer pool refuses to close, because a
page is pinned or a counter is used up, and storage stays open
(`storage.cpp:944`, `tests/storage_crud_test.cpp:136`). Every caller takes it for
success and gives the slot back; `docs/技术决策.md:73` says that the answer means a
storage layer that has already ended. In the service no page is pinned between two
calls, so this is a case of the interface, not of its present clients.

| Actions | Code |
|---|---|
| `open`, `OpenStorage`, `ListTables`, `AbortOpen` | `Database::open`, `abort_open` |
| `close`, `CloseOpen`, `RetryClose` | `Database::close`, with its retries |
| `destroy`, `DestroyOwner`, `construct`, `move_assign` | destructor, constructors, move assignment |
| `BeginScript`, `CreateTable`, `StorageException`, `AbortScript`, `EndScript` | what `execute_script` does to the object |

The destructor closes as well as it can; when it cannot, or when a close took
`kInvalidRequest` for success, the storage layer stays open without an owner
(`abandoned`), and a later open is refused by the storage layer itself.
`move_assign` is one step with its `close_storage`.

`Script` refines the script between `BeginScript` and `EndScript` into one step
per storage call and per decision: `execute_script`, the statement loop
(`CompileError`, `CompilerBreaks`, `RenderPlan`, `Analyze`, `RejectDdl`,
`Execute`, `CancelAtStatement`, `FinishScript`), CREATE (`Created`, `CreateFails`,
`CreateThrows`), the scan (`OpenTable`, `ScanRecord`, `ScanEnd`, `ScanFails`,
`ScanMalformed`, `CancelScan`), the four ways to close its cursor
(`CloseCursor`, `CloseCancelled`, `CloseFailed`, `CloseBroken`), the batch
(`Written`, `WriteFails`, `WriteThrows`) and the end of a broken script
(`AbortStatement`, `CloseLate`). What a statement really changed is kept beside
what it reports (`effects` and `results`).

`Cli` is `run_cli`: the loop over lines, the token it registers for the SIGINT
handler (`CtrlC`; without a token the process is killed, `CtrlCKills`),
`close_once` and the exit code.

### 9.2 What is checked

| Run | Instance | Shows |
|---|---|---|
| `sessions` | the session and two other objects, one table, six scripts, three policies | `SlotOwned`, `CatalogMatchesStorage`, `OutcomesTruthful`, `CursorsReleased`, `ExitTruthful` |

Three objects are one that owns the slot, one that waits for it, and one to move
into. The scripts create a table and use it or create it again, change rows and
read them, and have an error in front of more work. The policies are stop,
analyze the rest, and plan only. A storage or compiler call may report an error,
throw, or return malformed rows; a close may answer `kInvalidRequest` with storage
open; the shadow catalog may reject a CREATE or fail to follow one. The other two objects do the same things, hence
the symmetry. Deadlock is not checked: the process ends.

### 9.3 What is proved

`SessionProofs` proves, for any objects, tables and faults, `SlotHasOneOwner`
(`SlotOwned`) and `CatalogIsCurrent` (`CatalogMatchesStorage`) for the
lifecycle. Neither is inductive. `IInv` splits `SlotOwned` into `OneOwner`,
`SlotTaken` and `StorageHeld`, and adds `CallsConsistent`: what a call that is
under way knows of its object and of storage (an object that is being opened is
neither open nor in need of a retry, one that retries still owes a close, past
`open_storage` the storage layer is open). Without it a close that returns could release
a slot that another object has taken meanwhile. `OneObjectStep` covers every
action that changes one object, from three facts about that object;
`move_assign` changes two and has a proof of its own.

These two theorems are about `Database!Spec`. `GuiUsesDatabase` (section 10.3)
and `CliKeepsDatabase` below carry them over to the two clients.

`SessionProofs` proves about `CliSpec`, for any scripts, policies, objects, tables,
faults and limits:

| Theorem | States |
|---|---|
| `ReportsAreTruthful` | `OutcomesTruthful` |
| `CursorsAreReleased` | `CursorsReleased` |
| `ExitCodeIsTruthful` | `ExitTruthful` |
| `CtrlCIsLocal` | `CtrlCLocal`: the handler finds a token only while a line runs or is about to, and a line is cancelled only by a Ctrl+C of its own |
| `CliKeepsDatabase` | `SlotOwned` and `CatalogMatchesStorage`, the kill by a signal included, which is no step of `Database` |

The assumptions are `SessionAssumption` (the session is one of the objects) and
`ScriptAssumption` (scripts are sequences of statements over the tables, limits
are natural numbers); TLC evaluates both in `sessions`.

The inductive invariant `CliInv` was checked by TLC on the instance of `sessions`
before it was proved. Beside the lifecycle's `IInv` it has these parts:

- `ScriptSound` of the script: `Accounted` (the results so far are truthful and
  nothing was done beyond the current statement), `Located` (where the script is
  decides what its statement can be, whether execution is still allowed, and that
  the statement has changed nothing unless a call of it threw) and `Blamed` (a
  statement is skipped or only analyzed after a reported error only).
  `OutcomesTruthful` needs `Located`: a result that says "nothing changed" is true
  because every path to it comes from a place where nothing had. `ExitTruthful`
  needs `Blamed`: `had_error` does not look at skipped statements, so that the
  exit code would miss them if one could be skipped without an error before it.
- `RunInv`: only the session's object runs scripts, its lifecycle call is at
  `script` or `abort` exactly while the script is, and as long as statements
  execute the database is open; hence a cursor that cannot be closed has a
  storage layer to go with.
- `RowsInv`: a scan finds no more rows than the table has, so that a DELETE does
  not remove more than there are.
- `ExitInv` and `TokenInv`, of `run_cli`: what `close_once` knows while it closes,
  and that nothing failed or everything was whole.

`FilledSound`, `PushedSound`, `FailedSound`, `AbortedSound` and `EffectSound` say
what the operators on results keep; every action of `Script` then is one of the
steps `QuietStep`, `ExecutingStep`, `ExecutedStep`, `FailedStep` and `BrokenStep`.

## 10. GuiSession

### 10.1 Model

The window (UI thread) and the worker thread talk through two queues of Qt's
queued signals, `inbox` and `outbox`. Every handler of the window is one step;
the worker takes one request and performs it as steps of `Database`.

| Actions | Code |
|---|---|
| `open_directory`, `execute_editor_text`, `refresh_schema_browser`, `request_cancel`, `edit`, `apply_fix`, `closeEvent` | user actions, `main_window.cpp` |
| `Take`, `Begin`, `Continue`, `OpenReturns`, `CloseReturns`, `ScriptCreates`, `ScriptBreaks`, `ScriptReturns`, `ScriptRefused`, `Raises` | `worker.cpp`, `core_backend.cpp` |
| `on_opened`, `on_open_failed`, `on_closed`, `on_close_failed`, `on_refresh_finished`, `on_script_finished` | the window's answers |

A cancel token is named by the snapshot it was made for. The window's text is a
value, and what a script does is its outcome: it may create tables, fail, be
cut short, break the storage layer, or raise.

### 10.2 What is checked

| Run | Instance | Shows |
|---|---|---|
| `gui` | one database, one table, two texts, three snapshots | `CleanBeforeOpen`, `SessionHonest`, `FixesFit`, `SchemaFresh`, and `RequestsAnswered` under fairness |

Three snapshots are a script, the refresh that follows it, and a script that is
requested while the refresh is still to be shown. Fairness: the worker's event
loop and the window's event loop go on (`WF` of `WorkerStep` and of `Handler`).
No user action is assumed to happen. Deadlock is not checked: the window closes.

### 10.3 What is proved

`SessionProofs` proves about `GuiSpec`, for any texts, tables, faults and
number of snapshots (`GuiAssumption`, which TLC evaluates in `gui`):

| Theorem | States |
|---|---|
| `GuiUsesDatabase` | `GuiSpec` implies `Database!Spec`, so that `SlotHasOneOwner` and `CatalogIsCurrent` hold of the GUI's object |
| `RequestsAreAlone` | `OneInFlight`: no request is sent before the last one is answered |
| `AnswersAreExpected` | `AnswerExpected`: a script's answer is always the one the window waits for |
| `OpensAreClean` | `CleanBeforeOpen` |
| `SessionShownIsTrue` | `SessionHonest` |
| `SchemaShownIsCatalog` | `SchemaFresh` |
| `CancelsAreOwn` | `CancelHitsOwn`: a late click does not cancel the next script |
| `FixesAreForTheText` | `FixesFit` |

The window only has what it was told, so none of these is inductive. The
invariant `GuiInv` says where a request can be: nowhere (`Quiet`), on its way to
the worker (`Requested`), at the worker (`Served`), or its answer on the way back
(`Replied`), and what is known at each place of the window, the schema browser
and the Database (`Rest`, `Sent`, `Running`, `Told`). That what was known when a
request was sent still holds when its answer arrives is what makes the window's
conclusions true. TLC checked it on the instance of `gui` first. `GuiTokenInv`
(tokens are those of snapshots already made) and `EditorInv` are separate
invariants, on top of it and beside it.

## 11. From tokens to rows

`Parser`, `Semantic`, `Optimizer`, `Planner` and `Executor` are the compiler's
stages and the executor as operators, `Expression` the values and the
three-valued logic they share. `Query` runs a statement through them, one stage
per step (`Parse`, `ApplyFix`, `Analyze`, `Optimize`, `GeneratePlan`, then
`ExecuteQuery`, `ExecuteChange` or `ExecuteCreate`), and holds it against
definitions of its own: how a syntax tree is written down (`Written...`), and
what SQL says of it, straight from the bound tree by products, filters, groups
and orders (`Sql...`), without plans, slots, hash keys or rewriting.

| Run | Instance | Shows |
|---|---|---|
| `query` | the statements of `MCQuery`, three tables with three contents and ten small ones | `ReadAsWritten`, `FixItsAdvance`, `CompiledRuns`, `QueriesFollowSql`, `ChangesFollowSql` |

The statements are thousands: predicates up to two operators deep over every
literal type as filters of SELECT, DELETE and UPDATE; joins of two and three
tables with hash keys, residual conditions, conditions under OR and NOT, and
conditions that are refused; joins of up to eleven tables `ON TRUE`; groupings, aggregates and orders over every type
with NULLs; inserts and updates with every conversion; creations; and five
statements with every single token dropped, replaced or put in before, or any two
dropped. The contents have duplicates, NULLs, an empty table, and more
rows than `MaxQueryRows` (3). `MaxBigInt` (3) and `MaxDouble` (18) are small, so
that SUM overflows; `MaxLongDouble` (36), the accumulator of AVG, is larger, as
in the code, and overflows too; `Scale` (6) divides by two and by three, so that
AVG is exact. `MaxExpressionDepth`, `MaxPlanDepth` and `MaxExpressionComplexity`
are 256 in the code and 11 here: equal, so that they stand to each other as they
do there, and between the statements' complexities and depths, so that some
statements are refused by the parser and some by the executor.

`CompiledRuns` therefore has an exception, stated exactly: the executor reports
an internal error if and only if the plan of a SELECT is as deep as
`kMaxPlanDepth` (`TooDeep`). With the code's 256 that takes 255 joins, or a few
less with a filter, groups or an order; section 13 has the comment that says
otherwise.

DOUBLE is a fixed-point number: rounding, NaN and negative zero are left out
(the lexer has no sign, and the codec refuses what is not finite). A record's
place is its place in the sequence of insertions; slot reuse is `HeapTable`'s
matter. Which words are near a keyword is a constant.

## 12. ScriptText

Bytes are `x`, `e`, `1`, quote, semicolon and so on, one per class that the code
tells apart. A number is out of range when it has too many digits
(`MaxIntegerDigits`, and `MaxDoubleDigits` before the point). `Split` is `split_statements` with the check of its ranges in
`script.cpp`; `Compile` lexes each statement (`tokenize`) and turns the places
of its error into places of the script (`absolutize_range`), as
`execute_script` does.

| Run | Instance | Shows |
|---|---|---|
| `script_text` | every text of up to 6 bytes about quotes, comments and semicolons, up to 5 about line ends, up to 6 that are numbers, up to 4 of operators; one that is too long | `SplitFollowsLexer`, `RangesLocated` |
| `script_ranges` | every text of up to 4 bytes with carriage returns | the finding: `LoneCrTakesColumn` is violated |

The splitter and the lexer are two programs for the same rules. Six bytes hold
an escaped quote in a literal, a block comment with something in it, and a
semicolon on either side.

### 12.1 Proofs

`ScriptTextProofs` proves `RangesLocated` for scripts of any length and any
limits (theorem `RangesAreLocated`). The assumption is that a script is a finite
sequence of bytes, that the limits are numbers and that an identifier may have at
least one byte. The argument:

- *Locations.* In a text without a lone `cr`, the place that the byte-by-byte
  count reaches after `i` bytes is `Place(t, i)`: the number of line breaks
  before `i`, the distance from the last one, less one just after a `cr`. That
  is what `location_at_offset` computes, except between a `cr` and its `lf`,
  where it refuses (`LocationsAgree`).
- *The splitter.* Every statement begins and ends at a cut: the start or end of
  the text, or after a semicolon (`SplitStates`, kept by each round). A cut is
  never between a `cr` and its `lf`.
- *The lexer.* Every token and error begins and ends at such a place too, by
  cases over the scanners, and each step takes a byte or stops (`GoodScan`). The
  one exception is the end of a literal cut off at its limit, which may lie
  between the two; `CutAtLimit` is exactly that case.
- *Back to the script.* The text of a statement has no lone `cr`, and its
  endpoints are endpoints of the script (`SlicePlaces`), so `absolutize_range`
  finds the range (`PlacesFound`).

The loops are recursive functions of the number of rounds, with as many rounds as
the text has bytes. `LoopsFinish` says that this is enough: the splitter has then
read the whole text, the lexer has too or has met an error, and a literal's loop
does not change any more. It is the code's `while` loops' termination, too.

`StatementsFollowLexer` proves `SplitFollowsLexer` from the same assumption. The
two programs are followed side by side:

- *A statement is a slice.* What the lexer sees of a statement is the script
  between two cuts. A scan step at byte `i` looks at the bytes up to its end and
  at most a little further; as long as the slice has what the step looks at
  (`Covers`), the step on the slice is the step on the script, moved by the
  slice's beginning (`ScanSame`).
- *In step.* After every token or skipped comment of the lexer there is a round of
  the splitter at the same byte, in its ordinary mode or at the end of a line
  comment (`Sync`). One lexer step from there leads to the next such round
  (`SyncStep`): the splitter walks through the literal, comment, number or word
  meanwhile, and cuts exactly at a `;` token.
  A step that fails leaves the splitter in a segment that is still open
  (`ErrorStep`), and an open segment is always emitted (`Emitted`).
- *Groups.* The groups of the whole script's tokens grow with each token as the
  segments do (`GroupNext`). So the segments emitted so far, each lexed on its own,
  have the closed groups, and the open one has the tokens after the last `;`
  (`Aligned`; after an error, `Failing`). At the end of the text these give
  `WholeLexed` and `ErrorLexed`.
- *The state machine.* `CompiledInv` says that `compiled` holds what the lexer
  gives for the statements compiled so far; at the end that is all of them.

## 13. Findings

`script_ranges`: a carriage return without a line feed has no column in
`split_statements` (`compiler.cpp:52`) and in the lexer, and has one in
`location_at_offset` (`diagnostics.cpp`), against which `execute_script` checks
every range. `docs/消息契约详细设计.md:390` says that it takes a column. A script
with one in it is refused completely, as an internal error.

Further disagreements with a document or a comment. Each is a property of its
module that no run checks; the configuration that shows the violation is given.

| Property | How to see it | What happens |
|---|---|---|
| `CleanPagesOnDisk` | `pool_demand` with `ConcurrentFlush = TRUE` | an explicit flush and another thread's victim writeback reach the file in the wrong order, and a clean frame differs from its file; the storage service serializes its calls and does not meet it |
| `WaitersShareResult` | `pool_waits` with 3 clients, no worker | a waiter gets "load completion is stale" although the load it waited for succeeded; `buffer-pool.md` promises the shared result |
| `ClosedReopens` | `page_file` with 2 pages, 1 value | an extension that fails half-way leaves a length that is no multiple of the page size; `close` succeeds, `open` refuses, where `page-file-format.md` promises that a closed file can be read again; a later extension repairs it |
| `RetriedCloseSaves` | `storage_catalog` with `Scenarios <- ThrowingOnly` | an exception out of `BufferPool::close` leaves the storage Closing with dirty pages, and the retry skips the pool and reports success, where `storage-contract.md` promises that Open is restored |
| `FreshNeverResident` | `heap_table` with `Configs <- FaultyPrefetch` | a failed bootstrap write gives its page back, a scan announces it, and when it is allocated again the worker loads its zeroes before the bootstrap write, which the frame then hides; the comment at `heap_table.cpp:144` says "never resident" |
| `StorageSerial` | `sessions` with `Scripts <- OneScript`, `Policies <- OnePolicy` | after a malformed record the storage layer is closed and the slot released before the scan's own `close_cursor` is called; another object may be in `open_storage` by then, two execution flows in storage at once, where `docs/core-cli/进程内并发设计.md:123` promises one |
| `BudgetLimitsDepth` | `query` with this as an INVARIANT | a SELECT with about 255 joins (a few less with a filter, groups or an order) passes the compiler, and `validate_dataflow_node` calls it an internal error (`executor.cpp:862`), which ends the session; the comment at `executor.cpp:27` says that the compiler's budget of 256 for expressions already limits the depth of plans |
| `NoCancelDuringClose` | `gui` | the cancel button is enabled while a close requested by an open is under way (`main_window.cpp:551`, `docs/gui/GUI设计.md:654`); cancelling then does nothing |

Observations that contradict no document: a fix-it that adds `;` or `)` at the
end of a statement that ends in a `--` comment lands in the comment; `INNER JOIN
JOIN t` is accepted; the fix-it for a misspelt WHERE is also offered after
a WHERE clause, where it does not help (`FixItsAdvance` says only that it does not
go back); a string literal cut off at its limit between `\r` and `\n` gives an
internal error (`CutAtLimit`); after a scan error a
`close_cursor` that throws closes the session, but the statement's result is a
plain execution error; and the third branch of `on_script_finished` is
unreachable (theorem `AnswersAreExpected`).

## 14. What is only model-checked, and what is not modelled

Proved: what sections 3.3, 4.2, 5.2, 6.2, 7.3, 8.2, 9.3, 10.3 and 12.1 list. Only
model-checked: `Query` (built on operators that recurse over trees, as the code
does) and every liveness property (fairness); neither is within the prover's
reach.

Not modelled: the record codec (a pure byte encoding; the rest needs of it that
decoding gives back the row), plan text, the command line's output, the GUI's
widgets and the benchmarks, none of which has a protocol to check; failing
memory allocation, except where it is an exception out of a storage call or of
the shadow catalog.
`PROJECT.json` names three hazards without a property: an exception while a
victim is reserved (allocation failure), `remove_table_file` racing
`open_table_file` (callers are serialized), and the crash after a rolled-back
creation described in section 7.2.
