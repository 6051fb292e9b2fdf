----------------------------- MODULE HeapTable -----------------------------
(***************************************************************************)
(* storage/heap_table and cursor_state: the records of one table spread    *)
(* over the pages of its file, the scans over them, and the data calls of  *)
(* storage.cpp that change them in batches.                                *)
(*                                                                         *)
(* The caller is one thread (storage requires serialized calls), but two   *)
(* things happen meanwhile: the pool evicts pages, and its prefetch worker *)
(* loads the pages a scan announced.  A batch is one step per row, and a   *)
(* row that needs a new page is three: allocate, bootstrap write, insert.  *)
(*                                                                         *)
(* SlottedPage is the page in full.  Here a record is its size, a slot     *)
(* entry costs 1, and space is counted, not laid out.  PageFile and        *)
(* BufferPool appear as what they promise: a free list, and a cache that   *)
(* writes a changed page before it forgets it (PageStore).  So a page is   *)
(* changed in the file and in its frame at once, and only the frames       *)
(* filled by the worker, which may read too early, are kept apart.         *)
(***************************************************************************)
EXTENDS Naturals, Sequences, FiniteSets, FiniteSetsExt

CONSTANTS
    MaxPages,       \* data pages the file can grow to
    Capacity,       \* space of a page
    Sizes,          \* sizes of a record
    MaxGeneration,  \* generations of a slot
    MaxCursors,     \* CursorIds handed out in one behaviour
    MaxBatch,       \* rows of a batch
    Configs         \* [prefetch, faults]: worker enabled, operations may fail

(* A record of any size fits into an empty page. *)
ASSUME HeapTableAssumption ==
    /\ {MaxPages, Capacity, MaxCursors, MaxBatch} \subseteq Nat
    /\ MaxGeneration \in Nat \ {0}
    /\ Sizes \subseteq 1..Capacity - 1
    /\ Configs \subseteq [prefetch : BOOLEAN, faults : BOOLEAN]

VARIABLES
    config,     \* the member of Configs at work
    file,       \* the PageFile: page_count, free list, pages, health
    pool,       \* the content of the pages the worker put into the cache
    worker,     \* the prefetch worker: queue, page being loaded, what it read
    cursors,    \* CursorRegistry::entries_
    next_id,    \* CursorRegistry::next_id
    call        \* the batch in progress

vars == <<config, file, pool, worker, cursors, next_id, call>>

Pages == 1..MaxPages

Nothing == 0    \* no page

(* A page holds zeroes (or a free-list link) until it is initialized. *)
Zeroes == [init |-> FALSE, slots |-> <<>>]

EmptyPage == [init |-> TRUE, slots |-> <<>>]

Allocated == {p \in Pages : p < file.page_count /\ \A i \in DOMAIN file.free : file.free[i] # p}

(* What a fetch of page p shows: the frame, or else the file. *)
Content(p) == IF p \in DOMAIN pool THEN pool[p] ELSE file.disk[p]

Live(c) == {s \in DOMAIN c.slots : c.slots[s].live}

Rid(p, s, c) == [page |-> p, slot |-> s, gen |-> c.slots[s].gen]

(* The live records of the table, by record id. *)
LiveRids == UNION {{Rid(p, s, Content(p)) : s \in Live(Content(p))} : p \in Allocated}

Records == [r \in LiveRids |-> Content(r.page).slots[r.slot].size]

(* All ids the table has given out. *)
Issued ==
    UNION {UNION {{[page |-> p, slot |-> s, gen |-> g] : g \in 1..Content(p).slots[s].gen} :
                  s \in DOMAIN Content(p).slots} : p \in Allocated}

Idle == [op |-> "none", pc |-> "idle", req |-> <<>>, done |-> <<>>, page |-> Nothing,
         err |-> "none", before |-> [r \in {} |-> 0]]

Init ==
    /\ config \in Configs
    /\ file = [page_count |-> 1, free |-> <<>>, poisoned |-> FALSE,
               disk |-> [p \in Pages |-> Zeroes]]
    /\ pool = [p \in {} |-> Zeroes]
    /\ worker = [queue |-> {}, loading |-> Nothing, read |-> Zeroes]
    /\ cursors = [c \in {} |-> {}]
    /\ next_id = 1
    /\ call = Idle

-----------------------------------------------------------------------------
(* Record pages *)

Reusable(c) == {s \in DOMAIN c.slots : ~c.slots[s].live /\ c.slots[s].gen < MaxGeneration}

Used(c) ==
    LET used[i \in 0..Len(c.slots)] == IF i = 0 THEN 0 ELSE used[i - 1] + 1 + c.slots[i].size
    IN  used[Len(c.slots)]

Fits(c, n) == Used(c) + n + (IF Reusable(c) = {} THEN 1 ELSE 0) <= Capacity

Target(c) == IF Reusable(c) = {} THEN Len(c.slots) + 1 ELSE Min(Reusable(c))

(* (mutant) A reused slot keeps its generation. *)
WithRecord_SameGeneration(c, n) ==
    IF Reusable(c) = {}
    THEN [c EXCEPT !.slots = Append(@, [live |-> TRUE, gen |-> 1, size |-> n])]
    ELSE [c EXCEPT !.slots[Target(c)] = [live |-> TRUE, gen |-> @.gen, size |-> n]]

WithRecord(c, n) ==
    IF Reusable(c) = {}
    THEN [c EXCEPT !.slots = Append(@, [live |-> TRUE, gen |-> 1, size |-> n])]
    ELSE [c EXCEPT !.slots[Target(c)] = [live |-> TRUE, gen |-> @.gen + 1, size |-> n]]

Erased(c, s) == [c EXCEPT !.slots[s].live = FALSE, !.slots[s].size = 0]

Resized(c, s, n) == [c EXCEPT !.slots[s].size = n]

FitsResized(c, s, n) == Used(c) - c.slots[s].size + n <= Capacity

-----------------------------------------------------------------------------
(* The pool as the table sees it *)

(* A fetch waits for a load of the same page. *)
CanFetch(ps) == worker.loading \notin ps

(* Page p gets content c. *)
Change(p, c) ==
    /\ file' = [file EXCEPT !.disk[p] = c]
    /\ pool' = [q \in DOMAIN pool |-> IF q = p THEN c ELSE pool[q]]

(* A frame is wanted for another page. *)
Evict(p) ==
    /\ p \in DOMAIN pool
    /\ pool' = [q \in DOMAIN pool \ {p} |-> pool[q]]
    /\ UNCHANGED <<config, file, worker, cursors, next_id, call>>

(* The worker looks at the allocation state and reads the page, or drops   *)
(* the candidate: already cached, free, or not readable.                   *)
WorkerRead(p) ==
    /\ worker.loading = Nothing
    /\ p \in worker.queue
    /\ IF p \in Allocated /\ p \notin DOMAIN pool /\ ~file.poisoned
       THEN worker' = [queue |-> worker.queue \ {p}, loading |-> p, read |-> file.disk[p]]
       ELSE worker' = [worker EXCEPT !.queue = @ \ {p}]
    /\ UNCHANGED <<config, file, pool, cursors, next_id, call>>

WorkerPublish ==
    /\ worker.loading # Nothing
    /\ pool' = [p \in DOMAIN pool \cup {worker.loading} |->
                    IF p = worker.loading THEN worker.read ELSE pool[p]]
    /\ worker' = [worker EXCEPT !.loading = Nothing, !.read = Zeroes]
    /\ UNCHANGED <<config, file, cursors, next_id, call>>

-----------------------------------------------------------------------------
(* Scans *)

NoBatch == call.pc = "idle"

(* open_table: the end of the scan is the end of the file at this moment. *)
open_table ==
    /\ NoBatch /\ ~file.poisoned
    /\ next_id <= MaxCursors
    /\ cursors' = [c \in DOMAIN cursors \cup {next_id} |->
                      IF c = next_id
                      THEN [page |-> 1, slot |-> 0, end |-> file.page_count,
                            status |-> "active", seen |-> <<>>]
                      ELSE cursors[c]]
    /\ next_id' = next_id + 1
    /\ UNCHANGED <<config, file, pool, worker, call>>

(* The records behind the position of cursor k. *)
Ahead(k) ==
    {r \in LiveRids : /\ r.page < k.end
                      /\ r.page > k.page \/ (r.page = k.page /\ r.slot > k.slot)}

IsFirst(r, S) == \A q \in S : r.page < q.page \/ (r.page = q.page /\ r.slot <= q.slot)

(* The position behind the last page a call looked at. *)
Position(k, last) == [k EXCEPT !.page = last, !.slot = 0]

(* The pages of the scan up to page last, and the ones behind them that    *)
(* were announced to the worker: advisory, a queue of two, tried once.     *)
Visited(k, last) == Allocated \cap (k.page..last) \cap (1..k.end - 1)

Announced(k, last) ==
    {p + 1 : p \in {q \in Visited(k, last) : q + 1 < k.end /\ (q = k.page => k.slot = 0)}}

Announce(k, last) ==
    IF config.prefetch
    THEN \E q \in SUBSET Announced(k, last) :
            /\ Cardinality(worker.queue \cup q) <= 2
            /\ worker' = [worker EXCEPT !.queue = @ \cup (q \ {worker.loading})]
    ELSE UNCHANGED worker

(* scan_next finds the next record, *)
ScanRecord(c) ==
    LET k == cursors[c] IN
    /\ NoBatch /\ k.status = "active" /\ ~file.poisoned
    /\ \E r \in Ahead(k) :
          /\ IsFirst(r, Ahead(k))
          /\ CanFetch(Visited(k, r.page))
          /\ \A p \in Visited(k, r.page) : Content(p).init
          /\ cursors' = [cursors EXCEPT ![c] =
                            [Position(k, r.page) EXCEPT !.slot = r.slot, !.seen = Append(@, r)]]
          /\ Announce(k, r.page)
    /\ UNCHANGED <<config, file, pool, next_id, call>>

(* or that there is none, *)
ScanEnd(c) ==
    LET k == cursors[c] IN
    /\ NoBatch /\ k.status = "active" /\ ~file.poisoned
    /\ Ahead(k) = {}
    /\ CanFetch(Visited(k, k.end))
    /\ \A p \in Visited(k, k.end) : Content(p).init
    /\ cursors' = [cursors EXCEPT ![c] = [Position(k, k.end) EXCEPT !.status = "eof"]]
    /\ Announce(k, k.end)
    /\ UNCHANGED <<config, file, pool, next_id, call>>

(* or fails for good: a page cannot be fetched or is not a record page.    *)
ScanFails(c) ==
    LET k == cursors[c] IN
    /\ NoBatch /\ k.status = "active"
    /\ \/ config.faults \/ file.poisoned
       \/ \E p \in Visited(k, k.end) : ~Content(p).init
    /\ cursors' = [cursors EXCEPT ![c].status = "failed"]
    /\ UNCHANGED <<config, file, pool, worker, next_id, call>>

close_cursor(c) ==
    /\ NoBatch
    /\ cursors' = [d \in DOMAIN cursors \ {c} |-> cursors[d]]
    /\ UNCHANGED <<config, file, pool, worker, next_id, call>>

-----------------------------------------------------------------------------
(* Batches *)

(* (mutant) A cursor does not keep changes out. *)
Admitted_Cursors == NoBatch /\ ~file.poisoned

(* A batch is refused while the table has a cursor. *)
Admitted == NoBatch /\ ~file.poisoned /\ cursors = <<>>

Begin(op, req) ==
    call' = [Idle EXCEPT !.op = op, !.pc = "row", !.req = req, !.before = Records]

Finish(err) == call' = [call EXCEPT !.pc = "done", !.err = err, !.page = Nothing]

(* A row is done; the batch ends behind the last one. *)
RowDone(r) ==
    LET done == Append(call.done, r) IN
    call' = [call EXCEPT !.done = done, !.page = Nothing,
                         !.pc = IF Len(done) = Len(call.req) THEN "done" ELSE "row"]

(* The caller has its answer. *)
Return ==
    /\ call.pc = "done"
    /\ call' = Idle
    /\ UNCHANGED <<config, file, pool, worker, cursors, next_id>>

Row == call.req[Len(call.done) + 1]

InRow(op) == call.op = op /\ call.pc = "row"

insert(rows) ==
    /\ Begin("insert", rows)
    /\ UNCHANGED <<config, file, pool, worker, cursors, next_id>>

(* First fit: the pages before the first with room, and that page. *)
Roomy(n) == {p \in Allocated : Content(p).init /\ Fits(Content(p), n)}

Tried(n) == IF Roomy(n) = {} THEN Allocated ELSE Allocated \cap (1..Min(Roomy(n)))

InsertRow ==
    /\ InRow("insert") /\ Roomy(Row) # {}
    /\ CanFetch(Tried(Row))
    /\ \A p \in Tried(Row) : Content(p).init
    /\ LET p == Min(Roomy(Row)) IN
       /\ Change(p, WithRecord(Content(p), Row))
       /\ RowDone([page |-> p, slot |-> Target(Content(p)),
                   gen |-> WithRecord(Content(p), Row).slots[Target(Content(p))].gen])
    /\ UNCHANGED <<config, worker, cursors, next_id>>

(* A page on the way cannot be fetched, or is not a record page. *)
RowFails ==
    /\ call.pc = "row"
    /\ \/ config.faults /\ Finish("io")
       \/ /\ call.op = "insert"
          /\ \E p \in Tried(Row) : ~Content(p).init
          /\ CanFetch(Tried(Row))
          /\ Finish("corrupt")
    /\ UNCHANGED <<config, file, pool, worker, cursors, next_id>>

(* create_record_page, first step: the head of the free list, or a page at *)
(* the end of the file; zeroed either way.                                 *)
AllocatePage ==
    /\ InRow("insert") /\ Roomy(Row) = {}
    /\ CanFetch(Allocated)
    /\ \A p \in Allocated : Content(p).init
    /\ LET fresh == IF file.free # <<>> THEN Head(file.free) ELSE file.page_count IN
       /\ fresh <= MaxPages
       /\ file' = IF file.free # <<>>
                  THEN [file EXCEPT !.free = Tail(@), !.disk[fresh] = Zeroes]
                  ELSE [file EXCEPT !.page_count = @ + 1, !.disk[fresh] = Zeroes]
       /\ call' = [call EXCEPT !.pc = "bootstrap", !.page = fresh]
    /\ UNCHANGED <<config, pool, worker, cursors, next_id>>

(* The allocation fails: no page ids left, or a write.  A write of the     *)
(* header poisons the file.                                                *)
AllocateFails ==
    /\ InRow("insert") /\ Roomy(Row) = {}
    /\ \A p \in Allocated : Content(p).init
    /\ config.faults \/ (file.page_count > MaxPages /\ file.free = <<>>)
    /\ \/ UNCHANGED file
       \/ config.faults /\ file' = [file EXCEPT !.poisoned = TRUE]
    /\ Finish("io")
    /\ UNCHANGED <<config, pool, worker, cursors, next_id>>

(* Second step: the empty page is written behind the pool's back. *)
BootstrapWrite ==
    /\ call.pc = "bootstrap"
    /\ file' = [file EXCEPT !.disk[call.page] = EmptyPage]
    /\ call' = [call EXCEPT !.pc = "fresh"]
    /\ UNCHANGED <<config, pool, worker, cursors, next_id>>

(* (mutant) The page of a failed bootstrap write stays allocated. *)
Compensated_Kept == file

(* The page of a failed bootstrap write goes back to the free list, *)
Compensated == [file EXCEPT !.free = <<call.page>> \o @, !.disk[call.page] = Zeroes]

(* and if that fails too nobody uses the file any more. *)
BootstrapFails ==
    /\ call.pc = "bootstrap" /\ config.faults
    /\ file' \in {Compensated, [file EXCEPT !.poisoned = TRUE]}
    /\ Finish("io")
    /\ UNCHANGED <<config, pool, worker, cursors, next_id>>

(* Third step: the record goes into the new page, through the pool. *)
InsertFresh ==
    /\ call.pc = "fresh" /\ CanFetch({call.page})
    /\ IF Content(call.page).init
       THEN /\ Change(call.page, WithRecord(Content(call.page), Row))
            /\ RowDone([page |-> call.page, slot |-> 1, gen |-> 1])
       ELSE Finish("corrupt") /\ UNCHANGED <<file, pool>>
    /\ UNCHANGED <<config, worker, cursors, next_id>>

(* The fetch fails; the empty page is kept. *)
FreshFails ==
    /\ call.pc = "fresh" /\ config.faults
    /\ Finish("io")
    /\ UNCHANGED <<config, file, pool, worker, cursors, next_id>>

delete_records(rids) ==
    /\ Begin("delete", rids)
    /\ UNCHANGED <<config, file, pool, worker, cursors, next_id>>

(* delete_record; a rid that is not live ends the batch. *)
DeleteRow ==
    /\ InRow("delete") /\ CanFetch({Row.page})
    /\ IF Row \in LiveRids
       THEN RowDone(Row) /\ Change(Row.page, Erased(Content(Row.page), Row.slot))
       ELSE Finish("invalid") /\ UNCHANGED <<file, pool>>
    /\ UNCHANGED <<config, worker, cursors, next_id>>

(* (mutant) Duplicates are not looked for. *)
Updatable_Duplicates(rows) == \A i \in DOMAIN rows : rows[i].rid \in LiveRids

(* The checks of update_batch: every rid once, every record there. *)
Updatable(rows) ==
    /\ \A i, j \in DOMAIN rows : i # j => rows[i].rid # rows[j].rid
    /\ \A i \in DOMAIN rows : rows[i].rid \in LiveRids

(* update_rows: the whole batch is checked before a row is changed. *)
update_rows(rows) ==
    /\ CanFetch({rows[i].rid.page : i \in DOMAIN rows})
    /\ IF Updatable(rows) THEN Begin("update", rows)
       ELSE call' = [Idle EXCEPT !.op = "update", !.pc = "done", !.req = rows, !.err = "invalid",
                                 !.before = Records]
    /\ UNCHANGED <<config, file, pool, worker, cursors, next_id>>

(* update_record: a record that outgrows its page ends the batch. *)
UpdateRow ==
    LET r == Row.rid
        c == Content(r.page)
    IN  /\ InRow("update") /\ CanFetch({r.page})
        /\ IF r \notin LiveRids THEN Finish("invalid") /\ UNCHANGED <<file, pool>>
           ELSE IF FitsResized(c, r.slot, Row.size)
           THEN RowDone(r) /\ Change(r.page, Resized(c, r.slot, Row.size))
           ELSE Finish("too_large") /\ UNCHANGED <<file, pool>>
        /\ UNCHANGED <<config, worker, cursors, next_id>>

-----------------------------------------------------------------------------
(* The rids a caller may name.  Nothing is done behind a first row that is *)
(* refused: such a batch is as good as one of one row.                     *)
Requests ==
    LET one == [1..1 -> Issued]
        more == UNION {[1..n -> Issued] : n \in 2..MaxBatch}
        live == LiveRids
    IN  one \cup {rids \in more : rids[1] \in live}

Next ==
    \/ \E p \in Pages : Evict(p) \/ WorkerRead(p)
    \/ WorkerPublish
    \/ open_table
    \/ \E c \in DOMAIN cursors : ScanRecord(c) \/ ScanEnd(c) \/ ScanFails(c) \/ close_cursor(c)
    \/ /\ Admitted
       /\ \/ \E rows \in UNION {[1..n -> Sizes] : n \in 1..MaxBatch} : insert(rows)
          \/ \E rids \in Requests :
                \/ delete_records(rids)
                \/ \E n \in Sizes :
                      update_rows([i \in DOMAIN rids |-> [rid |-> rids[i], size |-> n]])
    \/ InsertRow \/ DeleteRow \/ UpdateRow \/ RowFails
    \/ AllocatePage \/ AllocateFails
    \/ BootstrapWrite \/ BootstrapFails \/ InsertFresh \/ FreshFails
    \/ Return

Spec == Init /\ [][Next]_vars

-----------------------------------------------------------------------------
(* Properties *)

(* A page of the file that is allocated is a record page, in the file and  *)
(* in the pool, unless it is being created or the file is given up: the    *)
(* three steps of create_record_page leave no half-made page behind,       *)
(* whichever of them fails, and nothing the pool holds hides the page that *)
(* was written behind its back.                                            *)
PagesInitialized ==
    ~file.poisoned =>
        /\ \A p \in Allocated : (p = call.page /\ call.pc = "bootstrap") \/ Content(p).init
        /\ \A p \in DOMAIN pool : p \in Allocated /\ pool[p] = file.disk[p]

(* The result of a batch is true: the records are those from before the    *)
(* call with exactly the first rows of the batch carried out, as many as   *)
(* it reports, at every moment and whatever fails, and an update that is   *)
(* refused as invalid has changed nothing.                                 *)
BatchIsPrefix ==
    LET n == Len(call.done)
        ids == {call.done[i] : i \in 1..n}
        Size(r) == IF \E i \in 1..n : call.done[i] = r
                   THEN LET i == CHOOSE i \in 1..n : call.done[i] = r IN
                        IF call.op = "insert" THEN call.req[i] ELSE call.req[i].size
                   ELSE call.before[r]
        Expected == CASE call.op = "insert" -> [r \in DOMAIN call.before \cup ids |-> Size(r)]
                      [] call.op = "delete" -> [r \in DOMAIN call.before \ ids |-> call.before[r]]
                      [] call.op = "update" -> [r \in DOMAIN call.before |-> Size(r)]
    IN  call.op # "none" =>
            /\ Records = Expected
            /\ Cardinality(ids) = n
            /\ (call.op = "update" /\ call.err = "invalid" => n = 0)

(* A scan that reached the end has returned every record of the table once *)
(* and in the order of pages and slots: nothing moves under a cursor.      *)
ScansComplete ==
    \A c \in DOMAIN cursors :
        LET seen == cursors[c].seen IN
        /\ \A i, j \in DOMAIN seen : i < j =>
              \/ seen[i].page < seen[j].page
              \/ seen[i].page = seen[j].page /\ seen[i].slot < seen[j].slot
        /\ (cursors[c].status = "eof" =>
               {seen[i] : i \in DOMAIN seen} = LiveRids)

(* The whole table behaves as one store of records whose ids are never     *)
(* given out twice, across pages that come, are given back and come again. *)
Rids == [page : Pages, slot : 1..Capacity - 1, gen : 1..MaxGeneration]

Store == INSTANCE RecordStore WITH Payloads <- Sizes, records <- Records, used <- Issued

ImplementsRecordStore == Store!Spec

(* heap_table.cpp, at the bootstrap write: "Sole cache bypass: fresh       *)
(* allocation, never resident, no RID yet published."                      *)
FreshNeverResident ==
    call.pc \in {"bootstrap", "fresh"} => call.page \notin DOMAIN pool
=============================================================================
