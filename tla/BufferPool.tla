----------------------------- MODULE BufferPool -----------------------------
(***************************************************************************)
(* The buffer pool of src/src/storage/buffer_pool.{h,cpp}: a fixed array   *)
(* of frames over the page files, used by several client threads and by    *)
(* one optional prefetch worker.                                           *)
(*                                                                         *)
(* A step of this module is one critical section of metadata_mutex_, one   *)
(* page read or write done outside it, or one unlocked mutation through a  *)
(* PageGuard.  The mutex itself is therefore not a variable.               *)
(*                                                                         *)
(* Representation, where it differs from the C++ one:                      *)
(*  - A page's content is an element of Values.                            *)
(*  - A Frame is one entry in each of the functions state, key, page, ... *)
(*  - LoadReservation, LoadCompletion and replacement_ticket identify one  *)
(*    load of one thread, and so does the thread: owner[f] is the thread   *)
(*    whose completion (state "loading") or replacement reservation (state *)
(*    "ready", replacement_reserved) is on frame f, loading_table[k] the   *)
(*    thread whose reservation is published for key k.                     *)
(*  - access_generation is only ever compared with the value it had when   *)
(*    the frame was reserved, and only moves while it is reserved, so it   *)
(*    is the flag "touched since the reservation".                         *)
(*  - ticket is the counter of the code, MaxTicket its numeric limit, and  *)
(*    the "ticket exhausted" errors are those of the code.                 *)
(*  - A file that cannot be leased is a read or a write that fails.        *)
(***************************************************************************)
EXTENDS Naturals, FiniteSets, Sequences

CONSTANTS
  Clients,         \* threads calling the pool
  Worker,          \* the prefetch worker thread
  Tables, Keys,    \* TableIds and PageKeys
  TableOf,         \* TableOf[k]: the table_id of key k
  Values,          \* page contents
  NFrames,         \* capacity
  Policy,          \* "fifo" or "lru"
  PrefetchEnabled, \* prefetch_enabled_
  ConcurrentFlush, \* may an explicit flush overlap another thread's writeback?
  MaxTicket,       \* largest Frame::ticket
  None

Threads == Clients \cup {Worker}
Frames == 1..NFrames
PrefetchQueueCap == 2

ASSUME ConstantsAssumption ==
  /\ NFrames \in Nat \ {0} /\ MaxTicket \in Nat
  /\ IsFiniteSet(Clients) /\ Worker \notin Clients
  /\ TableOf \in [Keys -> Tables]
  /\ Policy \in {"fifo", "lru"}
  /\ PrefetchEnabled \in BOOLEAN /\ ConcurrentFlush \in BOOLEAN
  /\ None \notin Threads \cup Keys \cup Values \cup Frames \cup Tables
  /\ None \notin 0..MaxTicket

VARIABLES
  state,         \* Frame::state
  key,           \* Frame::key, or None
  page,          \* Frame::page, None for a page without content
  dirty,         \* Frame::dirty
  pin,           \* Frame::pin_count
  ticket,        \* Frame::ticket
  owner,         \* thread whose load has the frame, or None
  touched,       \* access_generation moved since the frame was reserved
  page_table,    \* page_table_: key -> frame, or None
  loading_table, \* loading_table_: key -> reserving thread, or None
  order,         \* fifo_: the list order_ of frames, oldest first
  disk,          \* the page files
  lifecycle,     \* lifecycle_ (kClosing never outlives a critical section)
  queue,         \* prefetch_queue_
  worker_state,  \* worker_state_
  control,       \* holder of worker_control_mutex_, or None
  pc,            \* where each thread is
  req,           \* key a thread loads or waits for
  fid,           \* frame a thread loads into, replaces, or holds a guard on
  old,           \* old_key of a thread's reservation
  scratch,       \* loaded_page: what the unlocked read returned, None = error
  snap,          \* dirty_snapshot; None after the write = write error
  peer,          \* thread whose completion a thread waits for
  note,          \* completion seen by a woken thread: its ticket, None = error
  tbl            \* table a thread is releasing

frames == <<state, key, page, dirty, pin, ticket, owner, touched>>
tables == <<page_table, loading_table, order>>
pool == <<frames, tables, lifecycle>>
prefetching == <<queue, worker_state, control>>
call == <<req, fid, old, scratch, snap, peer, note, tbl>>
vars == <<pool, disk, prefetching, pc, call>>

(***************************************************************************)
(* Types                                                                   *)
(***************************************************************************)
Opt(S) == S \cup {None}

Rest == {"idle", "holding", "mutated"}          \* a client outside any call
FreePc == {"free_io", "free_ret"}               \* loads into a free frame
VictimPc == {"clean_io", "clean_ret", "dirty_io", "dirty_ret", "write_io",
             "write_ret"}                       \* replaces a victim
JoinPc == {"join_release", "join_close"}        \* waits for the worker to stop
ClientPc == Rest \cup FreePc \cup VictimPc \cup JoinPc
              \cup {"waiting", "woken", "restart"}
WorkerPc == {"off", "poll", "check", "finish", "clean_io", "clean_ret"}
              \cup FreePc   \* the worker takes no dirty victim and never waits

FrameTypes ==
  /\ state \in [Frames -> {"free", "loading", "ready"}]
  /\ key \in [Frames -> Opt(Keys)]
  /\ page \in [Frames -> Opt(Values)]
  /\ dirty \in [Frames -> BOOLEAN]
  /\ pin \in [Frames -> Nat]
  /\ ticket \in [Frames -> 0..MaxTicket]
  /\ owner \in [Frames -> Opt(Threads)]
  /\ touched \in [Frames -> BOOLEAN]

PoolTypes ==
  /\ page_table \in [Keys -> Opt(Frames)]
  /\ loading_table \in [Keys -> Opt(Threads)]
  /\ order \in SUBSET (Frames \X Frames)
  /\ disk \in [Keys -> Values]
  /\ lifecycle \in {"open", "closed"}
  /\ queue \in Seq(Keys)
  /\ worker_state \in {"running", "stopping", "stopped"}
  /\ control \in Opt(Clients)

ThreadTypes ==
  /\ pc \in [Threads -> ClientPc \cup WorkerPc]
  /\ \A c \in Clients : pc[c] \in ClientPc
  /\ pc[Worker] \in WorkerPc
  /\ req \in [Threads -> Opt(Keys)]
  /\ fid \in [Threads -> Opt(Frames)]
  /\ old \in [Threads -> Opt(Keys)]
  /\ scratch \in [Threads -> Opt(Values)]
  /\ snap \in [Threads -> Opt(Values)]
  /\ peer \in [Threads -> Opt(Threads)]
  /\ note \in [Threads -> Opt(0..MaxTicket)]
  /\ tbl \in [Threads -> Opt(Tables)]

TypeOK == FrameTypes /\ PoolTypes /\ ThreadTypes

Init ==
  /\ state = [f \in Frames |-> "free"]
  /\ key = [f \in Frames |-> None]
  /\ page = [f \in Frames |-> None]
  /\ dirty = [f \in Frames |-> FALSE]
  /\ pin = [f \in Frames |-> 0]
  /\ ticket = [f \in Frames |-> 0]
  /\ owner = [f \in Frames |-> None]
  /\ touched = [f \in Frames |-> FALSE]
  /\ page_table = [k \in Keys |-> None]
  /\ loading_table = [k \in Keys |-> None]
  /\ order = {}
  /\ disk \in [Keys -> Values]
  /\ lifecycle = "open"
  /\ queue = <<>>
  /\ worker_state = IF PrefetchEnabled THEN "running" ELSE "stopped"
  /\ control = None
  /\ pc = [t \in Threads |-> IF t # Worker THEN "idle"
                             ELSE IF PrefetchEnabled THEN "poll" ELSE "off"]
  /\ req = [t \in Threads |-> None]
  /\ fid = [t \in Threads |-> None]
  /\ old = [t \in Threads |-> None]
  /\ scratch = [t \in Threads |-> None]
  /\ snap = [t \in Threads |-> None]
  /\ peer = [t \in Threads |-> None]
  /\ note = [t \in Threads |-> None]
  /\ tbl = [t \in Threads |-> None]

(***************************************************************************)
(* FifoReplacer: order_ as the relation "a stands no later than b"; a      *)
(* frame is in the list when it is related to itself.                      *)
(***************************************************************************)
fifo_remove(r, S) == {p \in r : p[1] \notin S /\ p[2] \notin S}

Queued(r) == {f \in Frames : <<f, f>> \in r}

(* The relation orders its frames totally, as a list does. *)
IsList(r) ==
  \A f, g \in Queued(r) :
    /\ <<f, g>> \in r \/ <<g, f>> \in r
    /\ <<f, g>> \in r /\ <<g, f>> \in r => f = g
    /\ \A h \in Queued(r) : <<f, g>> \in r /\ <<g, h>> \in r => <<f, h>> \in r

record_load(r, f) ==
  LET rest == fifo_remove(r, {f})
  IN rest \cup {<<g, f>> : g \in Queued(rest) \cup {f}}

(* The order after a successful access to a resident frame. *)
accessed(r, f) == IF Policy = "lru" THEN record_load(r, f) ELSE r

(* A load needs a fresh ticket for its frame. *)
TicketLeft(f) == ticket[f] < MaxTicket

FreeFrames == {f \in Frames : state[f] = "free"}

(* The frame a miss takes, as a set of at most one element: the first FREE *)
(* frame, or else the first eligible one of the list.                      *)
FirstFree == {f \in FreeFrames : \A g \in FreeFrames : f <= g}

(* The eligibility predicate: the prefetch worker takes clean victims only. *)
Eligible(t, f) ==
  /\ state[f] = "ready"
  /\ pin[f] = 0
  /\ owner[f] = None
  /\ t = Worker => ~dirty[f]

choose_victim(t) ==
  {f \in Queued(order) :
     Eligible(t, f) /\ \A g \in Queued(order) : Eligible(t, g) => <<f, g>> \in order}

(***************************************************************************)
(* Ends of a load                                                          *)
(***************************************************************************)
(* Where a thread goes when load_page returns: a client to its caller, with *)
(* a guard on f or with an error (f = None), the worker to its loop.        *)
AfterLoad(t, f) ==
  IF t = Worker THEN "finish" ELSE IF f = None THEN "idle" ELSE "holding"

Waiting(t) == {u \in Clients : pc[u] = "waiting" /\ peer[u] = t}

(* Those a completion wakes: notify_all. *)
WaitersOf_NotifyOne(t) ==
  IF Waiting(t) = {} THEN {} ELSE {CHOOSE u \in Waiting(t) : TRUE}
WaitersOf(t) == Waiting(t)

(* completion->done := true and notify_all, then return: the threads that  *)
(* wait for t's completion learn its ticket, or None for its error.        *)
Complete(t, f, tick) ==
  /\ pc' = [u \in Threads |-> IF u = t THEN AfterLoad(t, f)
                              ELSE IF u \in WaitersOf(t) THEN "woken" ELSE pc[u]]
  /\ note' = [u \in Threads |-> IF u \in WaitersOf(t) THEN tick ELSE note[u]]
  /\ req' = IF t = Worker THEN req ELSE [req EXCEPT ![t] = None]
  /\ fid' = [fid EXCEPT ![t] = IF t = Worker THEN None ELSE f]
  /\ old' = [old EXCEPT ![t] = None]
  /\ scratch' = [scratch EXCEPT ![t] = None]
  /\ snap' = [snap EXCEPT ![t] = None]
  /\ UNCHANGED <<peer, tbl>>

(* A client leaves load_page without having loaded anything itself. *)
Return(t, f) ==
  /\ pc' = [pc EXCEPT ![t] = AfterLoad(t, f)]
  /\ req' = IF t = Worker THEN req ELSE [req EXCEPT ![t] = None]
  /\ fid' = [fid EXCEPT ![t] = f]
  /\ peer' = [peer EXCEPT ![t] = None]
  /\ note' = [note EXCEPT ![t] = None]
  /\ UNCHANGED <<old, scratch, snap, tbl>>

(***************************************************************************)
(* load_page: one pass of its loop under the mutex, up to the next unlock  *)
(***************************************************************************)
(* (mutant) The loading table is not looked at. *)
Absent_NotResident(k) == page_table[k] = None

Absent(k) == page_table[k] = None /\ loading_table[k] = None

(* ++access_generation: it matters while the frame is reserved. *)
Touch(f) == [touched EXCEPT ![f] = @ \/ owner[f] # None]

(* A READY hit, or a published load found by a waiter: pin and return. *)
PinResident(t, f) ==
  /\ pin' = [pin EXCEPT ![f] = @ + 1]
  /\ touched' = Touch(f)
  /\ order' = accessed(order, f)
  /\ Return(t, f)
  /\ UNCHANGED <<state, key, page, dirty, ticket, owner, page_table,
                 loading_table, lifecycle, disk, prefetching>>

Hit(t, k) ==
  /\ t # Worker
  /\ page_table[k] # None
  /\ state[page_table[k]] = "ready"
  /\ PinResident(t, page_table[k])

(* The page is being loaded: wait for that load. *)
Join(t, k) ==
  /\ t # Worker
  /\ ~Absent(k)
  /\ page_table[k] # None => state[page_table[k]] = "loading"
  /\ pc' = [pc EXCEPT ![t] = "waiting"]
  /\ req' = [req EXCEPT ![t] = k]
  /\ peer' = [peer EXCEPT ![t] = IF page_table[k] # None
                                 THEN owner[page_table[k]]
                                 ELSE loading_table[k]]
  /\ note' = [note EXCEPT ![t] = None]
  /\ UNCHANGED <<pool, disk, prefetching, fid, old, scratch, snap, tbl>>

BeginLoad(t, where, k, f, oldKey) ==
  /\ pc' = [pc EXCEPT ![t] = where]
  /\ req' = [req EXCEPT ![t] = k]
  /\ fid' = [fid EXCEPT ![t] = f]
  /\ old' = [old EXCEPT ![t] = oldKey]
  /\ peer' = [peer EXCEPT ![t] = None]
  /\ note' = [note EXCEPT ![t] = None]
  /\ UNCHANGED <<scratch, snap, tbl>>

(* A miss takes the first FREE frame. *)
LoadFree(t, k) ==
  /\ Absent(k)
  /\ \E f \in FirstFree :
        /\ TicketLeft(f)
        /\ ticket' = [ticket EXCEPT ![f] = @ + 1]
        /\ state' = [state EXCEPT ![f] = "loading"]
        /\ key' = [key EXCEPT ![f] = k]
        /\ dirty' = [dirty EXCEPT ![f] = FALSE]
        /\ pin' = [pin EXCEPT ![f] = 1]
        /\ owner' = [owner EXCEPT ![f] = t]
        /\ page_table' = [page_table EXCEPT ![k] = f]
        /\ BeginLoad(t, "free_io", k, f, None)
  /\ UNCHANGED <<page, touched, loading_table, order, lifecycle, disk, prefetching>>

(* A miss in a full pool reserves a victim, which stays resident. *)
Reserve(t, k) ==
  /\ Absent(k)
  /\ FreeFrames = {}
  /\ \E f \in choose_victim(t) :
        /\ TicketLeft(f)
        /\ owner' = [owner EXCEPT ![f] = t]
        /\ touched' = [touched EXCEPT ![f] = FALSE]
        /\ loading_table' = [loading_table EXCEPT ![k] = t]
        /\ BeginLoad(t, IF dirty[f] THEN "dirty_io" ELSE "clean_io",
                     k, f, key[f])
  /\ UNCHANGED <<state, key, page, dirty, pin, ticket, page_table, order,
                 lifecycle, disk, prefetching>>

(* load_page returns without a guard and without having changed anything:  *)
(* closed pool, prefetch of a page already there, no victim, no ticket.    *)
LookupFails(t, k) ==
  /\ \/ lifecycle = "closed"
     \/ t = Worker /\ ~Absent(k)
     \/ Absent(k) /\ \E f \in FirstFree : ~TicketLeft(f)
     \/ /\ Absent(k) /\ FreeFrames = {}
        /\ \A f \in choose_victim(t) : ~TicketLeft(f)
  /\ Return(t, None)
  /\ UNCHANGED <<pool, disk, prefetching>>

Lookup(t, k) ==
  \/ /\ lifecycle = "open"
     /\ Hit(t, k) \/ Join(t, k) \/ LoadFree(t, k) \/ Reserve(t, k)
  \/ LookupFails(t, k)

(* fetch_page *)
Fetch(c, k) == pc[c] = "idle" /\ Lookup(c, k)

(***************************************************************************)
(* load_page: the unlocked I/O and the critical sections after it          *)
(***************************************************************************)
(* The unlocked read of the requested page; it may fail. *)
ReadPage(t) ==
  /\ pc[t] \in {"free_io", "clean_io", "dirty_io"}
  /\ pc' = [pc EXCEPT ![t] = CASE pc[t] = "free_io"  -> "free_ret"
                               [] pc[t] = "clean_io" -> "clean_ret"
                               [] pc[t] = "dirty_io" -> "dirty_ret"]
  /\ \E p \in {disk[req[t]], None} : scratch' = [scratch EXCEPT ![t] = p]
  /\ UNCHANGED <<pool, disk, prefetching, req, fid, old, snap, peer, note, tbl>>

(* A demand load keeps its pin for the guard, a prefetch keeps none. *)
LoadedPin_Always(t) == 1
LoadedPin(t) == IF t = Worker THEN 0 ELSE 1

(* Publication of a page loaded into a free frame. *)
PublishFree(t) ==
  /\ pc[t] = "free_ret"
  /\ scratch[t] # None
  /\ state' = [state EXCEPT ![fid[t]] = "ready"]
  /\ page' = [page EXCEPT ![fid[t]] = scratch[t]]
  /\ dirty' = [dirty EXCEPT ![fid[t]] = FALSE]
  /\ pin' = [pin EXCEPT ![fid[t]] = LoadedPin(t)]
  /\ owner' = [owner EXCEPT ![fid[t]] = None]
  /\ order' = record_load(order, fid[t])
  /\ Complete(t, fid[t], ticket[fid[t]])
  /\ UNCHANGED <<key, ticket, touched, page_table, loading_table, lifecycle,
                 disk, prefetching>>

reset_to_free(S) ==
  /\ state' = [f \in Frames |-> IF f \in S THEN "free" ELSE state[f]]
  /\ key' = [f \in Frames |-> IF f \in S THEN None ELSE key[f]]
  /\ page' = [f \in Frames |-> IF f \in S THEN None ELSE page[f]]
  /\ dirty' = [f \in Frames |-> IF f \in S THEN FALSE ELSE dirty[f]]
  /\ pin' = [f \in Frames |-> IF f \in S THEN 0 ELSE pin[f]]
  /\ owner' = [f \in Frames |-> IF f \in S THEN None ELSE owner[f]]
  /\ touched' = [f \in Frames |-> IF f \in S THEN FALSE ELSE touched[f]]
  /\ UNCHANGED ticket

(* The read failed: the frame goes back to FREE. *)
AbandonFree(t) ==
  /\ pc[t] = "free_ret"
  /\ scratch[t] = None
  /\ reset_to_free({fid[t]})
  /\ page_table' = [page_table EXCEPT ![req[t]] = None]
  /\ Complete(t, None, None)
  /\ UNCHANGED <<loading_table, order, lifecycle, disk, prefetching>>

VictimUnchanged_NoGeneration(t, wasDirty) ==
  LET f == fid[t]
  IN /\ lifecycle = "open" /\ loading_table[req[t]] = t
     /\ state[f] = "ready" /\ key[f] = old[t] /\ page_table[old[t]] = f
     /\ dirty[f] = wasDirty /\ pin[f] = 0 /\ owner[f] = t

VictimUnchanged_NoUseCheck(t, wasDirty) ==
  LET f == fid[t]
  IN /\ lifecycle = "open" /\ loading_table[req[t]] = t
     /\ state[f] = "ready" /\ key[f] = old[t] /\ page_table[old[t]] = f
     /\ dirty[f] = wasDirty /\ owner[f] = t

(* can_commit / can_snapshot: the victim is as it was when it was reserved. *)
VictimUnchanged(t, wasDirty) ==
  LET f == fid[t]
  IN /\ lifecycle = "open"
     /\ loading_table[req[t]] = t
     /\ state[f] = "ready"
     /\ key[f] = old[t]
     /\ page_table[old[t]] = f
     /\ dirty[f] = wasDirty
     /\ pin[f] = 0
     /\ owner[f] = t
     /\ ~touched[f]

Remapped(t) == [page_table EXCEPT ![old[t]] = None, ![req[t]] = fid[t]]

(* The victim gets its new identity. *)
Commit(t) ==
  LET f == fid[t]
  IN /\ key' = [key EXCEPT ![f] = req[t]]
     /\ page' = [page EXCEPT ![f] = scratch[t]]
     /\ dirty' = [dirty EXCEPT ![f] = FALSE]
     /\ pin' = [pin EXCEPT ![f] = LoadedPin(t)]
     /\ ticket' = [ticket EXCEPT ![f] = @ + 1]
     /\ owner' = [owner EXCEPT ![f] = None]
     /\ page_table' = Remapped(t)
     /\ loading_table' = [loading_table EXCEPT ![req[t]] = None]
     /\ order' = record_load(order, f)
     /\ Complete(t, f, ticket[f] + 1)
     /\ UNCHANGED <<state, touched, lifecycle, disk, prefetching>>

(* complete_failure: the reservation goes away, the old page stays. *)
Cancel(t) ==
  /\ owner' = [owner EXCEPT ![fid[t]] = None]
  /\ touched' = [touched EXCEPT ![fid[t]] = FALSE]
  /\ loading_table' = [loading_table EXCEPT ![req[t]] = None]
  /\ Complete(t, None, None)
  /\ UNCHANGED <<state, key, page, dirty, pin, ticket, page_table, order,
                 lifecycle, disk, prefetching>>

CommitClean(t) ==
  /\ pc[t] = "clean_ret"
  /\ scratch[t] # None
  /\ VictimUnchanged(t, FALSE)
  /\ Commit(t)

CancelClean(t) ==
  /\ pc[t] = "clean_ret"
  /\ scratch[t] = None \/ ~VictimUnchanged(t, FALSE)
  /\ Cancel(t)

(* The dirty page is copied under the mutex, to be written without it. *)
SnapshotVictim(t) ==
  /\ pc[t] = "dirty_ret"
  /\ scratch[t] # None
  /\ VictimUnchanged(t, TRUE)
  /\ snap' = [snap EXCEPT ![t] = page[fid[t]]]
  /\ pc' = [pc EXCEPT ![t] = "write_io"]
  /\ UNCHANGED <<pool, disk, prefetching, req, fid, old, scratch, peer, note, tbl>>

CancelDirty(t) ==
  /\ pc[t] = "dirty_ret"
  /\ scratch[t] = None \/ ~VictimUnchanged(t, TRUE)
  /\ Cancel(t)

(* The unlocked write of the snapshot.  A failed write leaves any content. *)
WriteBack(t) ==
  /\ pc[t] = "write_io"
  /\ pc' = [pc EXCEPT ![t] = "write_ret"]
  /\ \/ /\ disk' = [disk EXCEPT ![old[t]] = snap[t]]
        /\ UNCHANGED snap
     \/ /\ \E v \in Values : disk' = [disk EXCEPT ![old[t]] = v]
        /\ snap' = [snap EXCEPT ![t] = None]
  /\ UNCHANGED <<pool, prefetching, req, fid, old, scratch, peer, note, tbl>>

CommitDirty(t) ==
  /\ pc[t] = "write_ret"
  /\ snap[t] # None
  /\ VictimUnchanged(t, TRUE)
  /\ Commit(t)

CancelWritten(t) ==
  /\ pc[t] = "write_ret"
  /\ snap[t] = None \/ ~VictimUnchanged(t, TRUE)
  /\ Cancel(t)

(***************************************************************************)
(* load_page: a waiter reacquires the mutex                                *)
(***************************************************************************)
(* The page the completion published is still the resident one. *)
Published(t) ==
  LET f == page_table[req[t]]
  IN /\ note[t] # None
     /\ f # None
     /\ state[f] = "ready"
     /\ key[f] = req[t]
     /\ ticket[f] = note[t]

WakeReady(t) ==
  /\ pc[t] = "woken"
  /\ Published(t)
  /\ PinResident(t, page_table[req[t]])

(* A failed or already evicted prefetch is no answer: run the loop again. *)
WakeRetry(t) ==
  /\ pc[t] = "woken"
  /\ ~Published(t)
  /\ peer[t] = Worker
  /\ Lookup(t, req[t])

(* The loader's error, or "load completion is stale". *)
WakeError(t) ==
  /\ pc[t] = "woken"
  /\ ~Published(t)
  /\ peer[t] # Worker
  /\ Return(t, None)
  /\ UNCHANGED <<pool, disk, prefetching>>

(***************************************************************************)
(* PageGuard                                                               *)
(***************************************************************************)
MidMutation(f) == \E c \in Clients : pc[c] = "mutated" /\ fid[c] = f

(* A change through mutable_page, without the mutex.  Callers keep a page  *)
(* to one writer at a time.                                                *)
Mutate(c, v) ==
  /\ pc[c] = "holding"
  /\ ~MidMutation(fid[c])
  /\ page' = [page EXCEPT ![fid[c]] = v]
  /\ pc' = [pc EXCEPT ![c] = "mutated"]
  /\ UNCHANGED <<state, key, dirty, pin, ticket, owner, touched, tables,
                 lifecycle, disk, prefetching, call>>

mark_dirty(c) ==
  /\ pc[c] = "mutated"
  /\ dirty' = [dirty EXCEPT ![fid[c]] = TRUE]
  /\ touched' = Touch(fid[c])
  /\ pc' = [pc EXCEPT ![c] = "holding"]
  /\ UNCHANGED <<state, key, page, pin, ticket, owner, tables, lifecycle, disk,
                 prefetching, call>>

unpin(f) == [pin EXCEPT ![f] = @ - 1]

(* PageGuard::release, also called by its destructor and move assignment. *)
ReleaseGuard(c) ==
  /\ pc[c] = "holding"
  /\ pin' = unpin(fid[c])
  /\ pc' = [pc EXCEPT ![c] = "idle"]
  /\ fid' = [fid EXCEPT ![c] = None]
  /\ UNCHANGED <<state, key, page, dirty, ticket, owner, touched, tables,
                 lifecycle, disk, prefetching, req, old, scratch, snap, peer,
                 note, tbl>>

(***************************************************************************)
(* Explicit flushes, each one critical section with its writes inside it   *)
(***************************************************************************)
DirtyIn(S) == {f \in S : state[f] = "ready" /\ dirty[f]}

(* The frames written before the one whose write fails. *)
Written(S, bad) == {f \in DirtyIn(S) : bad = None \/ f < bad}

(* The dirty flag is cleared once the write has succeeded. *)
DirtyAfter_Early(S, bad) ==
  [f \in Frames |-> dirty[f] /\ f \notin Written(S, bad) \cup {bad}]
DirtyAfter(S, bad) == [f \in Frames |-> dirty[f] /\ f \notin Written(S, bad)]

(* flush_frame_locked for the frames of S by ascending FrameId.  The first *)
(* failed write (of frame bad; None: all succeed) ends it.  A page that is *)
(* written while its holder changes it reaches the disk in any state.      *)
FlushFrames(S, bad) ==
  /\ bad \in Opt(DirtyIn(S))
  /\ dirty' = DirtyAfter(S, bad)
  /\ disk' \in [Keys -> Values]
  /\ \A k \in Keys : \/ disk'[k] = disk[k]
                     \/ /\ page_table[k] # None
                        /\ page_table[k] \in Written(S, bad) \cup {bad}
  /\ \A f \in Written(S, bad) : ~MidMutation(f) => disk'[key[f]] = page[f]
  /\ UNCHANGED <<state, key, page, pin, ticket, owner, touched>>

(* Callers of the pool who do not overlap a flush with a writeback of the  *)
(* same frame: always so while storage.cpp serializes its operations.      *)
FlushAllowed(S) ==
  ConcurrentFlush \/ \A f \in DirtyIn(S) :
                        ~\E t \in Threads : /\ pc[t] \in {"write_io", "write_ret"}
                                            /\ fid[t] = f

Flush(c, S) ==
  /\ pc[c] = "idle"
  /\ lifecycle = "open"
  /\ FlushAllowed(S)
  /\ \E bad \in Opt(S) : FlushFrames(S, bad)
  /\ UNCHANGED <<page_table, loading_table, order, lifecycle, prefetching, pc,
                 call>>

flush_page(c, k) == page_table[k] # None /\ Flush(c, {page_table[k]})

flush_all(c) == Flush(c, Frames)

(* flush_dirty_frames_for_experiment: any up-to-date set of dirty, unpinned *)
(* frames; a stale set is refused before any write.                         *)
flush_dirty_frames_for_experiment(c) ==
  \E S \in SUBSET DirtyIn({f \in Frames : pin[f] = 0}) : Flush(c, S)

(***************************************************************************)
(* release_table and close: stop the worker, act, restart the worker       *)
(***************************************************************************)
(* worker_control_mutex_ and the first part of stop_prefetch_worker. *)
StopWorker(c, where, table) ==
  /\ pc[c] = "idle"
  /\ control = None
  /\ control' = c
  /\ worker_state' = IF worker_state = "running" THEN "stopping" ELSE worker_state
  /\ queue' = <<>>
  /\ pc' = [pc EXCEPT ![c] = where]
  /\ tbl' = [tbl EXCEPT ![c] = table]
  /\ UNCHANGED <<pool, disk, req, fid, old, scratch, snap, peer, note>>

release_table(c, table) == StopWorker(c, "join_release", table)
close(c) == StopWorker(c, "join_close", None)

(* The join returns once the worker's thread has ended. *)
Joined(c, where) == pc[c] = where /\ pc[Worker] = "off"

(* The caller then restarts the worker, unless the pool is closed. *)
LeaveJoin(c, life) ==
  /\ worker_state' = "stopped"
  /\ pc' = [pc EXCEPT ![c] = IF life = "open" THEN "restart" ELSE "idle"]
  /\ control' = IF life = "open" THEN control ELSE None
  /\ tbl' = [tbl EXCEPT ![c] = None]
  /\ UNCHANGED <<queue, req, fid, old, scratch, snap, peer, note>>

Belongs(f, table) == key[f] # None /\ TableOf[key[f]] = table
FramesOf(table) == {f \in Frames : Belongs(f, table)}

TableInUse_PinsOnly(table) == \E f \in FramesOf(table) : pin[f] # 0

(* A load that reads a page of the table or replaces one of its frames. *)
TableInUse(table) ==
  \/ \E k \in Keys : /\ loading_table[k] # None
                     /\ \/ TableOf[k] = table
                        \/ TableOf[old[loading_table[k]]] = table
  \/ \E f \in FramesOf(table) : pin[f] # 0

ReleaseRefused(c) ==
  /\ Joined(c, "join_release")
  /\ lifecycle = "closed" \/ TableInUse(tbl[c])
  /\ LeaveJoin(c, lifecycle)
  /\ UNCHANGED <<pool, disk>>

ReleaseFlushFails(c) ==
  /\ Joined(c, "join_release")
  /\ lifecycle = "open" /\ ~TableInUse(tbl[c])
  /\ \E bad \in FramesOf(tbl[c]) : FlushFrames(FramesOf(tbl[c]), bad)
  /\ UNCHANGED <<page_table, loading_table, order, lifecycle>>
  /\ LeaveJoin(c, "open")

(* Every write succeeded: the table's frames become FREE. *)
ReleaseFrames(c) ==
  LET mine == FramesOf(tbl[c])
  IN /\ Joined(c, "join_release")
     /\ lifecycle = "open" /\ ~TableInUse(tbl[c])
     /\ disk' = [k \in Keys |-> IF page_table[k] \in DirtyIn(mine)
                                THEN page[page_table[k]] ELSE disk[k]]
     /\ reset_to_free(mine)
     /\ page_table' = [k \in Keys |-> IF page_table[k] \in mine THEN None
                                      ELSE page_table[k]]
     /\ order' = fifo_remove(order, mine)
     /\ UNCHANGED <<loading_table, lifecycle>>
     /\ LeaveJoin(c, "open")

PoolInUse ==
  \/ \E k \in Keys : loading_table[k] # None
  \/ \E f \in Frames : pin[f] # 0 \/ owner[f] # None

CloseRefused(c) ==
  /\ Joined(c, "join_close")
  /\ lifecycle = "closed" \/ PoolInUse
  /\ LeaveJoin(c, lifecycle)
  /\ UNCHANGED <<pool, disk>>

CloseFlushFails(c) ==
  /\ Joined(c, "join_close")
  /\ lifecycle = "open" /\ ~PoolInUse
  /\ \E bad \in Frames : FlushFrames(Frames, bad)
  /\ UNCHANGED <<page_table, loading_table, order, lifecycle>>
  /\ LeaveJoin(c, "open")

CloseFrames(c) ==
  /\ Joined(c, "join_close")
  /\ lifecycle = "open" /\ ~PoolInUse
  /\ disk' = [k \in Keys |-> IF page_table[k] \in DirtyIn(Frames)
                             THEN page[page_table[k]] ELSE disk[k]]
  /\ reset_to_free(Frames)
  /\ page_table' = [k \in Keys |-> None]
  /\ order' = {}
  /\ lifecycle' = "closed"
  /\ UNCHANGED loading_table
  /\ LeaveJoin(c, "closed")

(* start_prefetch_worker; a thread that cannot be created leaves it stopped. *)
Restart(c) ==
  /\ pc[c] = "restart"
  /\ control' = None
  /\ \/ /\ PrefetchEnabled
        /\ worker_state' = "running"
        /\ pc' = [pc EXCEPT ![c] = "idle", ![Worker] = "poll"]
     \/ /\ worker_state' = worker_state
        /\ pc' = [pc EXCEPT ![c] = "idle"]
  /\ UNCHANGED <<pool, disk, queue, call>>

(***************************************************************************)
(* Prefetching                                                             *)
(***************************************************************************)
(* A submission that is accepted; every other one changes nothing. *)
prefetch_page(c, k) ==
  /\ pc[c] \in {"idle", "holding"}
  /\ worker_state = "running"
  /\ req[Worker] # k
  /\ \A i \in 1..Len(queue) : queue[i] # k
  /\ Len(queue) < PrefetchQueueCap
  /\ queue' = Append(queue, k)
  /\ UNCHANGED <<pool, disk, worker_state, control, pc, call>>

WorkerExit ==
  /\ pc[Worker] = "poll"
  /\ worker_state # "running"
  /\ pc' = [pc EXCEPT ![Worker] = "off"]
  /\ UNCHANGED <<pool, disk, prefetching, call>>

WorkerTake ==
  /\ pc[Worker] = "poll"
  /\ worker_state = "running"
  /\ queue # <<>>
  /\ queue' = Tail(queue)
  /\ req' = [req EXCEPT ![Worker] = Head(queue)]
  /\ pc' = [pc EXCEPT ![Worker] = "check"]
  /\ UNCHANGED <<pool, disk, worker_state, control, fid, old, scratch, snap,
                 peer, note, tbl>>

(* The candidate is a free or unreadable page. *)
WorkerSkip ==
  /\ pc[Worker] = "check"
  /\ pc' = [pc EXCEPT ![Worker] = "finish"]
  /\ UNCHANGED <<pool, disk, prefetching, call>>

(* The candidate is allocated: load_page with LoadOrigin::kPrefetch. *)
WorkerLoad == pc[Worker] = "check" /\ Lookup(Worker, req[Worker])

WorkerFinish ==
  /\ pc[Worker] = "finish"
  /\ pc' = [pc EXCEPT ![Worker] = "poll"]
  /\ req' = [req EXCEPT ![Worker] = None]
  /\ UNCHANGED <<pool, disk, prefetching, fid, old, scratch, snap, peer, note, tbl>>

(***************************************************************************)
(* Specification                                                           *)
(***************************************************************************)
(* The steps of a load after its first unlock. *)
LoadStep(t) ==
  \/ ReadPage(t) \/ PublishFree(t) \/ AbandonFree(t)
  \/ CommitClean(t) \/ CancelClean(t)
  \/ SnapshotVictim(t) \/ CancelDirty(t) \/ WriteBack(t)
  \/ CommitDirty(t) \/ CancelWritten(t)

(* A client that is inside a call of the pool continues. *)
Continue(c) ==
  \/ LoadStep(c)
  \/ WakeReady(c) \/ WakeRetry(c) \/ WakeError(c)
  \/ ReleaseRefused(c) \/ ReleaseFlushFails(c) \/ ReleaseFrames(c)
  \/ CloseRefused(c) \/ CloseFlushFails(c) \/ CloseFrames(c)
  \/ Restart(c)

(* A client that is outside any call does something with the pool. *)
Begin(c) ==
  \/ \E k \in Keys : Fetch(c, k) \/ flush_page(c, k) \/ prefetch_page(c, k)
  \/ \E v \in Values : Mutate(c, v)
  \/ mark_dirty(c) \/ ReleaseGuard(c)
  \/ flush_all(c) \/ flush_dirty_frames_for_experiment(c)
  \/ \E table \in Tables : release_table(c, table)
  \/ close(c)

WorkerStep ==
  \/ LoadStep(Worker)
  \/ WorkerExit \/ WorkerTake \/ WorkerSkip \/ WorkerLoad \/ WorkerFinish

Next == WorkerStep \/ \E c \in Clients : Begin(c) \/ Continue(c)

Spec == Init /\ [][Next]_vars

(* I/O returns, the mutex is granted, and threads run: a thread that is in *)
(* a call, and the worker, go on.  Nobody has to call the pool.            *)
FairSpec ==
  /\ Spec
  /\ WF_vars(WorkerStep)
  /\ \A c \in Clients : WF_vars(Continue(c))

(***************************************************************************)
(* What the pool guarantees                                                *)
(***************************************************************************)
Guarding(f) == {c \in Clients : pc[c] \in {"holding", "mutated"} /\ fid[c] = f}

(* What the local variables of load_page hold where they are used. *)
LocalsOK ==
  \A t \in Threads :
    /\ pc[t] \in FreePc \cup VictimPc \cup {"waiting", "woken", "check"} => req[t] # None
    /\ pc[t] \in FreePc \cup VictimPc \cup {"holding", "mutated"} => fid[t] # None
    /\ pc[t] \in VictimPc => old[t] # None /\ ticket[fid[t]] < MaxTicket
    /\ pc[t] \in {"write_io", "write_ret"} => scratch[t] # None
    /\ pc[t] = "write_io" => snap[t] # None

(* The worker is not running while a caller of close or release_table that *)
(* has joined it acts, and only one such caller is at work.                *)
ControlOK ==
  /\ \A c \in Clients : pc[c] \in JoinPc \cup {"restart"} => control = c
  /\ \A c \in Clients : pc[c] = "restart" => worker_state = "stopped"
  /\ worker_state = "stopped" => pc[Worker] = "off"

(* PageTable, resident frames and the replacement list describe the same   *)
(* pages ("resident Frame, PageTable and FIFO" of docs/storage/            *)
(* buffer-pool.md): each mapping leads to the one frame that has its key,  *)
(* a free frame is in neither, a published frame has content and is in the *)
(* list, and the list is a total order.                                    *)
MappingConsistent ==
  /\ \A k \in Keys : page_table[k] # None => key[page_table[k]] = k
  /\ \A f \in Frames : IF state[f] = "free"
                       THEN key[f] = None /\ ~dirty[f] /\ owner[f] = None
                       ELSE key[f] # None /\ page_table[key[f]] = f
  /\ \A f \in Frames : state[f] = "ready" => page[f] # None
  /\ Queued(order) = {f \in Frames : state[f] = "ready"}
  /\ IsList(order)

(* The pin count of a frame is the number of guards on it, plus the one    *)
(* internal pin of a load into a free frame; so unpin never finds 0, and   *)
(* only resident pages are guarded.                                        *)
PinsAccounted ==
  \A f \in Frames :
    /\ pin[f] = Cardinality(Guarding(f))
                         + (IF state[f] = "loading" THEN 1 ELSE 0)
    /\ Guarding(f) # {} => state[f] = "ready"

(* One load per page, one load per frame: the owner of a frame and of a    *)
(* loading_table entry is a thread that is in that very load, so the       *)
(* "reservation is stale" exits of load_page are never taken; and a page   *)
(* is not loaded while it is resident.                                     *)
LoadsExclusive ==
  /\ \A t \in Threads :
       /\ pc[t] \in FreePc =>
            /\ state[fid[t]] = "loading" /\ owner[fid[t]] = t
            /\ key[fid[t]] = req[t]
       /\ pc[t] \in VictimPc =>
            /\ state[fid[t]] = "ready" /\ owner[fid[t]] = t
            /\ key[fid[t]] = old[t] /\ loading_table[req[t]] = t
  /\ \A f \in Frames :
       /\ state[f] = "loading" => owner[f] # None
       /\ owner[f] # None =>
            /\ fid[owner[f]] = f
            /\ pc[owner[f]] \in (IF state[f] = "loading" THEN FreePc ELSE VictimPc)
  /\ \A k \in Keys : loading_table[k] # None =>
       /\ pc[loading_table[k]] \in VictimPc /\ req[loading_table[k]] = k
       /\ page_table[k] = None

(* No lost wakeup: whoever waits, waits for a thread that is loading the   *)
(* very page it asked for.                                                 *)
WaitersHaveLoader ==
  \A c \in Clients : pc[c] = "waiting" =>
    peer[c] # None /\ pc[peer[c]] \in FreePc \cup VictimPc /\ req[peer[c]] = req[c]

(* A clean page equals its copy on disk (once its holder is done with it), *)
(* so dropping it loses nothing: the reason why a clean victim is replaced *)
(* without a write.                                                        *)
CleanPagesOnDisk ==
  \A f \in Frames :
    state[f] = "ready" /\ ~dirty[f] /\ ~MidMutation(f)
      => page[f] = disk[key[f]]

(* A page that is not resident is read from disk as its last holder left   *)
(* it, also when the read began before and is published after other steps. *)
LoadedPagesFresh ==
  \A t \in Threads :
    pc[t] \in {"free_ret", "clean_ret", "dirty_ret", "write_io", "write_ret"}
      /\ scratch[t] # None
      => scratch[t] = disk[req[t]]

(* close succeeds only when nobody holds a guard or is inside a load.      *)
ClosedQuiescent ==
  lifecycle = "closed" =>
    /\ \A f \in Frames : state[f] = "free"
    /\ \A t \in Threads : pc[t] \notin FreePc \cup VictimPc \cup {"holding", "mutated"}

(* A page's content is its resident copy, or else the one on disk. *)
Content == [k \in Keys |->
              IF page_table[k] # None /\ state[page_table[k]] = "ready"
              THEN page[page_table[k]] ELSE disk[k]]

Guard == [c \in Clients |-> IF pc[c] \in {"holding", "mutated"}
                            THEN key[fid[c]] ELSE None]

Store == INSTANCE PageStore WITH content <- Content, guard <- Guard

(* The pool is a PageStore: whatever it loads, evicts, writes back, fails  *)
(* to write, prefetches, flushes, releases or closes, no page changes but  *)
(* by its holder, and no guard ever comes to lead to another page.         *)
ImplementsPageStore == Store!Spec

(* A demand waiter whose load succeeded gets the page: "waiters reuse the  *)
(* same result" of docs/storage/buffer-pool.md.                            *)
WaitersShareResult ==
  \A c \in Clients :
    pc[c] = "woken" /\ peer[c] # Worker /\ note[c] # None => Published(c)

(* Nobody waits for ever: not for another thread's load, and not in close *)
(* or release_table for the worker to end.                                 *)
WaitsEnd ==
  \A c \in Clients : pc[c] \in JoinPc \cup {"waiting"} ~> pc[c] \notin JoinPc \cup {"waiting"}

(* Every wait ends, and every call returns: loads, waits, joins, and the   *)
(* retries of a thread that waited for a failed prefetch, unless new       *)
(* prefetches of its page are submitted for ever (each may fail just       *)
(* before it gets the mutex).                                              *)
CallsReturn ==
  /\ WaitsEnd
  /\ <>[](queue = <<>>) => \A c \in Clients : pc[c] \notin Rest ~> pc[c] \in Rest
=============================================================================
