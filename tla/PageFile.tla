------------------------------ MODULE PageFile ------------------------------
(***************************************************************************)
(* storage/page_file: one file of pages with a persistent free list.       *)
(*                                                                         *)
(* Page 0 is the header (page_count, free_page_head); a free page holds a  *)
(* marker and the id of the next free page.  allocate_page and free_page   *)
(* change the file with two raw writes, either of which may fail, and the  *)
(* process may die between them.  A failure that leaves memory and file    *)
(* in doubt poisons the object.                                            *)
(*                                                                         *)
(* mutex_ is held for a whole call, so calls do not interleave; the steps  *)
(* of a call are its raw writes.  Calls that are refused, and reads, which *)
(* may fail, change nothing and are not steps.                             *)
(***************************************************************************)
EXTENDS Integers

CONSTANTS
    MaxPage,    \* the largest PageId
    Values,     \* what callers write into pages
    Zero,       \* an all-zero page
    Torn,       \* a page of the file of which a failed write changed a part
    Partial,    \* the end of a file that a failed write left inside a page
    Absent,     \* a page behind the end of the file
    Unknown     \* (callers) the outcome of the last write is not known

ASSUME PageFileAssumption ==
    /\ MaxPage \in Nat \ {0}
    /\ \A c \in Values \cup {Zero, Torn, Partial, Absent, Unknown} : c \notin Int
    /\ {Zero, Torn, Partial, Absent, Unknown} \cap Values = {}
    /\ Zero \notin {Torn, Partial, Absent, Unknown}
    /\ Torn \notin {Partial, Absent, Unknown}
    /\ Partial \notin {Absent, Unknown}
    /\ Absent # Unknown

VARIABLES
    file,       \* the file: its header's count and head, its pages
    mem,        \* the PageFile object: open_, stream_, poisoned_,
                \* page_count_, free_page_head_
    op,         \* the raw write the current call does next, and its page
    owned,      \* (callers) pages that allocate_page returned and nobody freed
    last        \* (callers) what the last write to a page put there

vars == <<file, mem, op, owned, last>>

Pages == 1..MaxPage

(* The content n in 0..MaxPage is a free page's marker whose next is n. *)
Marker == 0..MaxPage

Contents == Values \cup Marker \cup {Zero, Torn, Partial, Absent}

Steps == {"idle", "clear", "grow", "link"}

TypeOK ==
    /\ file \in [count : 1..MaxPage + 1, head : Marker, page : [Pages -> Contents]]
    /\ mem \in [open : BOOLEAN, stream : BOOLEAN, poisoned : BOOLEAN,
                count : 1..MaxPage + 1, head : Marker]
    /\ op \in [pc : Steps, page : Marker]
    /\ owned \in SUBSET Pages
    /\ last \in [Pages -> Values \cup {Zero, Unknown}]

Idle == [pc |-> "idle", page |-> 0]

(* create: a header page and nothing else, opened. *)
Init ==
    /\ file = [count |-> 1, head |-> 0, page |-> [p \in Pages |-> Absent]]
    /\ mem = [open |-> TRUE, stream |-> TRUE, poisoned |-> FALSE,
              count |-> 1, head |-> 0]
    /\ op = Idle
    /\ owned = {}
    /\ last = [p \in Pages |-> Unknown]

-----------------------------------------------------------------------------
(* The free list.  The walks of open and is_free_page_locked follow the    *)
(* markers from the head.  The pages they meet are the least set that has  *)
(* the head and the next page of each of its pages; the walk ends without  *)
(* an error when each page is in range and marked and none is met again.   *)

Linked(S, d) == \A q \in S : d[q] \in Pages => d[q] \in S

FreePages(h, d) ==
    {p \in Pages : \A S \in SUBSET Pages :
                        (h \in Pages => h \in S) /\ Linked(S, d) => p \in S}

ListValid(h, n, d) ==
    \A p \in FreePages(h, d) :
        p < n /\ d[p] \in Marker /\ p \notin FreePages(d[p], d)

(* (mutant) free_page and write_page do not look into the free list. *)
Allocated_InRange(p) == p < mem.count

(* is_free_page_locked, as free_page, read_page and write_page use it. *)
Allocated(p) ==
    /\ p < mem.count
    /\ ListValid(mem.head, mem.count, file.page)
    /\ p \notin FreePages(mem.head, file.page)

-----------------------------------------------------------------------------
(* Raw writes.  The 24 bytes of the header reach the file together; of any *)
(* other page a failed write may have changed nothing, a part or the whole *)
(* (of a marker, enough for a reader).  A stream that a failed close has   *)
(* closed takes nothing.                                                   *)

FailedWrite(old, new) ==
    IF ~mem.stream THEN {old}
    ELSE IF old \in {Absent, Partial} THEN {old, Partial, new} ELSE {old, Torn, new}

(* write_raw_page_locked succeeds. *)
Wrote(p, new) == mem.stream /\ file' = [file EXCEPT !.page[p] = new]

(* write_raw_page_locked fails. *)
WriteFails(p, new) ==
    \E c \in FailedWrite(file.page[p], new) : file' = [file EXCEPT !.page[p] = c]

(* write_header_locked, with the page_count_ and free_page_head_ given. *)
WroteHeader(n, h) ==
    mem.stream /\ file' = [file EXCEPT !.count = n, !.head = h]

HeaderFails(n, h) ==
    \/ UNCHANGED file
    \/ mem.stream /\ file' = [file EXCEPT !.count = n, !.head = h]

(* (mutant) The latch is forgotten. *)
Poisoned_Never == mem

(* The memory after a failed header write: the old values and the latch. *)
Poisoned == [mem EXCEPT !.poisoned = TRUE]

-----------------------------------------------------------------------------

(* require_open_locked, at the start of a call. *)
Ready == op.pc = "idle" /\ mem.open /\ ~mem.poisoned

write_page(p, v) ==
    /\ Ready
    /\ Allocated(p)
    /\ \/ Wrote(p, v) /\ last' = [last EXCEPT ![p] = v]
       \/ WriteFails(p, v) /\ last' = [last EXCEPT ![p] = Unknown]
    /\ UNCHANGED <<mem, op, owned>>

(* The head of the list once its first page is taken. *)
HeadAfterTake == file.page[mem.head]

(* allocate_page with a free page: the header drops it from the list... *)
TakeFree ==
    /\ Ready
    /\ mem.head # 0
    /\ ListValid(mem.head, mem.count, file.page)
    /\ \/ /\ WroteHeader(mem.count, HeadAfterTake)
          /\ mem' = [mem EXCEPT !.head = file.page[mem.head]]
          /\ op' = [pc |-> "clear", page |-> mem.head]
       \/ /\ HeaderFails(mem.count, HeadAfterTake)
          /\ mem' = Poisoned
          /\ UNCHANGED op
    /\ UNCHANGED <<owned, last>>

(* allocate_page returns page p, filled with zeroes, to its caller. *)
HandOut(p) ==
    /\ owned' = owned \cup {p}
    /\ last' = [last EXCEPT ![p] = Zero]

(* ... and then the page is cleared. *)
Clear ==
    /\ op.pc = "clear"
    /\ op' = Idle
    /\ \/ Wrote(op.page, Zero) /\ HandOut(op.page) /\ UNCHANGED mem
       \/ /\ WriteFails(op.page, Zero)
          /\ mem' = Poisoned
          /\ UNCHANGED <<owned, last>>

(* (mutant) The last page of the file instead of the one behind it. *)
NewPage_Last == IF mem.count > 1 THEN mem.count - 1 ELSE 1

(* The page that allocate_page adds to the file. *)
NewPage == mem.count

PageIdLeft == mem.count <= MaxPage

(* allocate_page without a free page: a zero page behind the last one... *)
Extend ==
    /\ Ready
    /\ mem.head = 0
    /\ PageIdLeft
    /\ \/ Wrote(NewPage, Zero) /\ op' = [pc |-> "grow", page |-> NewPage]
       \/ WriteFails(NewPage, Zero) /\ UNCHANGED op
    /\ UNCHANGED <<mem, owned, last>>

(* ... and then the count. *)
Grow ==
    /\ op.pc = "grow"
    /\ op' = Idle
    /\ \/ /\ WroteHeader(mem.count + 1, mem.head)
          /\ mem' = [mem EXCEPT !.count = mem.count + 1]
          /\ HandOut(op.page)
       \/ /\ HeaderFails(mem.count + 1, mem.head)
          /\ mem' = Poisoned
          /\ UNCHANGED <<owned, last>>

(* free_page: the page becomes a marker, whose next is the head...  The    *)
(* caller gives the page up with the call, whatever the call returns.      *)
free_page(p) ==
    /\ Ready
    /\ Allocated(p)
    /\ \/ Wrote(p, mem.head) /\ op' = [pc |-> "link", page |-> p]
       \/ WriteFails(p, mem.head) /\ UNCHANGED op
    /\ owned' = owned \ {p}
    /\ last' = [last EXCEPT ![p] = Unknown]
    /\ UNCHANGED mem

(* ... and then the page becomes the head. *)
Link ==
    /\ op.pc = "link"
    /\ op' = Idle
    /\ \/ /\ WroteHeader(mem.count, op.page)
          /\ mem' = [mem EXCEPT !.head = op.page]
       \/ HeaderFails(mem.count, op.page) /\ mem' = Poisoned
    /\ UNCHANGED <<owned, last>>

(* Called by the heap table when it cannot give a page back. *)
mark_poisoned ==
    /\ op.pc = "idle"
    /\ mem.open
    /\ mem' = Poisoned
    /\ UNCHANGED <<file, op, owned, last>>

(* close: the stream is closed, or the call fails and may be retried; or   *)
(* it fails although the stream is closed, and then each retry fails.      *)
close ==
    /\ op.pc = "idle"
    /\ mem.open
    /\ mem.stream
    /\ \E open \in BOOLEAN : mem' = [mem EXCEPT !.open = open, !.stream = FALSE]
    /\ UNCHANGED <<file, op, owned, last>>

(* The process ends, in the middle of a call or not. *)
Crash ==
    /\ mem.open
    /\ mem' = [mem EXCEPT !.open = FALSE, !.stream = FALSE]
    /\ op' = Idle
    /\ UNCHANGED <<file, owned, last>>

(* What open demands of a file: a length of whole pages, which includes    *)
(* the page_count pages of the header, and a valid free list.              *)
Whole(n, d) == \A p \in Pages : d[p] # Partial /\ (p < n => d[p] # Absent)

Openable == Whole(file.count, file.page) /\ ListValid(file.head, file.count, file.page)

open ==
    /\ ~mem.open
    /\ Openable
    /\ mem' = [open |-> TRUE, stream |-> TRUE, poisoned |-> FALSE,
               count |-> file.count, head |-> file.head]
    /\ UNCHANGED <<file, op, owned, last>>

Next ==
    \/ \E p \in Pages, v \in Values : write_page(p, v)
    \/ TakeFree \/ Clear \/ Extend \/ Grow
    \/ \E p \in Pages : free_page(p)
    \/ Link \/ mark_poisoned \/ close \/ Crash \/ open

Spec == Init /\ [][Next]_vars

-----------------------------------------------------------------------------

(* Whenever the process dies, and whichever writes have failed, the free   *)
(* list in the file is one that open accepts, and the pages the header     *)
(* counts are in the file: the two writes of allocate_page and free_page   *)
(* are in an order that never leaves a list through a page that is no      *)
(* marker.                                                                 *)
DiskSound ==
    /\ ListValid(file.head, file.count, file.page)
    /\ \A p \in Pages : p < file.count => file.page[p] \notin {Absent, Partial}

(* A page that allocate_page has handed out is counted by the header and   *)
(* not in the file's free list until its owner frees it, over crashes and  *)
(* reopening too: allocate_page cannot hand it out twice.                  *)
OwnedNotFree ==
    \A p \in owned : p < file.count /\ p \notin FreePages(file.head, file.page)

(* An owned page holds what was last written to it: no allocation, release *)
(* or failed write of another page changes it.                             *)
OwnedContent ==
    \A p \in owned : last[p] # Unknown => file.page[p] = last[p]

(* An open file that is not poisoned has in memory what its header says:   *)
(* every failure after which the two could differ poisons the file.        *)
MemoryMatchesFile ==
    mem.open /\ ~mem.poisoned => mem.count = file.count /\ mem.head = file.head

(* What page-file-format.md says of close: a file that close has closed    *)
(* can be opened again and its data read.                                  *)
ClosedReopens == [][close /\ ~mem'.open => Openable]_vars
=============================================================================
