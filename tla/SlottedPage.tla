----------------------------- MODULE SlottedPage -----------------------------
(***************************************************************************)
(* storage/slotted_page and record_page: records in one page of PageSize   *)
(* bytes.  Behind the header the slot directory grows upward, from the end *)
(* of the page the payloads grow downward, without gaps.  A slot that a    *)
(* record has left is used again under the next generation; at the last    *)
(* generation it is retired.  A record id is made of page, generation and  *)
(* slot.                                                                   *)
(*                                                                         *)
(* Each operation computes a new page, validates it, and only then         *)
(* replaces the old one.  Operations that are refused change nothing and   *)
(* are not steps; reading is the mapping to RecordStore.                   *)
(***************************************************************************)
EXTENDS Integers, FiniteSets

CONSTANTS
    PageSize, HeaderSize, EntrySize,    \* bytes of a page, header, Slot Entry
    SlotRange,      \* number of SlotIds (2^16)
    MaxGeneration,  \* the largest generation (2^16 - 1)
    MaxPayload,     \* kMaxRecordPayloadBytes
    PageId,         \* the id of this page
    Data            \* what callers store

ASSUME SlottedPageAssumption ==
    /\ {PageSize, HeaderSize, EntrySize, SlotRange, MaxGeneration, MaxPayload, PageId}
            \subseteq Nat \ {0}
    /\ HeaderSize <= PageSize
    /\ (PageSize - HeaderSize) \div EntrySize <= SlotRange

VARIABLE page   \* slot directory, counters and bytes of the page

Offsets == 0..PageSize - 1

MaxSlots == (PageSize - HeaderSize) \div EntrySize

SlotIds == 0..MaxSlots - 1

(* A payload of n bytes: its bytes differ from each other and from those   *)
(* of other data.                                                          *)
Payload(v, n) == [i \in 0..n - 1 |-> <<v, i>>]

NullByte == <<>>

Flags == {"deleted", "occupied", "retired"}

SlotEntry == [offset : 0..PageSize, length : 0..PageSize,
              generation : 0..MaxGeneration, flags : Flags]

Unused == [offset |-> 0, length |-> 0, generation |-> 0, flags |-> "deleted"]

Init ==
    page = [slot_count |-> 0, live_count |-> 0, free_upper |-> PageSize,
            slots |-> [s \in SlotIds |-> Unused],
            bytes |-> [k \in Offsets |-> NullByte]]

FreeLower(count) == HeaderSize + count * EntrySize

Directory(p) == {s \in SlotIds : s < p.slot_count}

Live(p) == {s \in Directory(p) : p.slots[s].flags = "occupied"}

(* Offset k belongs to the payload of slot s. *)
Covers(slot, k) == slot.offset <= k /\ k < slot.offset + slot.length

-----------------------------------------------------------------------------
(* validate: the counters agree with the directory, each entry is in a     *)
(* legal state, and the payloads fill the page from free_upper to its end  *)
(* (the code sorts the ranges and finds no gap and no overlap).            *)

EntryValid(slot, upper) ==
    /\ slot \in SlotEntry
    /\ CASE slot.flags = "occupied" ->
              /\ slot.generation # 0 /\ slot.length # 0
              /\ upper <= slot.offset
              /\ slot.offset + slot.length <= PageSize
         [] slot.flags = "retired" ->
              slot.generation = MaxGeneration /\ slot.offset = 0 /\ slot.length = 0
         [] slot.flags = "deleted" ->
              /\ slot.generation \notin {0, MaxGeneration}
              /\ slot.offset = 0 /\ slot.length = 0

PayloadsPacked(p) ==
    \A k \in p.free_upper..PageSize - 1 :
        \E s \in Live(p) :
            /\ Covers(p.slots[s], k)
            /\ \A t \in Live(p) : Covers(p.slots[t], k) => t = s

validate(p) ==
    /\ p.slot_count \in 0..MaxSlots
    /\ p.free_upper \in FreeLower(p.slot_count)..PageSize
    /\ p.live_count = 0 => p.free_upper = PageSize
    /\ \A s \in Directory(p) : EntryValid(p.slots[s], p.free_upper)
    /\ p.live_count = Cardinality(Live(p))
    /\ PayloadsPacked(p)

-----------------------------------------------------------------------------
(* insert *)

Reusable(p) ==
    {s \in Directory(p) : /\ p.slots[s].flags = "deleted"
                          /\ p.slots[s].generation < MaxGeneration}

Reuses(p) == Reusable(p) # {}

(* The slot of the new record: the first reusable one, or else a new one. *)
IsTarget(p, s) ==
    IF Reuses(p) THEN s \in Reusable(p) /\ \A t \in Reusable(p) : s <= t
    ELSE s = p.slot_count

RoomFor(p, n) ==
    n + (IF Reuses(p) THEN 0 ELSE EntrySize) <= p.free_upper - FreeLower(p.slot_count)

(* (mutant) The generation of a reused slot is not advanced. *)
NextGeneration_Same(p, s) == IF Reuses(p) THEN p.slots[s].generation ELSE 1

NextGeneration(p, s) == IF Reuses(p) THEN p.slots[s].generation + 1 ELSE 1

Inserted(p, s, v, n) ==
    LET offset == p.free_upper - n IN
    [slot_count |-> IF Reuses(p) THEN p.slot_count ELSE p.slot_count + 1,
     live_count |-> p.live_count + 1,
     free_upper |-> offset,
     slots |-> [p.slots EXCEPT ![s] =
                    [offset |-> offset, length |-> n,
                     generation |-> NextGeneration(p, s), flags |-> "occupied"]],
     bytes |-> [k \in Offsets |-> IF offset <= k /\ k < p.free_upper
                                  THEN Payload(v, n)[k - offset] ELSE p.bytes[k]]]

-----------------------------------------------------------------------------
(* Compaction, the second half of replace and erase: the payloads of the   *)
(* live slots are laid out in slot order from the end of a fresh page.     *)
(* content is what each of them is to hold.                                *)

(* The cursor after the first i slots. *)
Cursor(slots, content) ==
    LET cursor[i \in 0..MaxSlots] ==
            IF i = 0 THEN PageSize
            ELSE IF (i - 1) \in DOMAIN content
                 THEN cursor[i - 1] - slots[i - 1].length
                 ELSE cursor[i - 1]
    IN  cursor

(* (mutant) The payloads are moved within the old page. *)
Background_Old(p) == p.bytes

(* The bytes of the page the payloads are copied to: initialize's zeroes. *)
Background(p) == [k \in Offsets |-> NullByte]

Moved(slots, content) ==
    [s \in SlotIds |->
        IF s \in DOMAIN content
        THEN [slots[s] EXCEPT !.offset = Cursor(slots, content)[s + 1]]
        ELSE slots[s]]

Compacted(p, slots, live, content) ==
    LET moved == Moved(slots, content)
        holders(k) == {s \in DOMAIN content : Covers(moved[s], k)}
    IN  [slot_count |-> p.slot_count,
         live_count |-> live,
         free_upper |-> Cursor(slots, content)[p.slot_count],
         slots |-> moved,
         bytes |-> [k \in Offsets |->
                      IF holders(k) = {} THEN Background(p)[k]
                      ELSE LET s == CHOOSE s \in holders(k) : TRUE
                           IN  content[s][k - moved[s].offset]]]

(* get: the bytes of the payload of live slot s. *)
Get(p, s) == [i \in 0..p.slots[s].length - 1 |-> p.bytes[p.slots[s].offset + i]]

LiveBytes(p, s) == {k \in Offsets : \E t \in Live(p) \ {s} : Covers(p.slots[t], k)}

(* replace counts the other payloads, then the new one. *)
RoomToReplace(p, s, n) ==
    n + Cardinality(LiveBytes(p, s)) <= PageSize - FreeLower(p.slot_count)

Replaced(p, s, v, n) ==
    Compacted(p, [p.slots EXCEPT ![s].length = n], p.live_count,
              [t \in Live(p) |-> IF t = s THEN Payload(v, n) ELSE Get(p, t)])

(* (mutant) A slot at the last generation is not retired. *)
FlagsAfterErase_NeverRetired(slot) == "deleted"

FlagsAfterErase(slot) ==
    IF slot.generation = MaxGeneration THEN "retired" ELSE "deleted"

Erased(p, s) ==
    Compacted(p,
              [p.slots EXCEPT ![s] = [offset |-> 0, length |-> 0,
                                      generation |-> p.slots[s].generation,
                                      flags |-> FlagsAfterErase(p.slots[s])]],
              p.live_count - 1,
              [t \in Live(p) \ {s} |-> Get(p, t)])

-----------------------------------------------------------------------------
(* Record ids. *)

GenRange == MaxGeneration + 1

(* Generation and slot have fixed widths below the page. *)
encode(id, s, g) == (id * GenRange + g) * SlotRange + s

SlotOf(rid) == rid % SlotRange

GenerationOf(rid) == (rid \div SlotRange) % GenRange

PageOf(rid) == (rid \div SlotRange) \div GenRange

(* The ids of this page and of its neighbours, the invalid ones included. *)
Rids == 0..encode(PageId + 1, 0, 0)

(* decode, the comparison of the page, and invalid_handle. *)
Identifies(rid, p) ==
    /\ PageOf(rid) = PageId
    /\ GenerationOf(rid) # 0
    /\ SlotOf(rid) \in Directory(p)
    /\ p.slots[SlotOf(rid)].flags = "occupied"
    /\ p.slots[SlotOf(rid)].generation = GenerationOf(rid)

-----------------------------------------------------------------------------

insert_record(v, n) ==
    /\ validate(page)
    /\ RoomFor(page, n)
    /\ \E s \in SlotIds :
        /\ IsTarget(page, s)
        /\ validate(Inserted(page, s, v, n))
        /\ page' = Inserted(page, s, v, n)

replace_record(rid, v, n) ==
    /\ validate(page)
    /\ Identifies(rid, page)
    /\ RoomToReplace(page, SlotOf(rid), n)
    /\ validate(Replaced(page, SlotOf(rid), v, n))
    /\ page' = Replaced(page, SlotOf(rid), v, n)

erase_record(rid) ==
    /\ validate(page)
    /\ Identifies(rid, page)
    /\ validate(Erased(page, SlotOf(rid)))
    /\ page' = Erased(page, SlotOf(rid))

Next ==
    \/ \E v \in Data, n \in 1..MaxPayload :
            \/ insert_record(v, n)
            \/ \E rid \in Rids : replace_record(rid, v, n)
    \/ \E rid \in Rids : erase_record(rid)

Spec == Init /\ [][Next]_page

-----------------------------------------------------------------------------

(* The validation at the end of insert, replace and erase never fails:     *)
(* what passed the checks at the start can be done, at the limits of the   *)
(* page, of the directory and of the generations too.                      *)
FinalChecksPass ==
    /\ validate(page)
    /\ \A v \in Data, n \in 1..MaxPayload :
        /\ \A s \in SlotIds :
            IsTarget(page, s) /\ RoomFor(page, n) => validate(Inserted(page, s, v, n))
        /\ \A s \in Live(page) :
            RoomToReplace(page, s, n) => validate(Replaced(page, s, v, n))
    /\ \A s \in Live(page) : validate(Erased(page, s))

(* Nothing of an erased or replaced record stays behind in the page: every *)
(* byte that belongs to no record is zero.                                 *)
NoResidue ==
    \A k \in Offsets : k < page.free_upper => page.bytes[k] = NullByte

(* The record ids of live records, and what reading them returns. *)
RidOf(p, s) == encode(PageId, s, p.slots[s].generation)

LiveRids(p) == {RidOf(p, s) : s \in Live(p)}

Records(p) == [r \in LiveRids(p) |-> Get(p, SlotOf(r))]

(* The ids of this page that a slot has had up to now. *)
UsedRids(p) ==
    {r \in Rids : /\ PageOf(r) = PageId
                  /\ SlotOf(r) \in SlotIds
                  /\ GenerationOf(r) \in 1..p.slots[SlotOf(r)].generation}

Store == INSTANCE RecordStore WITH
    Rids <- Rids,
    Payloads <- {Payload(v, n) : v \in Data, n \in 1..MaxPayload},
    records <- Records(page),
    used <- UsedRids(page)

(* Seen through record ids, insert_record, replace_record and erase_record *)
(* are those of RecordStore: moving payloads around changes no other       *)
(* record, an old id never finds a new record, and no id is issued twice.  *)
ImplementsRecordStore == Store!Spec
=============================================================================
