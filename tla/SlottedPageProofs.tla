-------------------------- MODULE SlottedPageProofs --------------------------
(***************************************************************************)
(* A slotted page implements RecordStore, for pages, entries, generations  *)
(* and payloads of any size, and no operation fails its final validation.  *)
(***************************************************************************)
EXTENDS SlottedPage, FiniteSetTheorems, WellFoundedInduction, TLAPS

(* The inductive invariant: besides what validate says, a directory entry  *)
(* that was never used has generation 0, and the free space is zero.       *)
PageOK(p) ==
    /\ validate(p)
    /\ p.slots \in [SlotIds -> SlotEntry]
    /\ \A s \in SlotIds : s >= p.slot_count => p.slots[s] = Unused
    /\ \A k \in Offsets : k < p.free_upper => p.bytes[k] = NullByte

IInv == PageOK(page)

-----------------------------------------------------------------------------
(* Arithmetic. *)

(* Division undoes the packing of two fields. *)
LEMMA DivMod ==
    ASSUME NEW R \in Nat \ {0}, NEW q \in Nat, NEW s \in 0..R - 1
    PROVE  (q * R + s) % R = s /\ (q * R + s) \div R = q /\ q * R + s \in Nat
  OBVIOUS

(* Packing undoes division. *)
LEMMA DivAlgorithm ==
    ASSUME NEW R \in Nat \ {0}, NEW x \in Nat
    PROVE  x = (x \div R) * R + (x % R) /\ x % R \in 0..R - 1 /\ x \div R \in Nat
  OBVIOUS

(* The constants are positive, and every slot has a SlotId. *)
LEMMA Sizes ==
    /\ PageSize \in Nat \ {0} /\ HeaderSize \in Nat \ {0} /\ EntrySize \in Nat \ {0}
    /\ SlotRange \in Nat \ {0} /\ MaxGeneration \in Nat \ {0} /\ MaxPayload \in Nat \ {0}
    /\ PageId \in Nat \ {0} /\ GenRange \in Nat \ {0}
    /\ MaxSlots \in Nat
    /\ SlotIds \subseteq 0..SlotRange - 1 /\ SlotIds \subseteq Nat
    /\ \A c \in Nat : FreeLower(c) \in Nat
  <1>1. /\ PageSize \in Nat \ {0} /\ HeaderSize \in Nat \ {0} /\ EntrySize \in Nat \ {0}
        /\ SlotRange \in Nat \ {0} /\ MaxGeneration \in Nat \ {0}
        /\ MaxPayload \in Nat \ {0} /\ PageId \in Nat \ {0} /\ HeaderSize <= PageSize
    BY SlottedPageAssumption
  <1>2. MaxSlots \in Nat
    <2>1. PageSize - HeaderSize \in Nat
      BY <1>1
    <2> QED
      BY <1>1, <2>1, DivAlgorithm DEF MaxSlots
  <1>3. MaxSlots <= SlotRange
    BY SlottedPageAssumption DEF MaxSlots
  <1>4. SlotIds \subseteq 0..SlotRange - 1 /\ SlotIds \subseteq Nat
    BY <1>1, <1>2, <1>3 DEF SlotIds
  <1>5. \A c \in Nat : FreeLower(c) \in Nat
    BY <1>1 DEF FreeLower
  <1> QED
    BY <1>1, <1>2, <1>4, <1>5 DEF GenRange

(* decode undoes encode. *)
LEMMA RidFacts ==
    ASSUME NEW s \in SlotIds, NEW g \in 0..MaxGeneration
    PROVE  /\ SlotOf(encode(PageId, s, g)) = s
           /\ GenerationOf(encode(PageId, s, g)) = g
           /\ PageOf(encode(PageId, s, g)) = PageId
           /\ encode(PageId, s, g) \in Rids
  <1> DEFINE q == PageId * GenRange + g
  <1>1. s \in 0..SlotRange - 1 /\ g \in 0..GenRange - 1
    BY Sizes DEF GenRange
  <1>2. q \in Nat /\ q % GenRange = g /\ q \div GenRange = PageId
    BY <1>1, Sizes, DivMod
  <1>3. q * SlotRange + s \in Nat /\ (q * SlotRange + s) % SlotRange = s
        /\ (q * SlotRange + s) \div SlotRange = q
    <2> HIDE DEF q
    <2> QED
      BY <1>1, <1>2, Sizes, DivMod
  <1>4. encode(PageId, s, g) = q * SlotRange + s
    BY DEF encode
  <1>5. encode(PageId, s, g) <= encode(PageId + 1, 0, 0)
    <2> DEFINE top == (PageId + 1) * GenRange
    <2>1. q + 1 <= top /\ top \in Nat
      BY <1>1, <1>2, Sizes
    <2>2. (q + 1) * SlotRange <= top * SlotRange
      <3> HIDE DEF q, top
      <3> QED
        BY <1>2, <2>1, Sizes
    <2>3. q * SlotRange + s <= (q + 1) * SlotRange
      <3> HIDE DEF q
      <3> QED
        BY <1>1, <1>2, Sizes
    <2>4. encode(PageId + 1, 0, 0) = top * SlotRange
      BY <2>1, Sizes DEF encode
    <2>5. top * SlotRange \in Nat /\ (q + 1) * SlotRange \in Nat
      <3> HIDE DEF q, top
      <3> QED
        BY <1>2, <2>1, Sizes
    <2> HIDE DEF q, top
    <2> QED
      BY <1>3, <1>4, <2>2, <2>3, <2>4, <2>5
  <1>6. encode(PageId + 1, 0, 0) \in Nat
    BY Sizes DEF encode
  <1> QED
    BY <1>2, <1>3, <1>4, <1>5, <1>6 DEF SlotOf, GenerationOf, PageOf, Rids

(* An id that names a slot of this page is the encoding of its parts. *)
LEMMA RidBack ==
    ASSUME NEW rid \in Rids, PageOf(rid) = PageId
    PROVE  rid = encode(PageId, SlotOf(rid), GenerationOf(rid))
  <1> DEFINE q == rid \div SlotRange
  <1>0. rid \in Nat
    BY Sizes DEF Rids, encode
  <1>1. rid = q * SlotRange + SlotOf(rid) /\ q \in Nat
    BY <1>0, Sizes, DivAlgorithm DEF SlotOf
  <1>2. q = PageId * GenRange + GenerationOf(rid)
    BY <1>1, Sizes, DivAlgorithm DEF PageOf, GenerationOf
  <1> QED
    BY <1>1, <1>2 DEF encode

-----------------------------------------------------------------------------
(* Slots and payloads. *)

(* The payload of a live slot lies between free_upper and the end. *)
LEMMA LiveFacts ==
    ASSUME NEW p, PageOK(p), NEW s \in Live(p)
    PROVE  /\ s \in SlotIds /\ s < p.slot_count /\ p.slots[s] \in SlotEntry
           /\ p.slots[s].flags = "occupied"
           /\ p.slots[s].generation \in 1..MaxGeneration
           /\ p.slots[s].length \in 1..PageSize
           /\ \A i \in 0..p.slots[s].length - 1 :
                /\ p.slots[s].offset + i \in Offsets
                /\ p.free_upper <= p.slots[s].offset + i
                /\ Covers(p.slots[s], p.slots[s].offset + i)
  <1>1. s \in SlotIds /\ s < p.slot_count /\ s \in Directory(p)
        /\ p.slots[s].flags = "occupied" /\ p.slots[s] \in SlotEntry
    BY DEF Live, Directory, PageOK
  <1>2. EntryValid(p.slots[s], p.free_upper)
    BY <1>1 DEF PageOK, validate
  <1>3. /\ p.slots[s].generation # 0 /\ p.slots[s].length # 0
        /\ p.free_upper <= p.slots[s].offset
        /\ p.slots[s].offset + p.slots[s].length <= PageSize
    BY <1>1, <1>2 DEF EntryValid
  <1>4. p.free_upper \in 0..PageSize
    BY Sizes DEF PageOK, validate
  <1>5. /\ p.slots[s].offset \in 0..PageSize /\ p.slots[s].length \in 0..PageSize
        /\ p.slots[s].generation \in 0..MaxGeneration
    BY <1>1 DEF SlotEntry
  <1> QED
    BY <1>1, <1>3, <1>4, <1>5, Sizes DEF Covers, Offsets

(* A slot behind the directory was never used, and one that holds no       *)
(* record (next_live_slot passes it over) is not marked occupied.          *)
LEMMA SlotsBehind ==
    ASSUME NEW p, PageOK(p)
    PROVE  /\ \A s \in SlotIds \ Directory(p) : p.slots[s] = Unused
           /\ \A s \in SlotIds \ Live(p) : p.slots[s].flags # "occupied"
  <1>1. p.slot_count \in 0..MaxSlots
    BY DEF PageOK, validate
  <1>2. ASSUME NEW s \in SlotIds \ Directory(p)
        PROVE  p.slots[s] = Unused
    <2>1. s >= p.slot_count
      BY <1>1, Sizes DEF Directory
    <2> QED
      BY <2>1 DEF PageOK
  <1>3. ASSUME NEW s \in SlotIds \ Live(p)
        PROVE  p.slots[s].flags # "occupied"
    <2>1. CASE s \in Directory(p)
      BY <2>1 DEF Live
    <2>2. CASE s \notin Directory(p)
      BY <2>2, <1>2 DEF Unused
    <2> QED
      BY <2>1, <2>2
  <1> QED
    BY <1>2, <1>3

(* Live slots and live ids correspond. *)
LEMMA Mapping ==
    ASSUME NEW p, PageOK(p)
    PROVE  /\ \A s \in Live(p) : /\ RidOf(p, s) \in LiveRids(p)
                                 /\ SlotOf(RidOf(p, s)) = s
                                 /\ RidOf(p, s) \in Rids
           /\ \A r \in LiveRids(p) : SlotOf(r) \in Live(p) /\ r = RidOf(p, SlotOf(r))
           /\ \A r \in Rids : Identifies(r, p) => SlotOf(r) \in Live(p) /\ r \in LiveRids(p)
  <1>1. ASSUME NEW s \in Live(p)
        PROVE  RidOf(p, s) \in LiveRids(p) /\ SlotOf(RidOf(p, s)) = s /\ RidOf(p, s) \in Rids
    <2>1. s \in SlotIds /\ p.slots[s].generation \in 0..MaxGeneration
      BY LiveFacts, Sizes
    <2> QED
      BY <2>1, RidFacts DEF RidOf, LiveRids
  <1>2. ASSUME NEW r \in LiveRids(p) PROVE SlotOf(r) \in Live(p) /\ r = RidOf(p, SlotOf(r))
    <2>1. PICK s \in Live(p) : r = RidOf(p, s)
      BY DEF LiveRids
    <2> QED
      BY <2>1, <1>1
  <1>3. ASSUME NEW r \in Rids, Identifies(r, p)
        PROVE  SlotOf(r) \in Live(p) /\ r \in LiveRids(p)
    <2>1. SlotOf(r) \in Live(p)
      BY <1>3 DEF Identifies, Live
    <2>2. r = RidOf(p, SlotOf(r))
      BY <1>3, RidBack DEF Identifies, RidOf
    <2> QED
      BY <2>1, <2>2 DEF LiveRids
  <1> QED
    BY <1>1, <1>2, <1>3

-----------------------------------------------------------------------------
(* insert *)

(* The slot that insert takes is not live, and its generation grows. *)
LEMMA TargetFacts ==
    ASSUME NEW p, PageOK(p), NEW s \in SlotIds, IsTarget(p, s)
    PROVE  /\ s \notin Live(p)
           /\ p.slots[s].generation + 1 \in 1..MaxGeneration
           /\ NextGeneration(p, s) = p.slots[s].generation + 1
           /\ s <= p.slot_count
           /\ Reuses(p) => s < p.slot_count
           /\ ~Reuses(p) => s = p.slot_count
  <1>1. CASE Reuses(p)
    <2>1. /\ s < p.slot_count /\ p.slots[s].flags = "deleted"
          /\ p.slots[s].generation < MaxGeneration
      BY <1>1 DEF IsTarget, Reusable, Directory
    <2>2. p.slots[s].generation \in 0..MaxGeneration /\ p.slot_count \in Nat
      BY Sizes DEF PageOK, SlotEntry, validate
    <2> QED
      BY <1>1, <2>1, <2>2, Sizes DEF NextGeneration, Live
  <1>2. CASE ~Reuses(p)
    <2>1. s = p.slot_count /\ s \in Nat
      BY <1>2, Sizes DEF IsTarget
    <2>2. p.slots[s] = Unused
      BY <2>1 DEF PageOK
    <2> QED
      BY <1>2, <2>1, <2>2, Sizes DEF NextGeneration, Live, Directory, Unused
  <1> QED
    BY <1>1, <1>2

(* insert_record is Insert of an id that was never used. *)
LEMMA InsertStep ==
    ASSUME PageOK(page), NEW v \in Data, NEW n \in 1..MaxPayload, insert_record(v, n)
    PROVE  /\ PageOK(page')
           /\ \E r \in Rids : Store!Insert(r, Payload(v, n))
  <1> PICK s \in SlotIds : /\ IsTarget(page, s)
                           /\ validate(Inserted(page, s, v, n))
                           /\ page' = Inserted(page, s, v, n)
    BY DEF insert_record
  <1> DEFINE offset == page.free_upper - n
             entry == [offset |-> offset, length |-> n,
                       generation |-> page.slots[s].generation + 1, flags |-> "occupied"]
             r == RidOf(page', s)
  <1>1. /\ s \notin Live(page)
        /\ page.slots[s].generation + 1 \in 1..MaxGeneration
        /\ NextGeneration(page, s) = page.slots[s].generation + 1
        /\ s <= page.slot_count
        /\ Reuses(page) => s < page.slot_count
        /\ ~Reuses(page) => s = page.slot_count
    BY TargetFacts
  <1>2. /\ page'.slots = [page.slots EXCEPT ![s] = entry]
        /\ page'.free_upper = offset
        /\ page'.bytes = [k \in Offsets |-> IF offset <= k /\ k < page.free_upper
                                  THEN Payload(v, n)[k - offset] ELSE page.bytes[k]]
        /\ page'.slot_count = IF Reuses(page) THEN page.slot_count ELSE page.slot_count + 1
    BY <1>1 DEF Inserted
  <1>3. /\ page'.slots[s] = entry
        /\ \A t \in SlotIds \ {s} : page'.slots[t] = page.slots[t]
        /\ page.slot_count \in Nat /\ page.free_upper \in 0..PageSize
        /\ n \in Nat /\ n > 0
    BY <1>2, Sizes DEF PageOK, validate
  <1>4. Directory(page') = Directory(page) \cup {s}
    BY <1>1, <1>2, <1>3, Sizes DEF Directory, SlotIds
  <1>5. Live(page') = Live(page) \cup {s}
    <2>1. Live(page) \subseteq SlotIds \ {s}
      BY <1>1 DEF Live, Directory
    <2> QED
      BY <1>3, <1>4, <2>1 DEF Live, Directory
  <1>6. PageOK(page')
    <2>1. s \in Directory(page')
      BY <1>4
    <2>2. EntryValid(entry, page'.free_upper)
      BY <1>3, <2>1 DEF validate
    <2>3. entry \in SlotEntry
      BY <2>2 DEF EntryValid
    <2>4. page'.slots \in [SlotIds -> SlotEntry]
      BY <1>2, <2>3 DEF PageOK
    <2>5. \A t \in SlotIds : t >= page'.slot_count => page'.slots[t] = Unused
      <3> SUFFICES ASSUME NEW t \in SlotIds, t >= page'.slot_count
                   PROVE  page'.slots[t] = Unused
        OBVIOUS
      <3>1. t # s /\ t >= page.slot_count
        BY <1>1, <1>2, <1>3, Sizes
      <3> QED
        BY <3>1, <1>3 DEF PageOK
    <2>6. \A k \in Offsets : k < page'.free_upper => page'.bytes[k] = NullByte
      <3> SUFFICES ASSUME NEW k \in Offsets, k < offset PROVE page'.bytes[k] = NullByte
        BY <1>2
      <3>1. ~(offset <= k) /\ k < page.free_upper
        BY <1>3, Sizes DEF Offsets
      <3> QED
        BY <3>1, <1>2 DEF PageOK
    <2> QED
      BY <2>4, <2>5, <2>6 DEF PageOK
  <1>7. \A t \in Live(page) : Get(page', t) = Get(page, t)
    <2> SUFFICES ASSUME NEW t \in Live(page) PROVE Get(page', t) = Get(page, t)
      OBVIOUS
    <2>1. page'.slots[t] = page.slots[t]
      BY <1>1, <1>3, LiveFacts
    <2>2. \A i \in 0..page.slots[t].length - 1 :
            /\ page.slots[t].offset + i \in Offsets
            /\ page.free_upper <= page.slots[t].offset + i
      BY LiveFacts
    <2>3. \A i \in 0..page.slots[t].length - 1 :
            page'.bytes[page.slots[t].offset + i] = page.bytes[page.slots[t].offset + i]
      BY <1>2, <1>3, <2>2 DEF Offsets
    <2> QED
      BY <2>1, <2>3 DEF Get
  <1>8. Get(page', s) = Payload(v, n)
    <2>1. s \in Live(page')
      BY <1>5
    <2>2. \A i \in 0..n - 1 : offset + i \in Offsets
      BY <2>1, <1>3, <1>6, LiveFacts
    <2>3. \A i \in 0..n - 1 : page'.bytes[offset + i] = Payload(v, n)[i]
      <3> TAKE i \in 0..n - 1
      <3>1. /\ offset <= offset + i /\ offset + i < page.free_upper
            /\ (offset + i) - offset = i
        BY <1>3
      <3> QED
        BY <3>1, <2>2, <1>2
    <2>4. Get(page', s) = [i \in 0..n - 1 |-> page'.bytes[offset + i]]
      BY <1>3 DEF Get
    <2> QED
      BY <2>3, <2>4 DEF Payload
  <1>9. /\ r \in Rids /\ SlotOf(r) = s /\ PageOf(r) = PageId
        /\ GenerationOf(r) = page.slots[s].generation + 1
    <2>1. page.slots[s].generation + 1 \in 0..MaxGeneration
      BY <1>1, Sizes
    <2> QED
      BY <1>3, <2>1, RidFacts DEF RidOf
  <1>10. /\ \A t \in Live(page) : RidOf(page', t) = RidOf(page, t)
         /\ LiveRids(page') = LiveRids(page) \cup {r}
    <2>1. \A t \in Live(page) : RidOf(page', t) = RidOf(page, t)
      BY <1>1, <1>3, LiveFacts DEF RidOf
    <2> QED
      BY <1>5, <2>1 DEF LiveRids
  <1>11. r \notin UsedRids(page)
    BY <1>1, <1>9 DEF UsedRids, PageOK, SlotEntry
  <1>12. UsedRids(page') = UsedRids(page) \cup {r}
    <2>0. page.slots[s].generation \in Nat
      BY DEF PageOK, SlotEntry
    <2>1. ASSUME NEW x \in Rids, PageOf(x) = PageId, SlotOf(x) \in SlotIds
          PROVE  GenerationOf(x) \in 1..page'.slots[SlotOf(x)].generation
                    <=> \/ GenerationOf(x) \in 1..page.slots[SlotOf(x)].generation
                        \/ x = r
      <3>1. CASE SlotOf(x) # s
        BY <3>1, <2>1, <1>3, <1>9
      <3>2. CASE SlotOf(x) = s
        <4>1. GenerationOf(x) = page.slots[s].generation + 1 => x = r
          BY <3>2, <2>1, <1>9, RidBack
        <4>2. GenerationOf(x) \in Nat
          BY <2>1, Sizes, DivAlgorithm DEF GenerationOf, Rids, encode
        <4> QED
          BY <3>2, <4>1, <4>2, <2>0, <1>3, <1>9
      <3> QED
        BY <3>1, <3>2
    <2> QED
      BY <2>1, <1>9 DEF UsedRids
  <1>13. Records(page') = [x \in LiveRids(page) \cup {r} |->
                             IF x = r THEN Payload(v, n) ELSE Records(page)[x]]
    <2>1. ASSUME NEW x \in LiveRids(page), x # r
          PROVE  Get(page', SlotOf(x)) = Records(page)[x]
      <3>1. SlotOf(x) \in Live(page)
        BY Mapping
      <3> QED
        BY <3>1, <1>7 DEF Records
    <2> QED
      BY <2>1, <1>8, <1>9, <1>10 DEF Records
  <1>14. DOMAIN Records(page) = LiveRids(page)
    BY DEF Records
  <1> QED
    BY <1>6, <1>9, <1>11, <1>12, <1>13, <1>14 DEF Store!Insert

-----------------------------------------------------------------------------
(* Compaction *)

Entry == [offset : 0..PageSize, length : Nat, generation : 0..MaxGeneration, flags : Flags]

(* If the compacted page is valid, each slot of content holds its content  *)
(* (the payloads do not overlap), and all generations are kept.            *)
LEMMA Compaction ==
    ASSUME PageOK(page), NEW slots \in [SlotIds -> Entry], NEW live, NEW content,
           page' = Compacted(page, slots, live, content),
           validate(page'),
           DOMAIN content \subseteq Directory(page),
           \A s \in DOMAIN content :
                /\ slots[s].flags = "occupied"
                /\ content[s] = [i \in 0..slots[s].length - 1 |-> content[s][i]],
           \A s \in SlotIds \ DOMAIN content :
                slots[s] \in SlotEntry /\ slots[s].flags # "occupied",
           \A s \in SlotIds \ Directory(page) : slots[s] = Unused,
           \A s \in SlotIds : slots[s].generation = page.slots[s].generation
    PROVE  /\ PageOK(page')
           /\ Live(page') = DOMAIN content
           /\ \A s \in SlotIds : page'.slots[s].generation = page.slots[s].generation
           /\ \A s \in DOMAIN content : Get(page', s) = content[s]
  <1> DEFINE moved == Moved(slots, content)
             holders(k) == {s \in DOMAIN content : Covers(moved[s], k)}
  <1>1. /\ page'.slot_count = page.slot_count
        /\ page'.slots = moved
        /\ page'.bytes = [k \in Offsets |->
                      IF holders(k) = {} THEN Background(page)[k]
                      ELSE LET s == CHOOSE s \in holders(k) : TRUE
                           IN  content[s][k - moved[s].offset]]
    BY DEF Compacted
  <1>2. Directory(page') = Directory(page) /\ DOMAIN content \subseteq SlotIds
    BY <1>1 DEF Directory
  <1>3. \A s \in SlotIds \ DOMAIN content : moved[s] = slots[s]
    BY DEF Moved
  <1>4. \A s \in DOMAIN content : /\ moved[s].flags = "occupied"
                                  /\ moved[s].length = slots[s].length
                                  /\ moved[s].generation = slots[s].generation
    BY <1>2 DEF Moved, Entry
  <1> HIDE DEF moved
  <1>5. Live(page') = DOMAIN content
    <2>1. Live(page') = {s \in Directory(page) : moved[s].flags = "occupied"}
      BY <1>1, <1>2 DEF Live
    <2>2. \A s \in Directory(page) : moved[s].flags = "occupied" <=> s \in DOMAIN content
      BY <1>3, <1>4 DEF Directory
    <2> QED
      BY <2>1, <2>2
  <1>6. \A s \in SlotIds : page'.slots[s].generation = page.slots[s].generation
    <2> SUFFICES ASSUME NEW s \in SlotIds
                 PROVE  moved[s].generation = slots[s].generation
      BY <1>1
    <2> QED
      BY <1>3, <1>4
  <1>7. \A s \in DOMAIN content : moved[s] \in SlotEntry /\ page'.free_upper <= moved[s].offset
    BY <1>1, <1>2, <1>4 DEF validate, EntryValid
  <1>8. moved \in [SlotIds -> SlotEntry]
    BY <1>3, <1>7 DEF moved, Moved
  <1>9. \A s \in SlotIds : s >= page'.slot_count => page'.slots[s] = Unused
    <2> SUFFICES ASSUME NEW s \in SlotIds, s >= page.slot_count PROVE moved[s] = Unused
      BY <1>1
    <2>1. s \notin Directory(page)
      BY Sizes DEF Directory, PageOK, validate
    <2> QED
      BY <2>1, <1>3
  <1>10. \A k \in Offsets : k < page'.free_upper => page'.bytes[k] = NullByte
    <2> SUFFICES ASSUME NEW k \in Offsets, k < page'.free_upper
                 PROVE  page'.bytes[k] = NullByte
      OBVIOUS
    <2>1. page'.free_upper \in Int
      BY Sizes DEF validate
    <2>2. holders(k) = {}
      BY <1>7, <2>1 DEF Covers, Offsets, SlotEntry
    <2> QED
      BY <2>2, <1>1 DEF Background
  <1>11. PageOK(page')
    BY <1>1, <1>8, <1>9, <1>10 DEF PageOK
  <1>12. ASSUME NEW s \in DOMAIN content PROVE Get(page', s) = content[s]
    <2>1. ASSUME NEW i \in 0..slots[s].length - 1
          PROVE  page'.bytes[moved[s].offset + i] = content[s][i]
      <3> DEFINE k == moved[s].offset + i
      <3>1. /\ k \in Offsets /\ page'.free_upper <= k /\ Covers(moved[s], k)
            /\ moved[s].offset \in Int
        BY <1>1, <1>4, <1>5, <1>7, <1>11, LiveFacts DEF SlotEntry
      <3>2. k \in page'.free_upper..PageSize - 1
        BY <3>1, Sizes DEF Offsets, validate
      <3>3. \E t \in DOMAIN content : /\ Covers(moved[t], k)
                                      /\ \A u \in DOMAIN content : Covers(moved[u], k) => u = t
        BY <3>2, <1>1, <1>5 DEF validate, PayloadsPacked
      <3>4. holders(k) = {s}
        BY <3>1, <3>3
      <3>5. page'.bytes[k] = content[s][k - moved[s].offset]
        <4> HIDE DEF k
        <4>1. (CHOOSE t \in holders(k) : TRUE) = s
          BY <3>4
        <4> QED
          BY <3>1, <3>4, <4>1, <1>1
      <3> QED
        BY <3>1, <3>5
    <2>2. Get(page', s) = [i \in 0..slots[s].length - 1 |->
                              page'.bytes[moved[s].offset + i]]
      BY <1>1, <1>4 DEF Get
    <2>3. content[s] = [i \in 0..slots[s].length - 1 |-> content[s][i]]
      OBVIOUS
    <2> QED
      BY <2>1, <2>2, <2>3
  <1> QED
    BY <1>5, <1>6, <1>11, <1>12

(* Reading a live slot yields a payload of the slot's length. *)
LEMMA GetShape ==
    ASSUME NEW p, NEW s
    PROVE  Get(p, s) = [i \in 0..p.slots[s].length - 1 |-> Get(p, s)[i]]
  BY DEF Get

(* With the same generations, the ids used up to now are the same. *)
LEMMA SameUsed ==
    ASSUME NEW p, NEW q, \A s \in SlotIds : q.slots[s].generation = p.slots[s].generation
    PROVE  UsedRids(q) = UsedRids(p) /\ \A s \in SlotIds : RidOf(q, s) = RidOf(p, s)
  BY DEF UsedRids, RidOf

(* replace_record is Replace of the record that its id names. *)
LEMMA ReplaceStep ==
    ASSUME PageOK(page), NEW rid \in Rids, NEW v \in Data, NEW n \in 1..MaxPayload,
           replace_record(rid, v, n)
    PROVE  PageOK(page') /\ Store!Replace(rid, Payload(v, n))
  <1> DEFINE s == SlotOf(rid)
             slots == [page.slots EXCEPT ![s].length = n]
             content == [t \in Live(page) |-> IF t = s THEN Payload(v, n) ELSE Get(page, t)]
  <1>1. /\ Identifies(rid, page)
        /\ page' = Compacted(page, slots, page.live_count, content)
        /\ validate(page')
    BY DEF replace_record, Replaced
  <1>2. s \in Live(page) /\ rid \in LiveRids(page)
    BY <1>1, Mapping
  <1>3. /\ Live(page) \subseteq Directory(page) /\ Directory(page) \subseteq SlotIds
        /\ DOMAIN content = Live(page)
    BY DEF Live, Directory
  <1>4. slots \in [SlotIds -> Entry]
    <2>1. page.slots \in [SlotIds -> Entry]
      BY Sizes DEF PageOK, SlotEntry, Entry
    <2>2. [page.slots[s] EXCEPT !.length = n] \in Entry
      BY <2>1, <1>2, <1>3, Sizes DEF Entry
    <2> QED
      BY <2>1, <2>2
  <1>5. /\ \A t \in SlotIds \ {s} : slots[t] = page.slots[t]
        /\ slots[s].length = n /\ slots[s].flags = page.slots[s].flags
        /\ slots[s].generation = page.slots[s].generation
    BY <1>2, <1>3 DEF PageOK, SlotEntry
  <1>6. ASSUME NEW t \in Live(page)
        PROVE  /\ slots[t].flags = "occupied"
               /\ content[t] = [i \in 0..slots[t].length - 1 |-> content[t][i]]
    <2>1. slots[t].flags = "occupied"
      BY <1>3, <1>5 DEF Live
    <2>2. CASE t = s
      BY <2>1, <2>2, <1>5 DEF Payload
    <2>3. CASE t # s
      BY <2>1, <2>3, <1>3, <1>5, GetShape
    <2> QED
      BY <2>2, <2>3
  <1>7. \A t \in SlotIds \ Live(page) : slots[t] \in SlotEntry /\ slots[t].flags # "occupied"
    <2> SUFFICES ASSUME NEW t \in SlotIds \ Live(page)
                 PROVE  page.slots[t] \in SlotEntry /\ page.slots[t].flags # "occupied"
      BY <1>2, <1>5
    <2> QED
      BY SlotsBehind DEF PageOK
  <1>8. \A t \in SlotIds \ Directory(page) : slots[t] = Unused
    BY <1>2, <1>3, <1>5, SlotsBehind
  <1>9. \A t \in SlotIds : slots[t].generation = page.slots[t].generation
    BY <1>5
  <1>10. /\ PageOK(page')
         /\ Live(page') = Live(page)
         /\ \A t \in SlotIds : page'.slots[t].generation = page.slots[t].generation
         /\ \A t \in Live(page) : Get(page', t) = content[t]
    <2> HIDE DEF slots, content
    <2> QED
      BY <1>1, <1>3, <1>4, <1>6, <1>7, <1>8, <1>9, Compaction
  <1>11. UsedRids(page') = UsedRids(page) /\ LiveRids(page') = LiveRids(page)
    <2>1. UsedRids(page') = UsedRids(page)
          /\ \A t \in SlotIds : RidOf(page', t) = RidOf(page, t)
      BY <1>10, SameUsed
    <2> QED
      BY <2>1, <1>3, <1>10 DEF LiveRids
  <1>12. Records(page') = [Records(page) EXCEPT ![rid] = Payload(v, n)]
    <2>1. ASSUME NEW x \in LiveRids(page)
          PROVE  Get(page', SlotOf(x)) =
                    IF x = rid THEN Payload(v, n) ELSE Get(page, SlotOf(x))
      <3>1. SlotOf(x) \in Live(page) /\ x = RidOf(page, SlotOf(x)) /\ rid = RidOf(page, s)
        BY <1>2, Mapping
      <3> QED
        BY <3>1, <1>10
    <2> QED
      BY <2>1, <1>2, <1>11 DEF Records
  <1> QED
    BY <1>2, <1>10, <1>11, <1>12 DEF Store!Replace, Records

(* erase_record is Erase of the record that its id names. *)
LEMMA EraseStep ==
    ASSUME PageOK(page), NEW rid \in Rids, erase_record(rid)
    PROVE  PageOK(page') /\ Store!Erase(rid)
  <1> DEFINE s == SlotOf(rid)
             entry == [offset |-> 0, length |-> 0,
                       generation |-> page.slots[s].generation,
                       flags |-> FlagsAfterErase(page.slots[s])]
             slots == [page.slots EXCEPT ![s] = entry]
             content == [t \in Live(page) \ {s} |-> Get(page, t)]
  <1>1. /\ Identifies(rid, page)
        /\ page' = Compacted(page, slots, page.live_count - 1, content)
        /\ validate(page')
    BY DEF erase_record, Erased
  <1>2. s \in Live(page) /\ rid \in LiveRids(page)
    BY <1>1, Mapping
  <1>3. /\ Live(page) \subseteq Directory(page) /\ Directory(page) \subseteq SlotIds
        /\ DOMAIN content = Live(page) \ {s}
    BY DEF Live, Directory
  <1>4. /\ entry \in SlotEntry /\ entry.flags # "occupied"
        /\ entry.generation = page.slots[s].generation
    <2>1. page.slots[s] \in SlotEntry
      BY <1>2, <1>3 DEF PageOK
    <2>2. FlagsAfterErase(page.slots[s]) \in Flags \ {"occupied"}
      BY DEF FlagsAfterErase, Flags
    <2> QED
      BY <2>1, <2>2, Sizes DEF SlotEntry
  <1>5. \A t \in SlotIds \ {s} : slots[t] = page.slots[t]
    BY DEF PageOK
  <1>6. slots[s] = entry
    BY <1>2, <1>3 DEF PageOK
  <1>7. slots \in [SlotIds -> SlotEntry] /\ slots \in [SlotIds -> Entry]
    <2>1. SlotEntry \subseteq Entry
      BY Sizes DEF SlotEntry, Entry
    <2> HIDE DEF entry
    <2> QED
      BY <1>4, <2>1 DEF PageOK
  <1>8. ASSUME NEW t \in Live(page) \ {s}
        PROVE  /\ slots[t].flags = "occupied"
               /\ content[t] = [i \in 0..slots[t].length - 1 |-> content[t][i]]
    <2>1. slots[t] = page.slots[t] /\ page.slots[t].flags = "occupied"
      BY <1>3, <1>5 DEF Live
    <2>2. content[t] = Get(page, t)
      OBVIOUS
    <2> QED
      BY <2>1, <2>2, GetShape
  <1>9. \A t \in SlotIds \ (Live(page) \ {s}) :
            slots[t] \in SlotEntry /\ slots[t].flags # "occupied"
    <2> SUFFICES ASSUME NEW t \in SlotIds \ Live(page)
                 PROVE  page.slots[t].flags # "occupied"
      BY <1>2, <1>4, <1>5, <1>6, <1>7
    <2> QED
      BY SlotsBehind
  <1>10. \A t \in SlotIds \ Directory(page) : slots[t] = Unused
    BY <1>2, <1>3, <1>5, SlotsBehind
  <1>11. \A t \in SlotIds : slots[t].generation = page.slots[t].generation
    BY <1>4, <1>5, <1>6
  <1>12. /\ PageOK(page')
         /\ Live(page') = Live(page) \ {s}
         /\ \A t \in SlotIds : page'.slots[t].generation = page.slots[t].generation
         /\ \A t \in Live(page) \ {s} : Get(page', t) = content[t]
    <2>1. DOMAIN content \subseteq Directory(page)
      BY <1>3
    <2> HIDE DEF slots, content
    <2> QED
      BY <1>1, <1>3, <1>7, <1>8, <1>9, <1>10, <1>11, <2>1, Compaction
  <1>13. UsedRids(page') = UsedRids(page) /\ LiveRids(page') = LiveRids(page) \ {rid}
    <2>1. \A t \in SlotIds : RidOf(page', t) = RidOf(page, t)
      BY <1>12, SameUsed
    <2>2. \A t \in Live(page) : SlotOf(RidOf(page, t)) = t
      BY Mapping
    <2>3. rid = RidOf(page, s)
      BY <1>2, Mapping
    <2> QED
      BY <1>2, <1>3, <1>12, <2>1, <2>2, <2>3, SameUsed DEF LiveRids
  <1>14. Records(page') = [x \in LiveRids(page) \ {rid} |-> Records(page)[x]]
    <2>1. ASSUME NEW x \in LiveRids(page) \ {rid}
          PROVE  Get(page', SlotOf(x)) = Get(page, SlotOf(x))
      <3>1. SlotOf(x) \in Live(page) /\ x = RidOf(page, SlotOf(x)) /\ rid = RidOf(page, s)
        BY <1>2, Mapping
      <3> QED
        BY <3>1, <1>12
    <2> QED
      BY <2>1, <1>13 DEF Records
  <1> QED
    BY <1>2, <1>12, <1>13, <1>14 DEF Store!Erase, Records

-----------------------------------------------------------------------------

(* A page that initialize has set up satisfies the invariant and has no    *)
(* records.                                                                *)
LEMMA InitPage == Init => PageOK(page) /\ Store!Init
  <1> SUFFICES ASSUME Init PROVE PageOK(page) /\ Store!Init
    OBVIOUS
  <1>1. /\ page.slot_count = 0 /\ page.live_count = 0 /\ page.free_upper = PageSize
        /\ page.slots = [s \in SlotIds |-> Unused]
        /\ page.bytes = [k \in Offsets |-> NullByte]
    BY DEF Init
  <1>2. Directory(page) = {} /\ Live(page) = {}
    <2>1. \A s \in SlotIds : ~(s < 0)
      BY Sizes
    <2>2. Directory(page) = {}
      BY <1>1, <2>1 DEF Directory
    <2> QED
      BY <2>2 DEF Live
  <1>3. FreeLower(page.slot_count) <= PageSize /\ FreeLower(page.slot_count) \in Nat
    BY <1>1, Sizes, SlottedPageAssumption DEF FreeLower
  <1>4. validate(page)
    <2>1. Cardinality(Live(page)) = 0
      BY <1>2, FS_EmptySet
    <2>2. page.free_upper..PageSize - 1 = {}
      BY <1>1, Sizes
    <2> QED
      BY <1>1, <1>2, <1>3, <2>1, <2>2, Sizes DEF validate, PayloadsPacked
  <1>5. Unused \in SlotEntry
    BY Sizes DEF Unused, SlotEntry, Flags
  <1>6. PageOK(page)
    BY <1>1, <1>4, <1>5 DEF PageOK
  <1>7. LiveRids(page) = {}
    BY <1>2 DEF LiveRids
  <1>8. Records(page) = [r \in {} |-> {}]
    BY <1>7 DEF Records
  <1>9. UsedRids(page) = {}
    <2> SUFFICES ASSUME NEW r \in Rids, SlotOf(r) \in SlotIds
                 PROVE  GenerationOf(r) \notin 1..page.slots[SlotOf(r)].generation
      BY DEF UsedRids
    <2>1. page.slots[SlotOf(r)].generation = 0
      BY <1>1 DEF Unused
    <2> QED
      BY <2>1
  <1> QED
    BY <1>6, <1>8, <1>9 DEF Store!Init

(* Every step keeps the invariant and is one of RecordStore. *)
LEMMA StepPage ==
    PageOK(page) /\ [Next]_page => PageOK(page') /\ [Store!Next]_(Store!vars)
  <1> SUFFICES ASSUME PageOK(page), [Next]_page
               PROVE  PageOK(page') /\ [Store!Next]_(Store!vars)
    OBVIOUS
  <1>1. CASE UNCHANGED page
    BY <1>1 DEF Store!vars
  <1>2. ASSUME NEW v \in Data, NEW n \in 1..MaxPayload, insert_record(v, n)
        PROVE  PageOK(page') /\ Store!Next
    BY <1>2, InsertStep DEF Store!Next
  <1>3. ASSUME NEW v \in Data, NEW n \in 1..MaxPayload, NEW rid \in Rids,
               replace_record(rid, v, n)
        PROVE  PageOK(page') /\ Store!Next
    BY <1>3, ReplaceStep DEF Store!Next
  <1>4. ASSUME NEW rid \in Rids, erase_record(rid)
        PROVE  PageOK(page') /\ Store!Next
    BY <1>4, EraseStep DEF Store!Next
  <1> QED
    BY <1>1, <1>2, <1>3, <1>4 DEF Next

(* The page that insert, replace and erase leave is always a valid one,    *)
(* and every entry beyond the directory is unused.                         *)
THEOREM Invariance == Spec => []IInv
  <1>1. Init => IInv
    BY InitPage DEF IInv
  <1>2. IInv /\ [Next]_page => IInv'
    BY StepPage DEF IInv
  <1> QED
    BY <1>1, <1>2, PTL DEF Spec

(* The bytes of records that were erased, replaced or moved do not stay    *)
(* in the free space of the page.                                          *)
THEOREM NoResidueEver == Spec => []NoResidue
  <1>1. IInv => NoResidue
    BY DEF IInv, PageOK, NoResidue
  <1> QED
    BY <1>1, Invariance, PTL

(* A slotted page implements RecordStore: no record id is issued twice, an *)
(* id finds its own record or nothing, and no operation changes another    *)
(* record than the one it names.                                           *)
THEOREM PageImplementsRecordStore == Spec => ImplementsRecordStore
  <1>1. Init => Store!Init
    BY InitPage
  <1>2. IInv /\ [Next]_page => [Store!Next]_(Store!vars)
    BY StepPage DEF IInv
  <1> QED
    BY <1>1, <1>2, Invariance, PTL DEF Spec, ImplementsRecordStore, Store!Spec

-----------------------------------------------------------------------------
(* The validation at the end of an operation.  The argument is about the   *)
(* cursor of compaction, a recursive function, by induction on the slots.  *)

(* Induction over the natural numbers, of membership in a set. *)
LEMMA SetInduction ==
    ASSUME NEW S, 0 \in S, \A n \in Nat : n \in S => n + 1 \in S
    PROVE  \A n \in Nat : n \in S
  <1> SUFFICES ASSUME Nat \ S # {} PROVE FALSE
    OBVIOUS
  <1>1. PICK x \in Nat \ S : \A y \in Nat \ S : ~(<<y, x>> \in OpToRel(<, Nat))
    BY NatLessThanWellFounded, WFMin
  <1>2. \A y \in Nat \ S : ~(y < x)
    BY <1>1 DEF OpToRel
  <1>3. x # 0 /\ x - 1 \in Nat /\ x - 1 < x /\ (x - 1) + 1 = x
    OBVIOUS
  <1> QED
    BY <1>2, <1>3

(* One step of the compaction: the cursor g after i slots. *)
Step(slots, content, g, i) ==
    IF i = 0 THEN PageSize
    ELSE IF (i - 1) \in DOMAIN content THEN g[i - 1] - slots[i - 1].length
         ELSE g[i - 1]

(* The recursive definition of the cursor defines it. *)
LEMMA CursorDef ==
    ASSUME NEW slots, NEW content
    PROVE  /\ Cursor(slots, content)[0] = PageSize
           /\ \A j \in 0..MaxSlots - 1 :
                Cursor(slots, content)[j + 1] =
                    IF j \in DOMAIN content
                    THEN Cursor(slots, content)[j] - slots[j].length
                    ELSE Cursor(slots, content)[j]
  <1> DEFINE Defined(n) == \E g : g = [i \in 0..n |-> Step(slots, content, g, i)]
             S == {n \in Nat : Defined(n)}
  <1>1. 0 \in S
    <2> DEFINE g == [i \in 0..0 |-> PageSize]
    <2>1. g = [i \in 0..0 |-> Step(slots, content, g, i)]
      BY DEF Step
    <2> QED
      BY <2>1
  <1>2. ASSUME NEW n \in Nat, n \in S PROVE n + 1 \in S
    <2> PICK g : g = [i \in 0..n |-> Step(slots, content, g, i)]
      BY <1>2
    <2> DEFINE h == [i \in 0..n + 1 |-> Step(slots, content, g, i)]
    <2>1. \A i \in 0..n : h[i] = g[i]
      OBVIOUS
    <2>2. ASSUME NEW i \in 0..n + 1 PROVE Step(slots, content, g, i) = Step(slots, content, h, i)
      <3>1. i # 0 => i - 1 \in 0..n
        OBVIOUS
      <3> QED
        BY <2>1, <3>1 DEF Step
    <2>3. h = [i \in 0..n + 1 |-> Step(slots, content, h, i)]
      BY <2>2
    <2> HIDE DEF h
    <2> QED
      BY <2>3
  <1>3. Defined(MaxSlots)
    <2> HIDE DEF S
    <2>1. MaxSlots \in S
      BY <1>1, <1>2, SetInduction, Sizes
    <2> QED
      BY <2>1 DEF S
  <1>4. Cursor(slots, content) =
            [i \in 0..MaxSlots |-> Step(slots, content, Cursor(slots, content), i)]
    BY <1>3 DEF Cursor, Step
  <1> DEFINE c == Cursor(slots, content)
  <1>5. \A i \in 0..MaxSlots : c[i] = Step(slots, content, c, i)
    <2> HIDE DEF c
    <2>1. c = [i \in 0..MaxSlots |-> Step(slots, content, c, i)]
      BY <1>4 DEF c
    <2> QED
      BY <2>1
  <1> HIDE DEF c
  <1>6. c[0] = PageSize
    BY <1>5, Sizes DEF Step
  <1>7. ASSUME NEW j \in 0..MaxSlots - 1
        PROVE  c[j + 1] = IF j \in DOMAIN content THEN c[j] - slots[j].length ELSE c[j]
    <2>1. j + 1 \in 0..MaxSlots /\ j + 1 # 0 /\ (j + 1) - 1 = j
      BY Sizes
    <2> QED
      BY <1>5, <2>1 DEF Step
  <1> QED
    BY <1>6, <1>7 DEF c

(* The payloads of content have a length. *)
Lengths(slots, content) ==
    /\ DOMAIN content \subseteq SlotIds
    /\ \A t \in DOMAIN content : slots[t].length \in Nat

(* The cursor moves only downward. *)
LEMMA CursorFalls ==
    ASSUME NEW slots, NEW content, Lengths(slots, content)
    PROVE  \A j \in 0..MaxSlots :
                /\ Cursor(slots, content)[j] \in Int
                /\ \A i \in 0..j : Cursor(slots, content)[j] <= Cursor(slots, content)[i]
  <1> DEFINE c == Cursor(slots, content)
             Falls(j) == c[j] \in Int /\ \A i \in 0..j : c[i] \in Int /\ c[j] <= c[i]
             S == {j \in Nat : j <= MaxSlots => Falls(j)}
  <1>0. c[0] = PageSize /\ PageSize \in Int /\ MaxSlots \in Nat
    BY CursorDef, Sizes
  <1> HIDE DEF c
  <1>1. 0 \in S
    BY <1>0
  <1>2. ASSUME NEW j \in Nat, j \in S PROVE j + 1 \in S
    <2> SUFFICES ASSUME j + 1 <= MaxSlots PROVE Falls(j + 1)
      OBVIOUS
    <2>1. Falls(j) /\ j \in 0..MaxSlots - 1 /\ j \in SlotIds
      BY <1>0, <1>2 DEF SlotIds
    <2>2. c[j + 1] = IF j \in DOMAIN content THEN c[j] - slots[j].length ELSE c[j]
      BY <2>1, CursorDef DEF c
    <2>3. c[j + 1] \in Int /\ c[j + 1] <= c[j]
      BY <2>1, <2>2 DEF Lengths
    <2>4. \A i \in 0..j + 1 : i = j + 1 \/ i \in 0..j
      BY <2>1
    <2> QED
      BY <2>1, <2>3, <2>4
  <1>3. \A j \in Nat : j \in S
    <2> HIDE DEF S
    <2> QED
      BY <1>1, <1>2, SetInduction
  <1>4. \A j \in 0..MaxSlots : Falls(j)
    BY <1>0, <1>3
  <1> QED
    BY <1>4 DEF c

(* Each byte above the cursor belongs to a payload already placed. *)
LEMMA CursorPacks ==
    ASSUME NEW slots, NEW content, Lengths(slots, content), NEW count \in 0..MaxSlots,
           NEW k \in Int, Cursor(slots, content)[count] <= k, k < PageSize
    PROVE  \E t \in DOMAIN content :
                /\ t \in 0..count - 1
                /\ Cursor(slots, content)[t + 1] <= k
                /\ k < Cursor(slots, content)[t]
  <1> DEFINE c == Cursor(slots, content)
             Packs(j) == c[j] <= k => \E t \in DOMAIN content :
                            t \in 0..j - 1 /\ c[t + 1] <= k /\ k < c[t]
             S == {j \in Nat : j <= MaxSlots => Packs(j)}
  <1>0. c[0] = PageSize /\ PageSize \in Int /\ MaxSlots \in Nat
        /\ \A j \in 0..MaxSlots : c[j] \in Int
    BY CursorDef, CursorFalls, Sizes
  <1> HIDE DEF c
  <1>1. 0 \in S
    BY <1>0
  <1>2. ASSUME NEW j \in Nat, j \in S PROVE j + 1 \in S
    <2> SUFFICES ASSUME j + 1 <= MaxSlots, c[j + 1] <= k
                 PROVE  \E t \in DOMAIN content : t \in 0..j /\ c[t + 1] <= k /\ k < c[t]
      OBVIOUS
    <2>1. Packs(j) /\ j \in 0..MaxSlots - 1 /\ c[j] \in Int
      BY <1>0, <1>2
    <2>2. c[j + 1] = IF j \in DOMAIN content THEN c[j] - slots[j].length ELSE c[j]
      BY <2>1, CursorDef DEF c
    <2>3. CASE c[j] <= k
      BY <2>1, <2>3
    <2>4. CASE k < c[j]
      BY <2>1, <2>2, <2>4
    <2> QED
      BY <2>1, <2>3, <2>4
  <1>3. \A j \in Nat : j \in S
    <2> HIDE DEF S
    <2> QED
      BY <1>1, <1>2, SetInduction
  <1>4. Packs(count)
    BY <1>0, <1>3
  <1> QED
    BY <1>4 DEF c

(* The bytes of the payloads, except that of slot s, in slots before j. *)
BytesBefore(p, s, j) ==
    {k \in Offsets : \E t \in Live(p) \ {s} : t < j /\ Covers(p.slots[t], k)}

(* Placing the payloads uses as many bytes as they had before (n for the   *)
(* payload that replaces that of slot s).                                  *)
LEMMA CursorCounts ==
    ASSUME NEW p, PageOK(p), NEW s \in Live(p), NEW n \in Nat, NEW slots, NEW content,
           DOMAIN content \subseteq Live(p), Live(p) \ {s} \subseteq DOMAIN content,
           \A t \in DOMAIN content :
                slots[t].length = IF t = s THEN n ELSE p.slots[t].length
    PROVE  Cursor(slots, content)[p.slot_count] =
                PageSize - Cardinality(LiveBytes(p, s))
                         - (IF s \in DOMAIN content THEN n ELSE 0)
  <1> DEFINE c == Cursor(slots, content)
             B(j) == BytesBefore(p, s, j)
             Extra(j) == IF s \in DOMAIN content /\ s < j THEN n ELSE 0
             Counts(j) == c[j] = PageSize - Cardinality(B(j)) - Extra(j)
             S == {j \in Nat : j <= MaxSlots => Counts(j)}
  <1>0. c[0] = PageSize /\ PageSize \in Nat /\ MaxSlots \in Nat /\ SlotIds \subseteq Nat
    BY CursorDef, Sizes
  <1>1. Live(p) \subseteq SlotIds /\ p.slot_count \in 0..MaxSlots
        /\ \A t \in Live(p) : t < p.slot_count
    BY LiveFacts DEF PageOK, validate
  <1>2. \A j \in Nat : IsFiniteSet(B(j)) /\ Cardinality(B(j)) \in Nat
    <2>1. IsFiniteSet(Offsets)
      BY <1>0, FS_Interval DEF Offsets
    <2>2. \A j \in Nat : B(j) \in SUBSET Offsets
      BY DEF BytesBefore
    <2> QED
      BY <2>1, <2>2, FS_Subset, FS_CardinalityType
  <1> HIDE DEF c
  <1>3. 0 \in S
    <2>0. \A t \in Live(p) : ~(t < 0)
      <3>1. Live(p) \subseteq Nat
        BY <1>0, <1>1
      <3> QED
        BY <3>1
    <2>1. B(0) = {}
      BY <2>0 DEF BytesBefore
    <2>2. Extra(0) = 0
      BY <2>0
    <2>3. Cardinality(B(0)) = 0
      BY <2>1, FS_EmptySet
    <2> HIDE DEF B, Extra
    <2> QED
      BY <1>0, <2>2, <2>3
  <1>4. ASSUME NEW j \in Nat, j \in S PROVE j + 1 \in S
    <2> SUFFICES ASSUME j + 1 <= MaxSlots PROVE Counts(j + 1)
      OBVIOUS
    <2>1. Counts(j) /\ j \in 0..MaxSlots - 1 /\ j \in SlotIds
      BY <1>0, <1>4 DEF SlotIds
    <2>2. c[j + 1] = IF j \in DOMAIN content THEN c[j] - slots[j].length ELSE c[j]
      BY <2>1, CursorDef DEF c
    <2>3. \A t \in SlotIds : t < j + 1 <=> t < j \/ t = j
      BY <1>0
    <2>4. CASE j \in Live(p) \ {s}
      <3> DEFINE lo == p.slots[j].offset
                 len == p.slots[j].length
                 I == lo..lo + len - 1
      <3>1. /\ lo \in Nat /\ len \in Nat /\ lo + len <= PageSize /\ len # 0
            /\ p.free_upper <= lo /\ p.free_upper \in Nat
        <4>1. j \in Directory(p) /\ p.slots[j].flags = "occupied"
          BY <2>4 DEF Live
        <4>2. EntryValid(p.slots[j], p.free_upper)
          BY <4>1 DEF PageOK, validate
        <4> QED
          BY <4>1, <4>2, Sizes DEF EntryValid, SlotEntry, PageOK, validate
      <3>2. \A k \in Offsets : Covers(p.slots[j], k) <=> k \in I
        BY <3>1, <1>0 DEF Covers, Offsets
      <3>3. I \subseteq Offsets /\ I \subseteq p.free_upper..PageSize - 1
        BY <3>1, <1>0 DEF Offsets
      <3>4. B(j + 1) = B(j) \cup I
        BY <1>1, <2>3, <2>4, <3>2, <3>3 DEF BytesBefore
      <3>5. B(j) \cap I = {}
        <4> SUFFICES ASSUME NEW k \in B(j), k \in I PROVE FALSE
          OBVIOUS
        <4>1. PICK t \in Live(p) : t < j /\ Covers(p.slots[t], k)
          BY DEF BytesBefore
        <4>2. t = j
          BY <2>4, <3>2, <3>3, <4>1 DEF PageOK, validate, PayloadsPacked
        <4> QED
          BY <4>1, <4>2
      <3>6. IsFiniteSet(I) /\ Cardinality(I) = len
        <4> HIDE DEF lo, len
        <4>1. lo \in Int /\ lo + len - 1 \in Int /\ ~(lo > lo + len - 1)
              /\ (lo + len - 1) - lo + 1 = len
          BY <3>1
        <4> QED
          BY <4>1, FS_Interval
      <3> HIDE DEF I
      <3>7. Cardinality(B(j + 1)) = Cardinality(B(j)) + len
        <4>1. Cardinality(B(j) \cup I) =
                Cardinality(B(j)) + Cardinality(I) - Cardinality(B(j) \cap I)
          BY <1>2, <3>6, FS_Union
        <4>2. Cardinality(B(j) \cap I) = 0
          BY <3>5, FS_EmptySet
        <4>3. Cardinality(B(j)) \in Nat
          BY <1>2
        <4>4. Cardinality(B(j + 1)) = Cardinality(B(j) \cup I)
          BY <3>4, Zenon
        <4> HIDE DEF B, len
        <4> QED
          BY <3>1, <3>6, <4>1, <4>2, <4>3, <4>4
      <3>8. Extra(j + 1) = Extra(j) /\ Extra(j) \in Int
        <4>1. s < j + 1 <=> s < j
          BY <1>1, <2>3, <2>4
        <4> QED
          BY <4>1
      <3>9. c[j + 1] = c[j] - len
        BY <2>2, <2>4
      <3> HIDE DEF B, Extra, len
      <3> QED
        BY <1>0, <1>2, <2>1, <3>1, <3>7, <3>8, <3>9 DEF len
    <2>5. CASE j \notin Live(p) \ {s}
      <3>1. B(j + 1) = B(j)
        BY <1>1, <2>3, <2>5 DEF BytesBefore
      <3>2. CASE j = s /\ s \in DOMAIN content
        <4>1. Extra(j) = 0 /\ Extra(j + 1) = n /\ c[j + 1] = c[j] - n
          BY <1>0, <1>1, <2>2, <3>2
        <4> HIDE DEF B, Extra
        <4> QED
          BY <1>0, <1>2, <2>1, <3>1, <4>1
      <3>3. CASE ~(j = s /\ s \in DOMAIN content)
        <4>1. Extra(j + 1) = Extra(j) /\ c[j + 1] = c[j]
          BY <1>0, <1>1, <2>2, <2>3, <2>5, <3>3
        <4> HIDE DEF B, Extra
        <4> QED
          BY <2>1, <3>1, <4>1
      <3> QED
        BY <3>2, <3>3
    <2> QED
      BY <2>4, <2>5
  <1>5. \A j \in Nat : j \in S
    <2> HIDE DEF S
    <2> QED
      BY <1>3, <1>4, SetInduction
  <1>6. Counts(p.slot_count)
    BY <1>0, <1>1, <1>5
  <1>7. B(p.slot_count) = LiveBytes(p, s) /\ s < p.slot_count
    BY <1>1 DEF BytesBefore, LiveBytes
  <1> QED
    BY <1>6, <1>7 DEF c

(* A page that compaction has laid out is valid, if its payloads fit.      *)
LEMMA CompactionValid ==
    ASSUME NEW p, PageOK(p), NEW slots \in [SlotIds -> Entry], NEW live, NEW content,
           DOMAIN content \subseteq Directory(p),
           \A s \in DOMAIN content :
                /\ slots[s].flags = "occupied"
                /\ slots[s].generation # 0 /\ slots[s].length # 0,
           \A s \in Directory(p) \ DOMAIN content :
                slots[s].flags # "occupied" /\ \A u \in Nat : EntryValid(slots[s], u),
           live = Cardinality(DOMAIN content),
           FreeLower(p.slot_count) <= Cursor(slots, content)[p.slot_count]
    PROVE  validate(Compacted(p, slots, live, content))
  <1> DEFINE c == Cursor(slots, content)
             q == Compacted(p, slots, live, content)
             upper == c[p.slot_count]
             D == DOMAIN content
  <1>1. /\ q.slot_count = p.slot_count /\ q.live_count = live /\ q.free_upper = upper
        /\ q.slots = Moved(slots, content)
    BY DEF Compacted
  <1>2. /\ p.slot_count \in 0..MaxSlots /\ PageSize \in Nat /\ MaxSlots \in Nat
        /\ SlotIds \subseteq Nat /\ FreeLower(p.slot_count) \in Nat
        /\ SlotIds = 0..MaxSlots - 1
    BY Sizes DEF PageOK, validate, SlotIds
  <1>3. D \subseteq SlotIds /\ \A t \in D : t \in 0..p.slot_count - 1
    BY <1>2 DEF Directory
  <1>4. Lengths(slots, content)
    BY <1>3 DEF Lengths, Entry
  <1>5. /\ c[0] = PageSize
        /\ \A t \in D : c[t + 1] = c[t] - slots[t].length
    BY <1>2, <1>3, CursorDef
  <1>6. \A j \in 0..MaxSlots : c[j] \in Int /\ \A i \in 0..j : c[j] <= c[i]
    BY <1>4, CursorFalls
  <1>7. upper \in FreeLower(p.slot_count)..PageSize
    <2>1. 0 \in 0..p.slot_count
      BY <1>2
    <2> QED
      BY <1>2, <1>5, <1>6, <2>1
  <1>8. ASSUME NEW t \in D
        PROVE  /\ q.slots[t] = [slots[t] EXCEPT !.offset = c[t + 1]]
               /\ q.slots[t].offset = c[t + 1]
               /\ q.slots[t].length = slots[t].length
               /\ q.slots[t].offset + q.slots[t].length = c[t]
               /\ upper <= c[t + 1] /\ c[t] <= PageSize
               /\ slots[t].length \in Nat
    <2>1. t \in SlotIds /\ t + 1 \in 0..p.slot_count /\ 0 \in 0..t /\ t \in 0..MaxSlots
          /\ t + 1 \in 0..MaxSlots
      BY <1>2, <1>3
    <2>2. slots[t] \in Entry
      BY <2>1
    <2>3. q.slots[t] = [slots[t] EXCEPT !.offset = c[t + 1]]
      BY <1>1, <2>1 DEF Moved
    <2>4. q.slots[t].offset = c[t + 1] /\ q.slots[t].length = slots[t].length
      BY <2>2, <2>3 DEF Entry
    <2>5. upper <= c[t + 1] /\ c[t] <= PageSize /\ c[t] \in Int
      BY <1>2, <1>5, <1>6, <2>1
    <2>6. slots[t].length \in Nat
      BY <2>2 DEF Entry
    <2> QED
      BY <1>5, <2>3, <2>4, <2>5, <2>6
  <1>9. \A t \in SlotIds \ D : q.slots[t] = slots[t]
    BY <1>1 DEF Moved
  <1>10. Directory(q) = Directory(p)
    BY <1>1 DEF Directory
  <1> HIDE DEF q, c
  <1>11. \A t \in D : q.slots[t].flags = "occupied" /\ q.slots[t].generation = slots[t].generation
    <2> SUFFICES ASSUME NEW t \in D
                 PROVE  q.slots[t].flags = "occupied"
                        /\ q.slots[t].generation = slots[t].generation
      OBVIOUS
    <2>1. slots[t] \in Entry
      BY <1>3
    <2> QED
      BY <1>8, <2>1 DEF Entry
  <1>12. Live(q) = D
    <2>1. Live(q) = {t \in Directory(p) : q.slots[t].flags = "occupied"}
      BY <1>10 DEF Live
    <2>2. \A t \in Directory(p) \ D : q.slots[t].flags # "occupied"
      BY <1>9 DEF Directory
    <2> QED
      BY <1>11, <2>1, <2>2
  <1>13. ASSUME NEW t \in Directory(q) PROVE EntryValid(q.slots[t], q.free_upper)
    <2>1. CASE t \in D
      <3>1. slots[t] \in Entry /\ c[t + 1] \in Int /\ c[t] \in Int
        BY <1>2, <1>3, <1>6, <2>1
      <3>2. q.slots[t] \in SlotEntry
        <4>1. c[t + 1] \in 0..PageSize /\ slots[t].length \in 0..PageSize
          <5>1. upper \in Nat
            BY <1>2, <1>7
          <5>2. /\ c[t + 1] = c[t] - slots[t].length /\ slots[t].length \in Nat
                /\ upper <= c[t + 1] /\ c[t] <= PageSize
            BY <1>5, <1>8, <2>1
          <5> HIDE DEF upper
          <5> QED
            BY <1>2, <3>1, <5>1, <5>2, SMTT(40)
        <4> QED
          BY <1>8, <2>1, <3>1, <4>1 DEF Entry, SlotEntry
      <3>3. /\ q.slots[t].flags = "occupied"
            /\ q.slots[t].generation # 0 /\ q.slots[t].length # 0
            /\ q.free_upper <= q.slots[t].offset
            /\ q.slots[t].offset + q.slots[t].length <= PageSize
        BY <1>1, <1>8, <1>11, <2>1, ZenonT(40)
      <3> QED
        BY <3>2, <3>3 DEF EntryValid
    <2>2. CASE t \notin D
      <3>1. q.slots[t] = slots[t] /\ t \in Directory(p) \ D
        BY <1>9, <1>10, <2>2 DEF Directory
      <3>2. upper \in Nat
        BY <1>2, <1>7
      <3> QED
        BY <1>1, <3>1, <3>2
    <2> QED
      BY <2>1, <2>2
  <1>14. PayloadsPacked(q)
    <2> SUFFICES ASSUME NEW k \in upper..PageSize - 1
                 PROVE  \E t \in D : /\ Covers(q.slots[t], k)
                                     /\ \A u \in D : Covers(q.slots[u], k) => u = t
      BY <1>1, <1>12 DEF PayloadsPacked
    <2>0. k \in Int /\ upper <= k /\ k < PageSize
      BY <1>2, <1>7
    <2>1. PICK t \in D : t \in 0..p.slot_count - 1 /\ c[t + 1] <= k /\ k < c[t]
      BY <1>2, <1>4, <2>0, CursorPacks DEF c
    <2>2. \A u \in D : Covers(q.slots[u], k) <=> c[u + 1] <= k /\ k < c[u]
      BY <1>8 DEF Covers
    <2>3. ASSUME NEW u \in D, c[u + 1] <= k, k < c[u] PROVE u = t
      <3>1. u \in Nat /\ t \in Nat /\ u \in 0..MaxSlots - 1 /\ t \in 0..MaxSlots - 1
        BY <1>2, <1>3
      <3>2. /\ c[t + 1] \in Int /\ c[t] \in Int /\ c[u] \in Int /\ c[u + 1] \in Int
            /\ t < u => c[u] <= c[t + 1]
            /\ u < t => c[t] <= c[u + 1]
        BY <1>2, <1>6, <3>1, SMTT(40)
      <3> QED
        BY <2>0, <2>1, <2>3, <3>1, <3>2
    <2> QED
      BY <2>1, <2>2, <2>3
  <1>15. live = 0 => upper = PageSize
    <2> SUFFICES ASSUME live = 0, upper # PageSize PROVE FALSE
      OBVIOUS
    <2>1. upper \in Int /\ upper <= upper /\ upper < PageSize
      BY <1>2, <1>7
    <2>2. D # {}
      BY <1>2, <1>4, <2>1, CursorPacks DEF c
    <2>3. IsFiniteSet(D)
      <3>1. IsFiniteSet(0..MaxSlots - 1)
        BY <1>2, FS_Interval
      <3> QED
        BY <1>2, <1>3, <3>1, FS_Subset
    <2> QED
      BY <2>2, <2>3, FS_EmptySet
  <1> QED
    BY <1>1, <1>2, <1>7, <1>12, <1>13, <1>14, <1>15 DEF q, validate

(* The set of live slots is finite. *)
LEMMA LiveFinite ==
    ASSUME NEW p
    PROVE  IsFiniteSet(Live(p)) /\ Cardinality(Live(p)) \in Nat
  <1>1. IsFiniteSet(SlotIds)
    BY Sizes, FS_Interval DEF SlotIds
  <1>2. Live(p) \in SUBSET SlotIds
    BY DEF Live, Directory
  <1> QED
    BY <1>1, <1>2, FS_Subset, FS_CardinalityType

(* An entry without payload is valid whatever the free space is. *)
LEMMA EmptyEntries ==
    ASSUME NEW p, PageOK(p), NEW t \in Directory(p) \ Live(p)
    PROVE  p.slots[t].flags # "occupied" /\ \A u \in Nat : EntryValid(p.slots[t], u)
  <1>1. p.slots[t].flags # "occupied" /\ t \in Directory(p)
    BY DEF Live
  <1>2. EntryValid(p.slots[t], p.free_upper)
    BY <1>1 DEF PageOK, validate
  <1>3. p.slots[t].flags \in Flags
    BY <1>2 DEF EntryValid, SlotEntry
  <1> QED
    BY <1>1, <1>2, <1>3 DEF EntryValid, Flags

(* replace validates what RoomToReplace allows. *)
LEMMA ReplacedValid ==
    ASSUME NEW p, PageOK(p), NEW s \in Live(p), NEW v, NEW n \in 1..MaxPayload,
           RoomToReplace(p, s, n)
    PROVE  validate(Replaced(p, s, v, n))
  <1> DEFINE slots == [p.slots EXCEPT ![s].length = n]
             content == [t \in Live(p) |-> IF t = s THEN Payload(v, n) ELSE Get(p, t)]
  <1>1. /\ Live(p) \subseteq Directory(p) /\ Directory(p) \subseteq SlotIds
        /\ DOMAIN content = Live(p) /\ n \in Nat /\ n # 0
    BY Sizes DEF Live, Directory
  <1>2. slots \in [SlotIds -> Entry]
    <2>1. p.slots \in [SlotIds -> Entry]
      BY Sizes DEF PageOK, SlotEntry, Entry
    <2>2. [p.slots[s] EXCEPT !.length = n] \in Entry
      BY <2>1, <1>1 DEF Entry
    <2> QED
      BY <2>1, <2>2
  <1>3. /\ \A t \in SlotIds \ {s} : slots[t] = p.slots[t]
        /\ slots[s].length = n /\ slots[s].flags = p.slots[s].flags
        /\ slots[s].generation = p.slots[s].generation
    BY <1>1 DEF PageOK, SlotEntry
  <1>4. ASSUME NEW t \in Live(p)
        PROVE  /\ slots[t].flags = "occupied"
               /\ slots[t].generation # 0 /\ slots[t].length # 0
    <2>1. /\ p.slots[t].flags = "occupied"
          /\ p.slots[t].generation # 0 /\ p.slots[t].length # 0
      BY LiveFacts, Sizes
    <2> QED
      BY <1>1, <1>3, <2>1
  <1>5. \A t \in Directory(p) \ Live(p) :
            slots[t].flags # "occupied" /\ \A u \in Nat : EntryValid(slots[t], u)
    BY <1>1, <1>3, EmptyEntries
  <1>6. p.live_count = Cardinality(DOMAIN content)
    BY <1>1 DEF PageOK, validate
  <1>7. FreeLower(p.slot_count) <= Cursor(slots, content)[p.slot_count]
    <2>1. \A t \in DOMAIN content :
                slots[t].length = IF t = s THEN n ELSE p.slots[t].length
      BY <1>1, <1>3
    <2>2. Cursor(slots, content)[p.slot_count] = PageSize - Cardinality(LiveBytes(p, s)) - n
      <3>1. /\ DOMAIN content \subseteq Live(p) /\ Live(p) \ {s} \subseteq DOMAIN content
            /\ s \in DOMAIN content /\ n \in Nat
        BY <1>1
      <3> HIDE DEF slots, content
      <3>2. Cursor(slots, content)[p.slot_count] =
                PageSize - Cardinality(LiveBytes(p, s))
                         - (IF s \in DOMAIN content THEN n ELSE 0)
        BY <2>1, <3>1, CursorCounts
      <3> QED
        BY <3>1, <3>2
    <2>3. Cardinality(LiveBytes(p, s)) \in Nat
      <3>1. 0 \in Int /\ PageSize - 1 \in Int
        BY Sizes
      <3>2. IsFiniteSet(Offsets)
        BY <3>1, FS_Interval DEF Offsets
      <3>3. LiveBytes(p, s) \in SUBSET Offsets
        BY DEF LiveBytes
      <3> QED
        BY <3>2, <3>3, FS_Subset, FS_CardinalityType
    <2>4. FreeLower(p.slot_count) \in Nat /\ PageSize \in Nat
      BY Sizes DEF PageOK, validate
    <2> HIDE DEF slots, content
    <2> QED
      BY <1>1, <2>2, <2>3, <2>4 DEF RoomToReplace
  <1>8. Replaced(p, s, v, n) = Compacted(p, slots, p.live_count, content)
    BY DEF Replaced
  <1> HIDE DEF slots, content
  <1>9. validate(Compacted(p, slots, p.live_count, content))
    BY <1>1, <1>2, <1>4, <1>5, <1>6, <1>7, CompactionValid
  <1> QED
    BY <1>8, <1>9

(* erase validates, at the last generation too. *)
LEMMA ErasedValid ==
    ASSUME NEW p, PageOK(p), NEW s \in Live(p)
    PROVE  validate(Erased(p, s))
  <1> DEFINE entry == [offset |-> 0, length |-> 0,
                       generation |-> p.slots[s].generation,
                       flags |-> FlagsAfterErase(p.slots[s])]
             slots == [p.slots EXCEPT ![s] = entry]
             content == [t \in Live(p) \ {s} |-> Get(p, t)]
  <1>1. /\ Live(p) \subseteq Directory(p) /\ Directory(p) \subseteq SlotIds
        /\ DOMAIN content = Live(p) \ {s}
    BY DEF Live, Directory
  <1>2. entry \in SlotEntry /\ entry.flags # "occupied" /\ \A u \in Nat : EntryValid(entry, u)
    <2>1. p.slots[s].generation \in 1..MaxGeneration
      BY LiveFacts
    <2>2. entry \in SlotEntry
      BY <2>1, Sizes DEF SlotEntry, FlagsAfterErase, Flags
    <2>3. CASE p.slots[s].generation = MaxGeneration
      BY <2>1, <2>2, <2>3, Sizes DEF EntryValid, FlagsAfterErase
    <2>4. CASE p.slots[s].generation # MaxGeneration
      BY <2>1, <2>2, <2>4, Sizes DEF EntryValid, FlagsAfterErase
    <2> QED
      BY <2>2, <2>3, <2>4
  <1>3. SlotEntry \subseteq Entry
    BY Sizes DEF SlotEntry, Entry
  <1> HIDE DEF entry
  <1>4. slots \in [SlotIds -> Entry] /\ slots[s] = entry
        /\ \A t \in SlotIds \ {s} : slots[t] = p.slots[t]
    BY <1>1, <1>2, <1>3 DEF PageOK
  <1>5. ASSUME NEW t \in Live(p) \ {s}
        PROVE  /\ slots[t].flags = "occupied"
               /\ slots[t].generation # 0 /\ slots[t].length # 0
    <2>1. /\ p.slots[t].flags = "occupied"
          /\ p.slots[t].generation # 0 /\ p.slots[t].length # 0
      BY LiveFacts, Sizes
    <2> QED
      BY <1>1, <1>4, <2>1
  <1>6. \A t \in Directory(p) \ (Live(p) \ {s}) :
            slots[t].flags # "occupied" /\ \A u \in Nat : EntryValid(slots[t], u)
    BY <1>1, <1>2, <1>4, EmptyEntries
  <1>7. p.live_count - 1 = Cardinality(DOMAIN content)
    BY <1>1, LiveFinite, FS_RemoveElement DEF PageOK, validate
  <1>8. FreeLower(p.slot_count) <= Cursor(slots, content)[p.slot_count]
    <2>1. \A t \in DOMAIN content :
                slots[t].length = IF t = s THEN 0 ELSE p.slots[t].length
      BY <1>1, <1>4
    <2>2. Cursor(slots, content)[p.slot_count] = PageSize - Cardinality(LiveBytes(p, s)) - 0
      <3>1. /\ DOMAIN content \subseteq Live(p) /\ Live(p) \ {s} \subseteq DOMAIN content
            /\ s \notin DOMAIN content /\ 0 \in Nat
        BY <1>1
      <3> HIDE DEF slots, content
      <3> QED
        BY <2>1, <3>1, CursorCounts
    <2>3. /\ FreeLower(p.slot_count) \in Nat /\ PageSize \in Nat
          /\ p.free_upper \in FreeLower(p.slot_count)..PageSize
      BY Sizes DEF PageOK, validate
    <2>4. LiveBytes(p, s) \in SUBSET (p.free_upper..PageSize - 1)
      <3> SUFFICES ASSUME NEW k \in Offsets, NEW t \in Live(p), Covers(p.slots[t], k)
                   PROVE  k \in p.free_upper..PageSize - 1
        BY DEF LiveBytes
      <3>1. t \in Directory(p) /\ p.slots[t].flags = "occupied"
        BY DEF Live
      <3>2. EntryValid(p.slots[t], p.free_upper)
        BY <3>1 DEF PageOK, validate
      <3>3. p.slots[t].offset \in Int /\ p.free_upper <= p.slots[t].offset
        BY <3>1, <3>2, Sizes DEF EntryValid, SlotEntry
      <3> QED
        BY <2>3, <3>3 DEF Covers, Offsets
    <2>5. /\ Cardinality(LiveBytes(p, s)) \in Nat
          /\ Cardinality(LiveBytes(p, s)) <= PageSize - p.free_upper
      <3> DEFINE I == p.free_upper..PageSize - 1
      <3>1. p.free_upper \in Int /\ PageSize - 1 \in Int
        BY <2>3
      <3>2. IsFiniteSet(I) /\ Cardinality(I) = PageSize - p.free_upper
        <4>1. IsFiniteSet(I) /\ Cardinality(I) = IF p.free_upper > PageSize - 1 THEN 0
                                               ELSE PageSize - 1 - p.free_upper + 1
          BY <3>1, FS_Interval
        <4> HIDE DEF I
        <4> QED
          BY <2>3, <4>1
      <3> HIDE DEF I
      <3>3. LiveBytes(p, s) \in SUBSET I
        BY <2>4 DEF I
      <3> QED
        BY <3>2, <3>3, FS_Subset, FS_CardinalityType
    <2> HIDE DEF slots, content
    <2> QED
      BY <2>2, <2>3, <2>5
  <1>9. Erased(p, s) = Compacted(p, slots, p.live_count - 1, content)
    BY DEF Erased, entry
  <1>10. DOMAIN content \subseteq Directory(p)
    BY <1>1
  <1> HIDE DEF slots, content
  <1>11. validate(Compacted(p, slots, p.live_count - 1, content))
    BY <1>1, <1>4, <1>5, <1>6, <1>7, <1>8, <1>10, CompactionValid
  <1> QED
    BY <1>9, <1>11

(* insert validates what RoomFor allows. *)
LEMMA InsertedValid ==
    ASSUME NEW p, PageOK(p), NEW s \in SlotIds, NEW v, NEW n \in 1..MaxPayload,
           IsTarget(p, s), RoomFor(p, n)
    PROVE  validate(Inserted(p, s, v, n))
  <1> DEFINE q == Inserted(p, s, v, n)
             offset == p.free_upper - n
             count == IF Reuses(p) THEN p.slot_count ELSE p.slot_count + 1
             entry == [offset |-> offset, length |-> n,
                       generation |-> NextGeneration(p, s), flags |-> "occupied"]
  <1>1. /\ q.slot_count = count /\ q.live_count = p.live_count + 1
        /\ q.free_upper = offset /\ q.slots = [p.slots EXCEPT ![s] = entry]
    BY DEF Inserted
  <1>2. /\ s \notin Live(p)
        /\ NextGeneration(p, s) \in 1..MaxGeneration
        /\ Reuses(p) => s < p.slot_count
        /\ ~Reuses(p) => s = p.slot_count
    BY TargetFacts
  <1>3. /\ p.slot_count \in 0..MaxSlots /\ PageSize \in Nat /\ MaxSlots \in Nat
        /\ EntrySize \in Nat /\ HeaderSize \in Nat /\ FreeLower(p.slot_count) \in Nat
        /\ p.free_upper \in FreeLower(p.slot_count)..PageSize /\ n \in Nat /\ n # 0
        /\ SlotIds = 0..MaxSlots - 1
    <2>1. p.slot_count \in 0..MaxSlots /\ p.free_upper \in FreeLower(p.slot_count)..PageSize
      BY DEF PageOK, validate
    <2>2. FreeLower(p.slot_count) \in Nat
      BY <2>1, Sizes
    <2>3. n \in Nat /\ n # 0
      BY Sizes
    <2> QED
      BY <2>1, <2>2, <2>3, Sizes DEF SlotIds
  <1>4. count \in 0..MaxSlots /\ s < count
    BY <1>2, <1>3
  <1>5. offset \in FreeLower(count)..PageSize /\ offset \in Nat /\ offset < p.free_upper
        /\ p.free_upper \in Nat /\ FreeLower(count) \in Nat
    <2>1. FreeLower(p.slot_count + 1) = FreeLower(p.slot_count) + EntrySize
      BY <1>3 DEF FreeLower
    <2>2. FreeLower(count) =
                FreeLower(p.slot_count) + (IF Reuses(p) THEN 0 ELSE EntrySize)
      BY <1>3, <2>1
    <2> HIDE DEF count
    <2> QED
      BY <1>3, <2>2 DEF RoomFor
  <1>6. /\ q.slots[s] = entry
        /\ \A t \in SlotIds \ {s} : q.slots[t] = p.slots[t]
    BY <1>1 DEF PageOK
  <1>7. entry \in SlotEntry
    <2>1. offset \in 0..PageSize /\ n \in 0..PageSize
      BY <1>3, <1>5
    <2>2. NextGeneration(p, s) \in 0..MaxGeneration
      BY <1>2, Sizes
    <2> HIDE DEF offset
    <2> QED
      BY <2>1, <2>2 DEF SlotEntry, Flags
  <1>8. /\ entry.flags = "occupied" /\ entry.offset = offset /\ entry.length = n
        /\ entry.generation # 0
    BY <1>2, Sizes
  <1> HIDE DEF q, entry
  <1>9. \A t \in SlotIds : t < count <=> t < p.slot_count \/ t = s
    BY <1>2, <1>3
  <1>10. Directory(q) = Directory(p) \cup {s}
    BY <1>1, <1>9 DEF Directory
  <1>11. Live(q) = Live(p) \cup {s}
    BY <1>2, <1>6, <1>8, <1>10 DEF Live, Directory
  <1>12. p.live_count + 1 = Cardinality(Live(q)) /\ p.live_count + 1 # 0
    <2>1. Cardinality(Live(p) \cup {s}) = Cardinality(Live(p)) + 1
      BY <1>2, LiveFinite, FS_AddElement
    <2>2. Cardinality(Live(q)) = Cardinality(Live(p) \cup {s})
      BY <1>11, Zenon
    <2> QED
      BY <2>1, <2>2, LiveFinite DEF PageOK, validate
  <1>13. ASSUME NEW t \in Directory(q) PROVE EntryValid(q.slots[t], offset)
    <2>1. CASE t = s
      <3>1. EntryValid(entry, offset)
        BY <1>3, <1>5, <1>7, <1>8 DEF EntryValid
      <3> QED
        BY <1>6, <2>1, <3>1
    <2>2. CASE t # s
      <3>1. t \in Directory(p) /\ q.slots[t] = p.slots[t]
        BY <1>6, <1>10, <2>2 DEF Directory
      <3>2. EntryValid(p.slots[t], p.free_upper)
        BY <3>1 DEF PageOK, validate
      <3>3. \A x \in Nat : p.free_upper <= x => offset <= x
        BY <1>3, <1>5
      <3>4. p.slots[t] \in SlotEntry /\ p.slots[t].offset \in Nat
        BY <3>2, Sizes DEF EntryValid, SlotEntry
      <3>5. p.slots[t].flags \in Flags
        BY <3>4 DEF SlotEntry
      <3> HIDE DEF offset
      <3>6. EntryValid(p.slots[t], offset)
        BY <3>2, <3>3, <3>4, <3>5 DEF EntryValid, Flags
      <3> QED
        BY <3>1, <3>6
    <2> QED
      BY <2>1, <2>2
  <1>14. PayloadsPacked(q)
    <2> SUFFICES ASSUME NEW k \in offset..PageSize - 1
                 PROVE  \E t \in Live(p) \cup {s} :
                            /\ Covers(q.slots[t], k)
                            /\ \A u \in Live(p) \cup {s} : Covers(q.slots[u], k) => u = t
      BY <1>1, <1>11 DEF PayloadsPacked
    <2>0. k \in Int /\ offset <= k /\ k < PageSize
      BY <1>3, <1>5
    <2>1. Covers(q.slots[s], k) <=> k < p.free_upper
      BY <1>3, <1>5, <1>6, <1>8, <2>0 DEF Covers
    <2>2. \A t \in Live(p) : t # s /\ q.slots[t] = p.slots[t]
      BY <1>2, <1>6 DEF Live, Directory
    <2>3. CASE k < p.free_upper
      <3>1. ASSUME NEW t \in Live(p) PROVE ~Covers(p.slots[t], k)
        <4>1. t \in Directory(p) /\ p.slots[t].flags = "occupied"
          BY DEF Live
        <4>2. EntryValid(p.slots[t], p.free_upper)
          BY <4>1 DEF PageOK, validate
        <4>3. p.slots[t].offset \in Int /\ p.free_upper <= p.slots[t].offset
          BY <4>1, <4>2, Sizes DEF EntryValid, SlotEntry
        <4> QED
          BY <1>5, <2>0, <2>3, <4>3 DEF Covers
      <3> QED
        BY <2>1, <2>2, <2>3, <3>1
    <2>4. CASE ~(k < p.free_upper)
      <3>1. k \in p.free_upper..PageSize - 1
        BY <1>3, <1>5, <2>0, <2>4
      <3>2. PICK t \in Live(p) : /\ Covers(p.slots[t], k)
                                 /\ \A u \in Live(p) : Covers(p.slots[u], k) => u = t
        BY <3>1 DEF PageOK, validate, PayloadsPacked
      <3> QED
        BY <2>1, <2>2, <2>4, <3>2
    <2> QED
      BY <2>3, <2>4
  <1>15. validate(q)
    BY <1>1, <1>4, <1>5, <1>12, <1>13, <1>14 DEF validate
  <1> QED
    BY <1>15 DEF q

(* On every reachable page the validation at the end of insert, replace    *)
(* and erase succeeds: RoomFor and RoomToReplace are all that is needed,   *)
(* and compaction of any set of live slots packs the page without gap.     *)
THEOREM FinalChecksAlwaysPass == Spec => []FinalChecksPass
  <1>1. IInv => FinalChecksPass
    <2> SUFFICES ASSUME PageOK(page) PROVE FinalChecksPass
      BY DEF IInv
    <2>1. validate(page)
      BY DEF PageOK
    <2>2. ASSUME NEW v \in Data, NEW n \in 1..MaxPayload
          PROVE  /\ \A s \in SlotIds : IsTarget(page, s) /\ RoomFor(page, n)
                                        => validate(Inserted(page, s, v, n))
                 /\ \A s \in Live(page) : RoomToReplace(page, s, n)
                                        => validate(Replaced(page, s, v, n))
      BY InsertedValid, ReplacedValid
    <2>3. \A s \in Live(page) : validate(Erased(page, s))
      BY ErasedValid
    <2> QED
      BY <2>1, <2>2, <2>3 DEF FinalChecksPass
  <1> QED
    BY <1>1, Invariance, PTL

=============================================================================
