--------------------------- MODULE HeapTableProofs ---------------------------
(***************************************************************************)
(* A heap table implements RecordStore, its batches are carried out to the *)
(* row they report and its scans are complete, for files, pages, batches   *)
(* and tables of any size, whatever fails, with or without the prefetch    *)
(* worker (but not both: module MCHeapTable, FaultyPrefetch).              *)
(***************************************************************************)
EXTENDS HeapTable, SequenceTheorems, FiniteSetTheorems, WellFoundedInduction, TLAPS

(* The worker is not there, or nothing fails. *)
Sane == ~(config.prefetch /\ config.faults)

-----------------------------------------------------------------------------
(* The inductive invariant *)

Slot == [live : BOOLEAN, gen : 1..MaxGeneration, size : Nat]

PageContent == [init : BOOLEAN, slots : Seq(Slot)]

GoodPage(c) ==
    /\ c \in PageContent
    /\ ~c.init => c.slots = <<>>
    /\ DOMAIN c.slots \subseteq 1..Capacity - 1

(* The file: the free list holds pages of the file, each once. *)
FileInv ==
    /\ config \in Configs
    /\ file \in [page_count : 1..MaxPages + 1, free : Seq(Pages), poisoned : BOOLEAN,
                 disk : [Pages -> PageContent]]
    /\ \A p \in Pages : GoodPage(file.disk[p])
    /\ \A i \in DOMAIN file.free : file.free[i] < file.page_count
    /\ \A i, j \in DOMAIN file.free : i # j => file.free[i] # file.free[j]

(* The pool and the worker hold what the file holds, and know nothing of   *)
(* a page before its bootstrap write.  With the worker at work no page is  *)
(* ever given back.                                                        *)
PoolInv ==
    /\ DOMAIN pool \subseteq Allocated
    /\ pool = [p \in DOMAIN pool |-> file.disk[p]]
    /\ worker \in [queue : SUBSET Pages, loading : Pages \cup {Nothing}, read : PageContent]
    /\ \A p \in worker.queue : p < file.page_count
    /\ worker.loading # Nothing =>
            worker.loading \in Allocated /\ worker.read = file.disk[worker.loading]
    /\ config.prefetch => file.free = <<>>
    /\ ~config.prefetch => DOMAIN pool = {} /\ worker.queue = {} /\ worker.loading = Nothing
    /\ call.pc \in {"bootstrap", "fresh"} =>
            call.page \notin DOMAIN pool \cup worker.queue \cup {worker.loading}

(* Only the page being created, or one of a file that is given up, is not  *)
(* a record page.                                                          *)
CreationInv ==
    /\ ~file.poisoned => \A p \in Allocated :
            (p = call.page /\ call.pc = "bootstrap") \/ file.disk[p].init
    /\ call.pc = "bootstrap" =>
            /\ call.page \in Allocated /\ file.disk[call.page] = Zeroes
            /\ call.op = "insert" /\ ~file.poisoned
    /\ call.pc = "fresh" =>
            /\ call.page \in Allocated /\ file.disk[call.page] = EmptyPage
            /\ call.op = "insert" /\ ~file.poisoned
    /\ call.pc = "row" => ~file.poisoned

Updates == [rid : Rids, size : Sizes]

(* The call: its rows are of the kind of its operation, and it is not at   *)
(* work while the table has a cursor.                                      *)
CallInv ==
    /\ call \in [op : {"none", "insert", "delete", "update"},
                 pc : {"idle", "row", "bootstrap", "fresh", "done"},
                 req : {call.req}, done : Seq(Rids), page : Pages \cup {Nothing},
                 err : {"none", "io", "corrupt", "invalid", "too_large"},
                 before : {call.before}]
    /\ call.pc = "idle" => call = Idle
    /\ call.pc # "idle" => call.op # "none" /\ DOMAIN cursors = {}
    /\ call.op = "insert" => call.req \in Seq(Sizes)
    /\ call.op = "delete" => call.req \in Seq(Rids)
    /\ call.op = "update" => call.req \in Seq(Updates)
    /\ call.pc # "idle" => Len(call.done) <= Len(call.req)
    /\ call.pc \in {"row", "bootstrap", "fresh"} =>
            Len(call.done) < Len(call.req) /\ call.err = "none"
    /\ DOMAIN call.before \subseteq Rids

(* The rows that are done, and the records as they should be. *)
Done == {call.done[i] : i \in 1..Len(call.done)}

PrefixInv ==
    /\ \A i, j \in 1..Len(call.done) : i # j => call.done[i] # call.done[j]
    /\ call.op = "insert" =>
            /\ LiveRids = DOMAIN call.before \cup Done
            /\ \A r \in DOMAIN call.before \ Done : Records[r] = call.before[r]
            /\ \A i \in 1..Len(call.done) : Records[call.done[i]] = call.req[i]
    /\ call.op = "delete" =>
            /\ LiveRids = DOMAIN call.before \ Done
            /\ \A r \in LiveRids : Records[r] = call.before[r]
    /\ call.op = "update" =>
            /\ LiveRids = DOMAIN call.before
            /\ \A r \in DOMAIN call.before \ Done : Records[r] = call.before[r]
            /\ \A i \in 1..Len(call.done) :
                    call.done[i] = call.req[i].rid /\ Records[call.done[i]] = call.req[i].size
            /\ call.err = "invalid" => call.done = <<>>
            /\ call.pc = "row" =>
                  /\ \A i \in DOMAIN call.req : call.req[i].rid \in DOMAIN call.before
                  /\ \A i, j \in DOMAIN call.req : i # j => call.req[i].rid # call.req[j].rid

Precedes(r, q) == r.page < q.page \/ (r.page = q.page /\ r.slot < q.slot)

(* Of the records L, those behind the position of cursor k. *)
AheadOf(k, L) ==
    {r \in L : /\ r.page < k.end
               /\ r.page > k.page \/ (r.page = k.page /\ r.slot > k.slot)}

(* A scan has returned the records up to its position, in their order. *)
CursorInv(k, L, end) ==
    /\ k \in [page : Nat, slot : Nat, end : Nat, status : {"active", "eof", "failed"},
              seen : Seq(Rids)]
    /\ k.end = end
    /\ {k.seen[i] : i \in DOMAIN k.seen} = L \ AheadOf(k, L)
    /\ \A i, j \in DOMAIN k.seen : i < j => Precedes(k.seen[i], k.seen[j])
    /\ k.status = "eof" => AheadOf(k, L) = {}

ScanInv == \A c \in DOMAIN cursors : CursorInv(cursors[c], LiveRids, file.page_count)

HInv == FileInv /\ PoolInv /\ CreationInv /\ CallInv /\ PrefixInv /\ ScanInv
-----------------------------------------------------------------------------
(* Numbers *)

(* The constants have their types. *)
LEMMA Constants ==
    /\ MaxPages \in Nat /\ Capacity \in Nat /\ MaxGeneration \in Nat \ {0}
    /\ \A n \in Sizes : n \in Nat /\ n # 0 /\ n <= Capacity - 1
    /\ Pages \subseteq Nat \ {0} /\ Nothing \notin Pages
    /\ \A c \in Configs : c.prefetch \in BOOLEAN /\ c.faults \in BOOLEAN
  <1>1. MaxPages \in Nat /\ Capacity \in Nat /\ MaxGeneration \in Nat \ {0}
    BY HeapTableAssumption
  <1>2. \A n \in Sizes : n \in 1..Capacity - 1
    BY HeapTableAssumption
  <1>3. \A c \in Configs : c \in [prefetch : BOOLEAN, faults : BOOLEAN]
    BY HeapTableAssumption
  <1> QED
    BY <1>1, <1>2, <1>3 DEF Pages, Nothing

(* A nonempty set of numbers has a least one. *)
LEMMA MinIn ==
    ASSUME NEW S, S \subseteq Nat, S # {}
    PROVE  Min(S) \in S /\ \A y \in S : Min(S) <= y
  <1>1. PICK x \in S : \A y \in S : ~(<<y, x>> \in OpToRel(<, Nat))
    BY NatLessThanWellFounded, WFMin
  <1>2. ASSUME NEW y \in S PROVE x <= y
    <2>1. x \in Nat /\ y \in Nat
      OBVIOUS
    <2>2. <<y, x>> \notin OpToRel(<, Nat)
      BY <1>1
    <2>3. ~(y < x)
      BY <2>1, <2>2 DEF OpToRel
    <2> QED
      BY <2>1, <2>3
  <1> QED
    BY <1>2 DEF Min

(* Induction over the natural numbers, of membership in a set. *)
LEMMA SetInduction ==
    ASSUME NEW S, 0 \in S, \A n \in Nat : n \in S => n + 1 \in S
    PROVE  \A n \in Nat : n \in S
  <1> SUFFICES ASSUME Nat \ S # {} PROVE FALSE
    OBVIOUS
  <1> DEFINE x == Min(Nat \ S)
  <1>1. x \in Nat \ S /\ \A y \in Nat \ S : x <= y
    BY MinIn
  <1> HIDE DEF x
  <1>2. x # 0 /\ x - 1 \in Nat /\ (x - 1) + 1 = x /\ ~(x <= x - 1)
    BY <1>1
  <1> QED
    BY <1>1, <1>2

(* One step of the sum: the space of the first i slots. *)
Sum(slots, g, i) == IF i = 0 THEN 0 ELSE g[i - 1] + 1 + slots[i].size

(* Each slot takes space. *)
LEMMA UsedAtLeast ==
    ASSUME NEW c, c.slots \in Seq(Slot)
    PROVE  Used(c) \in Nat /\ Len(c.slots) <= Used(c)
  <1> DEFINE slots == c.slots
             len == Len(slots)
             Defined(n) == \E g : g = [i \in 0..n |-> Sum(slots, g, i)]
             S == {n \in Nat : Defined(n)}
  <1>0. len \in Nat /\ \A i \in 1..len : slots[i].size \in Nat
    <2>1. len \in Nat /\ \A i \in 1..len : slots[i] \in Slot
      OBVIOUS
    <2> QED
      BY <2>1 DEF Slot
  <1>1. 0 \in S
    <2> DEFINE g == [i \in 0..0 |-> 0]
    <2>1. g = [i \in 0..0 |-> Sum(slots, g, i)]
      BY DEF Sum
    <2> HIDE DEF g
    <2> QED
      BY <2>1
  <1>2. ASSUME NEW n \in Nat, n \in S PROVE n + 1 \in S
    <2> PICK g : g = [i \in 0..n |-> Sum(slots, g, i)]
      BY <1>2
    <2> DEFINE h == [i \in 0..n + 1 |-> Sum(slots, g, i)]
    <2>1. \A i \in 0..n : h[i] = g[i]
      OBVIOUS
    <2>2. ASSUME NEW i \in 0..n + 1 PROVE Sum(slots, g, i) = Sum(slots, h, i)
      <3>1. i # 0 => i - 1 \in 0..n
        OBVIOUS
      <3> QED
        BY <2>1, <3>1 DEF Sum
    <2>3. h = [i \in 0..n + 1 |-> Sum(slots, h, i)]
      BY <2>2
    <2> HIDE DEF h
    <2> QED
      BY <2>3
  <1>3. Defined(len)
    <2> HIDE DEF S
    <2>1. len \in S
      BY <1>0, <1>1, <1>2, SetInduction
    <2> QED
      BY <2>1 DEF S
  <1> DEFINE f == CHOOSE g : g = [i \in 0..len |-> Sum(slots, g, i)]
  <1>4. f = [i \in 0..len |-> Sum(slots, f, i)]
    BY <1>3
  <1>5. Used(c) = f[len]
    BY DEF Used, Sum
  <1> HIDE DEF f
  <1>6. \A i \in 0..len : f[i] = Sum(slots, f, i)
    BY <1>4
  <1> DEFINE T == {n \in Nat : n <= len => f[n] \in Nat /\ n <= f[n]}
  <1>7. 0 \in T
    BY <1>0, <1>6 DEF Sum
  <1>8. ASSUME NEW n \in Nat, n \in T PROVE n + 1 \in T
    <2> SUFFICES ASSUME n + 1 <= len PROVE f[n + 1] \in Nat /\ n + 1 <= f[n + 1]
      OBVIOUS
    <2>1. f[n] \in Nat /\ n <= f[n] /\ n + 1 \in 0..len /\ n + 1 \in 1..len /\ (n + 1) - 1 = n
          /\ n + 1 # 0
      BY <1>0, <1>8
    <2>2. f[n + 1] = f[n] + 1 + slots[n + 1].size
      BY <1>6, <2>1 DEF Sum
    <2>3. slots[n + 1].size \in Nat
      BY <1>0, <2>1
    <2> QED
      BY <2>1, <2>2, <2>3
  <1>9. len \in T
    <2> HIDE DEF T
    <2> QED
      BY <1>0, <1>7, <1>8, SetInduction
  <1> QED
    BY <1>5, <1>9

-----------------------------------------------------------------------------
(* Record pages *)

(* insert puts the record into a slot that is free or new. *)
LEMMA WithRecordFacts ==
    ASSUME NEW c, GoodPage(c), c.init, NEW n \in Sizes, Fits(c, n) \/ c = EmptyPage
    PROVE  LET t == Target(c)
               d == WithRecord(c, n)
           IN  /\ GoodPage(d) /\ d.init
               /\ t \in 1..Capacity - 1
               /\ DOMAIN d.slots = DOMAIN c.slots \cup {t}
               /\ t \in DOMAIN c.slots => ~c.slots[t].live
               /\ d.slots[t] = [live |-> TRUE, size |-> n,
                                gen |-> IF t \in DOMAIN c.slots THEN c.slots[t].gen + 1 ELSE 1]
               /\ d.slots[t].gen \in 1..MaxGeneration
               /\ \A s \in DOMAIN c.slots \ {t} : d.slots[s] = c.slots[s]
  <1> DEFINE t == Target(c)
             d == WithRecord(c, n)
             len == Len(c.slots)
  <1>1. /\ c \in PageContent /\ c.slots \in Seq(Slot) /\ len \in Nat
        /\ DOMAIN c.slots = 1..len /\ DOMAIN c.slots \subseteq 1..Capacity - 1
        /\ \A s \in 1..len : c.slots[s] \in Slot
    BY DEF GoodPage, PageContent
  <1>2. n \in Nat /\ n # 0 /\ n <= Capacity - 1 /\ Capacity \in Nat /\ MaxGeneration \in Nat \ {0}
    BY Constants
  <1>3. CASE Reusable(c) = {}
    <2> DEFINE e == [live |-> TRUE, gen |-> 1, size |-> n]
    <2>1. e \in Slot
      BY <1>2 DEF Slot
    <2>2. t = len + 1 /\ d = [c EXCEPT !.slots = Append(c.slots, e)]
      BY <1>3 DEF Target, WithRecord
    <2>3. len + 1 <= Capacity - 1
      <3>1. CASE Fits(c, n)
        BY <1>1, <1>2, <1>3, <3>1, UsedAtLeast DEF Fits
      <3>2. CASE c = EmptyPage
        <4>1. len = 0
          BY <3>2 DEF EmptyPage
        <4> QED
          BY <1>2, <4>1
      <3> QED
        BY <3>1, <3>2
    <2>4. d.slots = Append(c.slots, e) /\ d.init = c.init
      BY <1>1, <2>2 DEF PageContent
    <2> HIDE DEF e
    <2>5. /\ Append(c.slots, e) \in Seq(Slot) /\ Len(Append(c.slots, e)) = len + 1
          /\ \A s \in 1..len : Append(c.slots, e)[s] = c.slots[s]
          /\ Append(c.slots, e)[len + 1] = e
      BY <1>1, <2>1
    <2>6. DOMAIN d.slots = 1..len + 1
      BY <1>1, <2>4, <2>5
    <2>7. t \notin DOMAIN c.slots /\ DOMAIN d.slots = DOMAIN c.slots \cup {t}
      BY <1>1, <2>2, <2>6
    <2>8. GoodPage(d) /\ d.init
      <3>1. d \in PageContent
        BY <1>1, <2>2, <2>5 DEF PageContent
      <3>2. DOMAIN d.slots \subseteq 1..Capacity - 1
        BY <1>1, <1>2, <2>3, <2>6
      <3> QED
        BY <3>1, <3>2, <2>4 DEF GoodPage
    <2>9. d.slots[t] = e /\ \A s \in DOMAIN c.slots \ {t} : d.slots[s] = c.slots[s]
      BY <1>1, <2>2, <2>4, <2>5
    <2>10. t \in 1..Capacity - 1 /\ e.gen \in 1..MaxGeneration
      BY <1>1, <1>2, <2>2, <2>3 DEF e
    <2> HIDE DEF t, d
    <2>11. d.slots[t] = [live |-> TRUE, size |-> n,
                         gen |-> IF t \in DOMAIN c.slots THEN c.slots[t].gen + 1 ELSE 1]
      BY <2>7, <2>9 DEF e
    <2>12. d.slots[t].gen \in 1..MaxGeneration
      BY <2>9, <2>10
    <2> QED
      BY <2>7, <2>8, <2>9, <2>10, <2>11, <2>12 DEF t, d
  <1>4. CASE Reusable(c) # {}
    <2>1. t \in Reusable(c)
      <3>1. Reusable(c) \subseteq Nat
        BY <1>1 DEF Reusable
      <3> QED
        BY <1>4, <3>1, MinIn DEF Target
    <2>2. t \in 1..len /\ ~c.slots[t].live /\ c.slots[t].gen < MaxGeneration /\ c.slots[t] \in Slot
      BY <1>1, <2>1 DEF Reusable
    <2> DEFINE e == [live |-> TRUE, gen |-> c.slots[t].gen + 1, size |-> n]
    <2>3. e \in Slot /\ e.gen \in 1..MaxGeneration
      BY <1>2, <2>2 DEF Slot
    <2>4. d = [c EXCEPT !.slots = [c.slots EXCEPT ![t] = e]]
      BY <1>1, <1>4, <2>2 DEF WithRecord, PageContent
    <2> HIDE DEF t, e
    <2>5. d.slots = [c.slots EXCEPT ![t] = e] /\ d.init = c.init
      BY <1>1, <2>4 DEF PageContent
    <2>6. /\ [c.slots EXCEPT ![t] = e] \in Seq(Slot)
          /\ DOMAIN [c.slots EXCEPT ![t] = e] = DOMAIN c.slots
      BY <1>1, <2>2, <2>3
    <2>7. GoodPage(d) /\ d.init
      <3>1. d \in PageContent
        BY <1>1, <2>4, <2>6 DEF PageContent
      <3> QED
        BY <1>1, <2>5, <2>6, <3>1 DEF GoodPage
    <2>8. d.slots[t] = e /\ \A s \in DOMAIN c.slots \ {t} : d.slots[s] = c.slots[s]
      BY <1>1, <2>2, <2>5
    <2> QED
      BY <1>1, <2>2, <2>3, <2>5, <2>6, <2>7, <2>8 DEF e, t
  <1> QED
    BY <1>3, <1>4

(* Slots with the same fields are the same. *)
LEMMA SlotExt ==
    ASSUME NEW x \in Slot, NEW y \in Slot,
           x.live = y.live, x.gen = y.gen, x.size = y.size
    PROVE  x = y
  BY DEF Slot

(* A slot gets a new entry. *)
WithSlot(c, s, g) == [c EXCEPT !.slots = [c.slots EXCEPT ![s] = g]]

LEMMA SlotSet ==
    ASSUME NEW c, GoodPage(c), NEW s \in DOMAIN c.slots, NEW g \in Slot
    PROVE  /\ GoodPage(WithSlot(c, s, g)) /\ WithSlot(c, s, g).init
           /\ DOMAIN WithSlot(c, s, g).slots = DOMAIN c.slots
           /\ WithSlot(c, s, g).slots[s] = g
           /\ \A t \in DOMAIN c.slots \ {s} : WithSlot(c, s, g).slots[t] = c.slots[t]
  <1> DEFINE d == [c EXCEPT !.slots = [c.slots EXCEPT ![s] = g]]
  <1>1. /\ c \in PageContent /\ c.slots \in Seq(Slot) /\ c.init
        /\ DOMAIN c.slots \subseteq 1..Capacity - 1
    BY DEF GoodPage, PageContent
  <1>2. d.slots = [c.slots EXCEPT ![s] = g] /\ d.init
    BY <1>1 DEF PageContent
  <1>3. [c.slots EXCEPT ![s] = g] \in Seq(Slot)
        /\ DOMAIN [c.slots EXCEPT ![s] = g] = DOMAIN c.slots
    BY <1>1
  <1>4. d \in PageContent
    BY <1>1, <1>3 DEF PageContent
  <1> QED
    BY <1>1, <1>2, <1>3, <1>4 DEF GoodPage, WithSlot

(* erase frees a slot and keeps its generation, *)
LEMMA EraseFacts ==
    ASSUME NEW c, GoodPage(c), NEW s \in DOMAIN c.slots
    PROVE  /\ GoodPage(Erased(c, s)) /\ Erased(c, s).init
           /\ DOMAIN Erased(c, s).slots = DOMAIN c.slots
           /\ ~Erased(c, s).slots[s].live
           /\ Erased(c, s).slots[s].gen = c.slots[s].gen
           /\ \A t \in DOMAIN c.slots \ {s} : Erased(c, s).slots[t] = c.slots[t]
  <1> DEFINE e == [live |-> FALSE, gen |-> c.slots[s].gen, size |-> 0]
  <1>1. c \in PageContent /\ c.slots \in Seq(Slot) /\ c.slots[s] \in Slot
    BY DEF GoodPage, PageContent
  <1>2. e \in Slot
    BY <1>1 DEF Slot
  <1>3. Erased(c, s) = [c EXCEPT !.slots = [c.slots EXCEPT ![s] = e]]
    <2> DEFINE h == [c EXCEPT !.slots[s].live = FALSE]
    <2>1. Erased(c, s) = [h EXCEPT !.slots[s].size = 0]
      BY DEF Erased
    <2> DEFINE dead == [c.slots[s] EXCEPT !.live = FALSE]
               hs == [c.slots EXCEPT ![s] = dead]
    <2>2. dead \in Slot /\ dead.gen = c.slots[s].gen /\ dead.live = FALSE
      BY <1>1 DEF Slot
    <2>3. [dead EXCEPT !.size = 0] = e
      <3> HIDE DEF dead
      <3>1. /\ [dead EXCEPT !.size = 0] \in Slot
            /\ [dead EXCEPT !.size = 0].gen = e.gen /\ [dead EXCEPT !.size = 0].live = e.live
            /\ [dead EXCEPT !.size = 0].size = e.size
        BY <2>2 DEF Slot
      <3> HIDE DEF e
      <3> QED
        BY <1>2, <3>1, SlotExt
    <2>4. h = [c EXCEPT !.slots = hs]
      BY <1>1 DEF PageContent
    <2> HIDE DEF dead, e
    <2>5. hs[s] = dead /\ [hs EXCEPT ![s] = e] = [c.slots EXCEPT ![s] = e]
      BY <1>1
    <2>6. hs \in Seq(Slot)
      BY <1>1, <2>2
    <2> HIDE DEF h, hs
    <2>7. h \in PageContent /\ h.slots = hs /\ h.init = c.init
      BY <1>1, <2>4, <2>6 DEF PageContent
    <2>8. [h EXCEPT !.slots[s].size = 0] = [h EXCEPT !.slots = [hs EXCEPT ![s] = e]]
      BY <2>3, <2>5, <2>7 DEF PageContent
    <2>9. [h EXCEPT !.slots = [hs EXCEPT ![s] = e]] = [c EXCEPT !.slots = [hs EXCEPT ![s] = e]]
      BY <1>1, <2>4, <2>7 DEF PageContent
    <2> QED
      BY <2>1, <2>5, <2>8, <2>9
  <1>4. e.live = FALSE /\ e.gen = c.slots[s].gen
    OBVIOUS
  <1> HIDE DEF e
  <1>5. Erased(c, s) = WithSlot(c, s, e)
    BY <1>3 DEF WithSlot
  <1> QED
    BY <1>2, <1>4, <1>5, SlotSet

(* replace changes its size. *)
LEMMA ResizeFacts ==
    ASSUME NEW c, GoodPage(c), NEW s \in DOMAIN c.slots, NEW n \in Nat
    PROVE  /\ GoodPage(Resized(c, s, n)) /\ Resized(c, s, n).init
           /\ DOMAIN Resized(c, s, n).slots = DOMAIN c.slots
           /\ c.slots[s].live => Resized(c, s, n).slots[s].live
           /\ Resized(c, s, n).slots[s].gen = c.slots[s].gen
           /\ Resized(c, s, n).slots[s].size = n
           /\ \A t \in DOMAIN c.slots \ {s} : Resized(c, s, n).slots[t] = c.slots[t]
  <1> DEFINE f == [c.slots[s] EXCEPT !.size = n]
  <1>1. c \in PageContent /\ c.slots \in Seq(Slot) /\ c.slots[s] \in Slot
    BY DEF GoodPage, PageContent
  <1>2. f \in Slot /\ (c.slots[s].live => f.live) /\ f.gen = c.slots[s].gen /\ f.size = n
    BY <1>1 DEF Slot
  <1>3. Resized(c, s, n) = [c EXCEPT !.slots = [c.slots EXCEPT ![s] = f]]
    BY <1>1 DEF Resized, PageContent
  <1> HIDE DEF f
  <1>4. Resized(c, s, n) = WithSlot(c, s, f)
    BY <1>3 DEF WithSlot
  <1> QED
    BY <1>2, <1>4, SlotSet

-----------------------------------------------------------------------------
(* The table as its slots: what LiveRids, Records and Issued depend on. *)

View == [p \in Pages |-> IF p \in Allocated THEN Content(p).slots ELSE <<>>]

LiveIn(F) ==
    {r \in Rids : /\ r.slot \in DOMAIN F[r.page]
                  /\ F[r.page][r.slot].live /\ r.gen = F[r.page][r.slot].gen}

IssuedIn(F) ==
    {r \in Rids : r.slot \in DOMAIN F[r.page] /\ r.gen <= F[r.page][r.slot].gen}

RecordsIn(F) == [r \in LiveIn(F) |-> F[r.page][r.slot].size]

(* The slots of each page are well formed. *)
GoodView(F) ==
    \A p \in Pages : /\ DOMAIN F[p] \subseteq 1..Capacity - 1
                     /\ \A s \in DOMAIN F[p] : F[p][s] \in Slot

(* A fetch shows the page as it is in the file. *)
LEMMA ContentIs ==
    ASSUME FileInv, PoolInv, NEW p \in Pages
    PROVE  /\ Content(p) = file.disk[p] /\ GoodPage(Content(p))
           /\ Content(p) \in PageContent /\ Content(p).init \in BOOLEAN
  <1>1. Content(p) = file.disk[p]
    BY DEF PoolInv, Content
  <1>2. GoodPage(file.disk[p])
    BY DEF FileInv
  <1> QED
    BY <1>1, <1>2 DEF GoodPage, PageContent

LEMMA ViewGood ==
    ASSUME FileInv, PoolInv
    PROVE  GoodView(View)
  <1> SUFFICES ASSUME NEW p \in Pages
               PROVE  /\ DOMAIN View[p] \subseteq 1..Capacity - 1
                      /\ \A s \in DOMAIN View[p] : View[p][s] \in Slot
    BY DEF GoodView
  <1>1. CASE p \in Allocated
    <2>1. View[p] = Content(p).slots /\ GoodPage(Content(p))
      BY <1>1, ContentIs DEF View
    <2> QED
      BY <2>1 DEF GoodPage, PageContent
  <1>2. CASE p \notin Allocated
    BY <1>2 DEF View
  <1> QED
    BY <1>1, <1>2

(* LiveRids, Records and Issued in terms of the slots. *)
LEMMA ViewIs ==
    ASSUME FileInv, PoolInv
    PROVE  LiveRids = LiveIn(View) /\ Records = RecordsIn(View) /\ Issued = IssuedIn(View)
  <1>0. GoodView(View) /\ Allocated \subseteq Pages
    BY ViewGood DEF Allocated
  <1>1. ASSUME NEW p \in Allocated
        PROVE  /\ p \in Pages /\ Content(p).slots = View[p]
               /\ \A s \in DOMAIN Content(p).slots :
                    /\ s \in 1..Capacity - 1 /\ View[p][s].gen \in 1..MaxGeneration
                    /\ View[p][s].live \in BOOLEAN
    <2>1. p \in Pages /\ Content(p).slots = View[p]
      BY <1>0 DEF View
    <2> QED
      BY <1>0, <2>1 DEF GoodView, Slot
  <1>2. \A p \in Pages \ Allocated : DOMAIN View[p] = {}
    BY DEF View
  <1>3. LiveRids \subseteq LiveIn(View)
    <2> SUFFICES ASSUME NEW p \in Allocated, NEW s \in Live(Content(p))
                 PROVE  Rid(p, s, Content(p)) \in LiveIn(View)
      BY DEF LiveRids
    <2>1. s \in DOMAIN Content(p).slots /\ Content(p).slots[s].live
      BY DEF Live
    <2>2. Rid(p, s, Content(p)) = [page |-> p, slot |-> s, gen |-> View[p][s].gen]
      BY <1>1 DEF Rid
    <2>3. [page |-> p, slot |-> s, gen |-> View[p][s].gen] \in Rids
      BY <1>1, <2>1 DEF Rids
    <2> QED
      BY <1>1, <2>1, <2>2, <2>3 DEF LiveIn
  <1>4. LiveIn(View) \subseteq LiveRids
    <2> SUFFICES ASSUME NEW r \in Rids, r.slot \in DOMAIN View[r.page],
                        View[r.page][r.slot].live, r.gen = View[r.page][r.slot].gen
                 PROVE  r \in LiveRids
      BY DEF LiveIn
    <2>1. r.page \in Pages
      BY DEF Rids
    <2>2. r.page \in Allocated
      BY <1>2, <2>1
    <2>3. r.slot \in Live(Content(r.page))
      BY <1>1, <2>2 DEF Live
    <2>4. r = Rid(r.page, r.slot, Content(r.page))
      BY <1>1, <2>2 DEF Rid, Rids
    <2> QED
      BY <2>2, <2>3, <2>4 DEF LiveRids
  <1>5. LiveRids = LiveIn(View)
    BY <1>3, <1>4
  <1>6. Records = RecordsIn(View)
    <2>1. ASSUME NEW r \in LiveIn(View)
          PROVE  Content(r.page).slots[r.slot].size = View[r.page][r.slot].size
      <3>1. r.page \in Pages /\ r.slot \in DOMAIN View[r.page]
        BY DEF LiveIn, Rids
      <3>2. r.page \in Allocated
        BY <1>2, <3>1
      <3> QED
        BY <1>1, <3>2
    <2> QED
      BY <1>5, <2>1 DEF Records, RecordsIn
  <1>7. Issued \subseteq IssuedIn(View)
    <2> SUFFICES ASSUME NEW p \in Allocated, NEW s \in DOMAIN Content(p).slots,
                        NEW g \in 1..Content(p).slots[s].gen
                 PROVE  [page |-> p, slot |-> s, gen |-> g] \in IssuedIn(View)
      BY DEF Issued
    <2>1. g \in 1..View[p][s].gen /\ View[p][s].gen \in 1..MaxGeneration
      BY <1>1
    <2>2. g \in 1..MaxGeneration /\ g <= View[p][s].gen
      BY <2>1, Constants
    <2>3. [page |-> p, slot |-> s, gen |-> g] \in Rids
      BY <1>1, <2>2 DEF Rids
    <2> QED
      BY <1>1, <2>2, <2>3 DEF IssuedIn
  <1>8. IssuedIn(View) \subseteq Issued
    <2> SUFFICES ASSUME NEW r \in Rids, r.slot \in DOMAIN View[r.page],
                        r.gen <= View[r.page][r.slot].gen
                 PROVE  r \in Issued
      BY DEF IssuedIn
    <2>1. r.page \in Pages /\ r.gen \in 1..MaxGeneration
          /\ r = [page |-> r.page, slot |-> r.slot, gen |-> r.gen]
      BY DEF Rids
    <2>2. r.page \in Allocated
      BY <1>2, <2>1
    <2>3. r.slot \in DOMAIN Content(r.page).slots
      BY <1>1, <2>2
    <2>4. r.gen \in 1..Content(r.page).slots[r.slot].gen
      BY <1>1, <2>1, <2>2, <2>3, Constants
    <2> QED
      BY <2>1, <2>2, <2>3, <2>4 DEF Issued
  <1> QED
    BY <1>5, <1>6, <1>7, <1>8

(* The same before and after a step. *)
ViewEq == LiveRids = LiveIn(View) /\ Records = RecordsIn(View) /\ Issued = IssuedIn(View)

LEMMA ViewEqual == FileInv /\ PoolInv => ViewEq
  BY ViewIs DEF ViewEq

LEMMA ViewIsGood == FileInv /\ PoolInv => GoodView(View)
  BY ViewGood

LEMMA ViewIsNext ==
    ASSUME FileInv', PoolInv'
    PROVE  LiveRids' = LiveIn(View') /\ Records' = RecordsIn(View') /\ Issued' = IssuedIn(View')
           /\ GoodView(View')
  <1>1. ViewEq'
    BY ViewEqual, PTL
  <1>2. GoodView(View)'
    BY ViewIsGood, PTL
  <1> QED
    BY <1>1, <1>2 DEF ViewEq, LiveIn, RecordsIn, IssuedIn, GoodView

(* A step that changes no slot changes no record. *)
LEMMA SameView ==
    ASSUME FileInv, PoolInv, FileInv', PoolInv', View' = View
    PROVE  LiveRids' = LiveRids /\ Records' = Records /\ Issued' = Issued
  <1>1. LiveRids = LiveIn(View) /\ Records = RecordsIn(View) /\ Issued = IssuedIn(View)
    BY ViewIs
  <1>2. LiveRids' = LiveIn(View') /\ Records' = RecordsIn(View') /\ Issued' = IssuedIn(View')
    BY ViewIsNext
  <1> QED
    BY <1>1, <1>2

(* Ids of the same page, slot and generation are the same. *)
LEMMA RidExt ==
    ASSUME NEW x \in Rids, NEW y \in Rids,
           x.page = y.page, x.slot = y.slot, x.gen = y.gen
    PROVE  x = y
  BY DEF Rids

(* A record in a slot that was free or new has an id that was never used. *)
LEMMA ViewInsert ==
    ASSUME NEW F, NEW G, GoodView(F), GoodView(G),
           NEW p \in Pages, NEW t \in 1..Capacity - 1, NEW n,
           \A q \in Pages \ {p} : G[q] = F[q],
           DOMAIN G[p] = DOMAIN F[p] \cup {t},
           \A s \in DOMAIN F[p] \ {t} : G[p][s] = F[p][s],
           t \in DOMAIN F[p] => ~F[p][t].live,
           G[p][t].live, G[p][t].size = n,
           G[p][t].gen = IF t \in DOMAIN F[p] THEN F[p][t].gen + 1 ELSE 1,
           NEW r \in Rids, r.page = p, r.slot = t, r.gen = G[p][t].gen
    PROVE  /\ r \notin IssuedIn(F) /\ r \notin LiveIn(F)
           /\ IssuedIn(G) = IssuedIn(F) \cup {r}
           /\ LiveIn(G) = LiveIn(F) \cup {r}
           /\ \A x \in LiveIn(F) : RecordsIn(G)[x] = RecordsIn(F)[x]
           /\ RecordsIn(G)[r] = n
  <1> DEFINE g == G[p][t].gen
  <1>1. /\ g \in 1..MaxGeneration /\ G[p][t].live /\ G[p][t].size = n
        /\ g = IF t \in DOMAIN F[p] THEN F[p][t].gen + 1 ELSE 1
    <2>1. G[p][t] \in Slot
      BY DEF GoodView
    <2> QED
      BY <2>1 DEF Slot
  <1>2. \A s \in DOMAIN F[p] : F[p][s].gen \in 1..MaxGeneration
    BY DEF GoodView, Slot
  <1> HIDE DEF g
  <1>3. r \in Rids /\ r.page = p /\ r.slot = t /\ r.gen = g
    BY DEF g
  <1>4. \A x \in Rids : x = r <=> x.page = p /\ x.slot = t /\ x.gen = g
    BY <1>3, RidExt
  <1>5. \A x \in Rids : x.page \in Pages /\ x.gen \in 1..MaxGeneration /\ x.gen \in Nat
    BY Constants DEF Rids
  <1>6. ASSUME NEW x \in Rids, ~(x.page = p /\ x.slot = t)
        PROVE  /\ x.slot \in DOMAIN G[x.page] <=> x.slot \in DOMAIN F[x.page]
               /\ x.slot \in DOMAIN F[x.page] => G[x.page][x.slot] = F[x.page][x.slot]
    BY <1>5, <1>6
  <1>7. r \notin IssuedIn(F) /\ r \notin LiveIn(F)
    <2> SUFFICES ASSUME t \in DOMAIN F[p] PROVE ~(g <= F[p][t].gen) /\ ~F[p][t].live
      BY <1>3 DEF IssuedIn, LiveIn
    <2> QED
      BY <1>1, <1>2, Constants
  <1>8. ASSUME NEW x \in Rids
        PROVE  x \in IssuedIn(G) <=> x \in IssuedIn(F) \/ x = r
    <2>1. CASE x.page = p /\ x.slot = t
      <3>1. x \in IssuedIn(G) <=> x.gen <= g
        BY <2>1 DEF IssuedIn, g
      <3>2. x \in IssuedIn(F) <=> t \in DOMAIN F[p] /\ x.gen <= F[p][t].gen
        BY <2>1 DEF IssuedIn
      <3>3. x = r <=> x.gen = g
        BY <1>4, <2>1
      <3>4. x.gen \in Nat /\ x.gen # 0 /\ g \in Nat
        BY <1>1, <1>5, Constants
      <3>5. CASE t \in DOMAIN F[p]
        <4>1. F[p][t].gen \in Nat /\ g = F[p][t].gen + 1
          BY <1>1, <1>2, <3>5, Constants
        <4> QED
          BY <3>1, <3>2, <3>3, <3>4, <3>5, <4>1
      <3>6. CASE t \notin DOMAIN F[p]
        BY <1>1, <3>1, <3>2, <3>3, <3>4, <3>6
      <3> QED
        BY <3>5, <3>6
    <2>2. CASE ~(x.page = p /\ x.slot = t)
      BY <1>4, <1>6, <2>2 DEF IssuedIn
    <2> QED
      BY <2>1, <2>2
  <1>9. ASSUME NEW x \in Rids
        PROVE  x \in LiveIn(G) <=> x \in LiveIn(F) \/ x = r
    <2>1. CASE x.page = p /\ x.slot = t
      <3>1. x \in LiveIn(G) <=> x.gen = g
        BY <1>1, <2>1 DEF LiveIn, g
      <3>2. x \notin LiveIn(F)
        BY <2>1 DEF LiveIn
      <3> QED
        BY <1>4, <2>1, <3>1, <3>2
    <2>2. CASE ~(x.page = p /\ x.slot = t)
      BY <1>4, <1>6, <2>2 DEF LiveIn
    <2> QED
      BY <2>1, <2>2
  <1>10. IssuedIn(G) = IssuedIn(F) \cup {r} /\ LiveIn(G) = LiveIn(F) \cup {r}
    <2>1. IssuedIn(G) \subseteq Rids /\ IssuedIn(F) \subseteq Rids
          /\ LiveIn(G) \subseteq Rids /\ LiveIn(F) \subseteq Rids
      BY DEF IssuedIn, LiveIn
    <2> QED
      BY <1>3, <1>8, <1>9, <2>1
  <1>11. ASSUME NEW x \in LiveIn(F) \cup {r}
         PROVE  G[x.page][x.slot].size = IF x = r THEN n ELSE RecordsIn(F)[x]
    <2>1. CASE x = r
      BY <1>1, <1>3, <2>1
    <2>2. CASE x # r
      <3>1. x \in LiveIn(F) /\ x \in Rids /\ x.slot \in DOMAIN F[x.page] /\ F[x.page][x.slot].live
        BY <2>2 DEF LiveIn
      <3>2. ~(x.page = p /\ x.slot = t)
        BY <3>1
      <3> QED
        BY <1>6, <2>2, <3>1, <3>2 DEF RecordsIn
    <2> QED
      BY <2>1, <2>2
  <1>12. \A x \in LiveIn(F) \cup {r} : RecordsIn(G)[x] = G[x.page][x.slot].size
    BY <1>10 DEF RecordsIn
  <1> QED
    BY <1>7, <1>10, <1>11, <1>12

(* What is left when the slot of a live record changes but not its         *)
(* generation.                                                             *)
LEMMA ViewChange ==
    ASSUME NEW F, NEW G, GoodView(F), GoodView(G), NEW r \in LiveIn(F),
           \A q \in Pages \ {r.page} : G[q] = F[q],
           DOMAIN G[r.page] = DOMAIN F[r.page],
           \A s \in DOMAIN F[r.page] \ {r.slot} : G[r.page][s] = F[r.page][s],
           G[r.page][r.slot].gen = F[r.page][r.slot].gen
    PROVE  /\ IssuedIn(G) = IssuedIn(F)
           /\ LiveIn(G) = IF G[r.page][r.slot].live THEN LiveIn(F) ELSE LiveIn(F) \ {r}
           /\ \A x \in LiveIn(F) \ {r} : G[x.page][x.slot].size = F[x.page][x.slot].size
  <1>1. /\ r \in Rids /\ r.page \in Pages /\ r.slot \in DOMAIN F[r.page]
        /\ F[r.page][r.slot].live /\ r.gen = F[r.page][r.slot].gen
    BY DEF LiveIn, Rids
  <1>2. \A x \in Rids : x.page \in Pages
    BY DEF Rids
  <1>3. ASSUME NEW x \in Rids, ~(x.page = r.page /\ x.slot = r.slot)
        PROVE  /\ x.slot \in DOMAIN G[x.page] <=> x.slot \in DOMAIN F[x.page]
               /\ x.slot \in DOMAIN F[x.page] => G[x.page][x.slot] = F[x.page][x.slot]
    BY <1>2, <1>3
  <1>4. ASSUME NEW x \in Rids, x.page = r.page, x.slot = r.slot, x.gen = r.gen
        PROVE  x = r
    BY <1>1, <1>4, RidExt
  <1>5. ASSUME NEW x \in Rids PROVE x \in IssuedIn(G) <=> x \in IssuedIn(F)
    <2>1. CASE x.page = r.page /\ x.slot = r.slot
      BY <1>1, <2>1 DEF IssuedIn
    <2>2. CASE ~(x.page = r.page /\ x.slot = r.slot)
      BY <1>3, <2>2 DEF IssuedIn
    <2> QED
      BY <2>1, <2>2
  <1>6. ASSUME NEW x \in Rids
        PROVE  x \in LiveIn(G) <=> x \in LiveIn(F) /\ (x = r => G[r.page][r.slot].live)
    <2>1. CASE x.page = r.page /\ x.slot = r.slot
      <3>1. x \in LiveIn(F) <=> x.gen = r.gen
        BY <1>1, <2>1 DEF LiveIn
      <3>2. x \in LiveIn(G) <=> x.gen = r.gen /\ G[r.page][r.slot].live
        BY <1>1, <2>1 DEF LiveIn
      <3> QED
        BY <1>4, <2>1, <3>1, <3>2
    <2>2. CASE ~(x.page = r.page /\ x.slot = r.slot)
      BY <1>3, <2>2 DEF LiveIn
    <2> QED
      BY <2>1, <2>2
  <1>7. IssuedIn(G) \subseteq Rids /\ IssuedIn(F) \subseteq Rids
        /\ LiveIn(G) \subseteq Rids /\ LiveIn(F) \subseteq Rids
    BY DEF IssuedIn, LiveIn
  <1>8. IssuedIn(G) = IssuedIn(F)
    BY <1>5, <1>7
  <1>9. LiveIn(G) = IF G[r.page][r.slot].live THEN LiveIn(F) ELSE LiveIn(F) \ {r}
    BY <1>6, <1>7
  <1>10. ASSUME NEW x \in LiveIn(F) \ {r}
         PROVE  G[x.page][x.slot].size = F[x.page][x.slot].size
    <2>1. x \in Rids /\ x.slot \in DOMAIN F[x.page] /\ x.gen = F[x.page][x.slot].gen
      BY DEF LiveIn
    <2>2. ~(x.page = r.page /\ x.slot = r.slot)
      BY <1>1, <1>4, <2>1
    <2> QED
      BY <1>3, <2>1, <2>2
  <1> QED
    BY <1>8, <1>9, <1>10

-----------------------------------------------------------------------------
(* What steps have in common *)

(* The step is one of the store, or none that the store sees. *)
StoreStep == Store!Next \/ UNCHANGED <<Records, Issued>>

LEMMA AllocatedIn == Allocated \subseteq Pages
  BY DEF Allocated

(* The pages of the file. *)
LEMMA FileShape ==
    ASSUME FileInv
    PROVE  /\ config.prefetch \in BOOLEAN /\ config.faults \in BOOLEAN
           /\ file.page_count \in Nat \ {0} /\ file.page_count <= MaxPages + 1
           /\ file.free \in Seq(Pages) /\ file.disk \in [Pages -> PageContent]
           /\ \A p \in Allocated : p \in Pages /\ p \in Nat /\ p < file.page_count
  <1>1. /\ config \in Configs /\ file.page_count \in 1..MaxPages + 1
        /\ file.free \in Seq(Pages) /\ file.disk \in [Pages -> PageContent]
    BY DEF FileInv
  <1>2. \A p \in Allocated : p \in Pages /\ p < file.page_count
    BY DEF Allocated
  <1>3. file.page_count \in Nat \ {0} /\ file.page_count <= MaxPages + 1
    BY <1>1, Constants
  <1>4. \A p \in Allocated : p \in Pages /\ p \in Nat /\ p < file.page_count
    BY <1>2, Constants
  <1> QED
    BY <1>1, <1>3, <1>4, Constants

(* The slots of the table are those of the allocated pages in the file. *)
DiskView == [p \in Pages |-> IF p \in Allocated THEN file.disk[p].slots ELSE <<>>]

ViewsAgree == View = DiskView

LEMMA ViewOnDisk == FileInv /\ PoolInv => ViewsAgree
  BY ContentIs DEF View, DiskView, ViewsAgree

LEMMA ViewOnDiskNext ==
    ASSUME FileInv', PoolInv'
    PROVE  View' = DiskView'
  <1>1. ViewsAgree'
    BY ViewOnDisk, PTL
  <1> QED
    BY <1>1 DEF ViewsAgree

(* A step that leaves the allocated pages with their slots changes no      *)
(* record.                                                                 *)
LEMMA Quiet ==
    ASSUME FileInv, PoolInv, FileInv', PoolInv', DiskView' = DiskView
    PROVE  LiveRids' = LiveRids /\ Records' = Records /\ Issued' = Issued
  BY ViewOnDisk, ViewOnDiskNext, SameView DEF ViewsAgree

(* A batch that stays where it is, or ends, still is a prefix. *)
LEMMA PrefixKept ==
    ASSUME PrefixInv, LiveRids' = LiveRids, Records' = Records,
           call'.op = call.op, call'.req = call.req, call'.done = call.done,
           call'.before = call.before,
           call'.op = "update" /\ call'.err = "invalid" => call.done = <<>>,
           call'.op = "update" /\ call'.pc = "row" => call.pc = "row"
    PROVE  PrefixInv'
  <1>1. Done' = Done
    BY DEF Done
  <1> QED
    BY <1>1 DEF PrefixInv

(* A scan stays what it is when no record and no end of file changes. *)
LEMMA ScanKept ==
    ASSUME ScanInv, LiveRids' = LiveRids, cursors' = cursors,
           DOMAIN cursors = {} \/ file'.page_count = file.page_count
    PROVE  ScanInv'
  BY DEF ScanInv

(* A record page gets new content. *)
LEMMA ChangeStep ==
    ASSUME FileInv, PoolInv, NEW p \in Allocated, NEW d, GoodPage(d), Change(p, d),
           UNCHANGED <<config, worker>>, worker.loading # p,
           call'.pc \notin {"bootstrap", "fresh"}
    PROVE  /\ FileInv' /\ PoolInv' /\ Allocated' = Allocated
           /\ file'.page_count = file.page_count /\ file'.poisoned = file.poisoned
           /\ file'.disk = [file.disk EXCEPT ![p] = d]
           /\ View' = [View EXCEPT ![p] = d.slots]
  <1>1. /\ file' = [file EXCEPT !.disk = [file.disk EXCEPT ![p] = d]] /\ p \in Pages
        /\ pool' = [q \in DOMAIN pool |-> IF q = p THEN d ELSE pool[q]]
    BY AllocatedIn DEF Change
  <1>2. /\ file'.page_count = file.page_count /\ file'.poisoned = file.poisoned
        /\ file'.free = file.free /\ file'.disk = [file.disk EXCEPT ![p] = d]
    BY <1>1 DEF FileInv
  <1>3. Allocated' = Allocated
    BY <1>2 DEF Allocated
  <1>4. /\ file'.disk \in [Pages -> PageContent] /\ file'.disk[p] = d
        /\ \A q \in Pages \ {p} : file'.disk[q] = file.disk[q]
    BY <1>1, <1>2 DEF FileInv, GoodPage
  <1>5. FileInv'
    <2>1. file' \in [page_count : 1..MaxPages + 1, free : Seq(Pages), poisoned : BOOLEAN,
                     disk : [Pages -> PageContent]]
      BY <1>1, <1>2, <1>4 DEF FileInv
    <2>2. \A q \in Pages : GoodPage(file'.disk[q])
      BY <1>4 DEF FileInv
    <2> QED
      BY <1>2, <2>1, <2>2 DEF FileInv
  <1>6. PoolInv'
    <2>1. DOMAIN pool' = DOMAIN pool /\ DOMAIN pool \subseteq Pages
      BY <1>1, AllocatedIn DEF PoolInv
    <2>2. \A q \in DOMAIN pool : pool'[q] = file'.disk[q]
      BY <1>1, <1>4, <2>1 DEF PoolInv
    <2>3. pool' = [q \in DOMAIN pool' |-> file'.disk[q]]
      BY <1>1, <2>1, <2>2
    <2>4. worker.loading # Nothing => file'.disk[worker.loading] = file.disk[worker.loading]
      BY <1>4 DEF PoolInv
    <2> QED
      BY <1>2, <1>3, <2>1, <2>3, <2>4 DEF PoolInv
  <1>7. View' = [View EXCEPT ![p] = d.slots]
    <2>1. View = DiskView /\ View' = DiskView'
      BY <1>5, <1>6, ViewOnDisk, ViewOnDiskNext DEF ViewsAgree
    <2>2. DiskView' = [q \in Pages |-> IF q \in Allocated THEN file'.disk[q].slots ELSE <<>>]
      BY <1>3 DEF DiskView
    <2>3. \A q \in Pages : DiskView'[q] = IF q = p THEN d.slots ELSE DiskView[q]
      BY <1>1, <1>4, <2>2 DEF DiskView
    <2>4. DiskView \in [Pages -> {DiskView[q] : q \in Pages}]
      BY DEF DiskView
    <2>5. DiskView' = [DiskView EXCEPT ![p] = d.slots]
      BY <1>1, <2>2, <2>3, <2>4 DEF DiskView
    <2> QED
      BY <2>1, <2>5
  <1> QED
    BY <1>2, <1>3, <1>5, <1>6, <1>7

-----------------------------------------------------------------------------
(* The pool and its worker *)

(* Steps of the pool: the file and the calls are as they were. *)
LEMMA PoolStep ==
    ASSUME HInv, UNCHANGED <<config, file, cursors, next_id, call>>, PoolInv'
    PROVE  HInv' /\ StoreStep
  <1>1. FileInv' /\ DiskView' = DiskView /\ Allocated' = Allocated
    BY DEF HInv, FileInv, DiskView, Allocated
  <1>2. LiveRids' = LiveRids /\ Records' = Records /\ Issued' = Issued
    BY <1>1, Quiet DEF HInv
  <1>3. CreationInv' /\ CallInv'
    BY <1>1 DEF HInv, CreationInv, CallInv
  <1>4. PrefixInv'
    BY <1>2, PrefixKept DEF HInv, PrefixInv
  <1>5. ScanInv'
    BY <1>2, ScanKept DEF HInv
  <1> QED
    BY <1>1, <1>2, <1>3, <1>4, <1>5 DEF HInv, StoreStep

LEMMA EvictStep ==
    ASSUME HInv, NEW p \in Pages, Evict(p)
    PROVE  HInv' /\ StoreStep
  <1>1. /\ pool' = [q \in DOMAIN pool \ {p} |-> pool[q]]
        /\ UNCHANGED <<config, file, worker, cursors, next_id, call>>
    BY DEF Evict
  <1>2. DOMAIN pool' \subseteq DOMAIN pool /\ pool' = [q \in DOMAIN pool' |-> file'.disk[q]]
    BY <1>1 DEF HInv, PoolInv
  <1>3. Allocated' = Allocated
    BY <1>1 DEF Allocated
  <1>4. PoolInv'
    BY <1>1, <1>2, <1>3 DEF HInv, PoolInv
  <1> QED
    BY <1>1, <1>4, PoolStep

LEMMA WorkerReadStep ==
    ASSUME HInv, NEW p \in Pages, WorkerRead(p)
    PROVE  HInv' /\ StoreStep
  <1>1. UNCHANGED <<config, file, pool, cursors, next_id, call>> /\ p \in worker.queue
        /\ Allocated' = Allocated
    BY DEF WorkerRead, Allocated
  <1>2. /\ worker.queue \in SUBSET Pages /\ worker.read \in PageContent
        /\ \A q \in worker.queue : q < file.page_count
        /\ config.prefetch
        /\ file.disk \in [Pages -> PageContent]
    BY <1>1, FileShape DEF HInv, PoolInv
  <1>3. CASE worker' = [queue |-> worker.queue \ {p}, loading |-> p, read |-> file.disk[p]]
             /\ p \in Allocated
    <2>1. /\ worker'.queue = worker.queue \ {p} /\ worker'.loading = p
          /\ worker'.read = file.disk[p]
          /\ worker' \in [queue : SUBSET Pages, loading : Pages \cup {Nothing},
                          read : PageContent]
      BY <1>2, <1>3
    <2>2. call.pc \in {"bootstrap", "fresh"} => call.page # p
      BY <1>1 DEF HInv, PoolInv
    <2>3. PoolInv'
      BY <1>1, <1>2, <1>3, <2>1, <2>2 DEF HInv, PoolInv
    <2> QED
      BY <1>1, <2>3, PoolStep
  <1>4. CASE worker' = [worker EXCEPT !.queue = @ \ {p}]
    <2>1. /\ worker'.queue = worker.queue \ {p} /\ worker'.loading = worker.loading
          /\ worker'.read = worker.read
          /\ worker' \in [queue : SUBSET Pages, loading : Pages \cup {Nothing},
                          read : PageContent]
      BY <1>2, <1>4 DEF HInv, PoolInv
    <2>2. PoolInv'
      BY <1>1, <1>2, <2>1 DEF HInv, PoolInv
    <2> QED
      BY <1>1, <2>2, PoolStep
  <1> QED
    BY <1>3, <1>4 DEF WorkerRead

LEMMA WorkerPublishStep ==
    ASSUME HInv, WorkerPublish
    PROVE  HInv' /\ StoreStep
  <1> DEFINE l == worker.loading
  <1>1. /\ UNCHANGED <<config, file, cursors, next_id, call>> /\ l # Nothing
        /\ pool' = [p \in DOMAIN pool \cup {l} |-> IF p = l THEN worker.read ELSE pool[p]]
        /\ worker' = [worker EXCEPT !.loading = Nothing, !.read = Zeroes]
        /\ Allocated' = Allocated
    BY DEF WorkerPublish, Allocated
  <1>2. /\ l \in Allocated /\ worker.read = file.disk[l] /\ config.prefetch
        /\ worker \in [queue : SUBSET Pages, loading : Pages \cup {Nothing}, read : PageContent]
    BY <1>1 DEF HInv, PoolInv
  <1>3. Zeroes \in PageContent
    BY DEF Zeroes, PageContent
  <1>4. /\ worker'.queue = worker.queue /\ worker'.loading = Nothing
        /\ worker' \in [queue : SUBSET Pages, loading : Pages \cup {Nothing}, read : PageContent]
    BY <1>1, <1>2, <1>3
  <1>5. /\ DOMAIN pool' = DOMAIN pool \cup {l}
        /\ \A p \in DOMAIN pool' : pool'[p] = file.disk[p]
    BY <1>1, <1>2 DEF HInv, PoolInv
  <1>6. pool' = [p \in DOMAIN pool' |-> file'.disk[p]]
    BY <1>1, <1>5
  <1>7. call.pc \in {"bootstrap", "fresh"} => call.page # Nothing /\ call.page # l
    BY Constants, AllocatedIn DEF HInv, PoolInv, CreationInv
  <1>8. PoolInv'
    BY <1>1, <1>2, <1>4, <1>5, <1>6, <1>7 DEF HInv, PoolInv
  <1> QED
    BY <1>1, <1>8, PoolStep

-----------------------------------------------------------------------------
(* Scans *)

(* The records a scan can meet: ids of pages before end, one for a slot. *)
Scannable(L, end) ==
    /\ L \subseteq Rids
    /\ \A r \in L : r.page < end
    /\ \A r, q \in L : r.page = q.page /\ r.slot = q.slot => r = q

LEMMA LiveScannable ==
    ASSUME FileInv, PoolInv
    PROVE  Scannable(LiveRids, file.page_count)
  <1>1. LiveRids = LiveIn(View)
    BY ViewIs
  <1>2. LiveRids \subseteq Rids
    BY <1>1 DEF LiveIn
  <1>3. ASSUME NEW r \in LiveRids PROVE r.page < file.page_count
    <2>1. r.page \in Pages /\ r.slot \in DOMAIN View[r.page]
      BY <1>1 DEF LiveIn, Rids
    <2>2. r.page \in Allocated
      BY <2>1 DEF View
    <2> QED
      BY <2>2 DEF Allocated
  <1>4. ASSUME NEW r \in LiveRids, NEW q \in LiveRids, r.page = q.page, r.slot = q.slot
        PROVE  r = q
    <2>1. r.gen = q.gen
      BY <1>1, <1>4 DEF LiveIn
    <2> QED
      BY <1>2, <1>4, <2>1, RidExt
  <1> QED
    BY <1>2, <1>3, <1>4 DEF Scannable

LEMMA RidTypes ==
    ASSUME NEW r \in Rids
    PROVE  r.page \in Nat \ {0} /\ r.slot \in Nat \ {0}
  <1>1. r.page \in Pages /\ r.slot \in 1..Capacity - 1
    BY DEF Rids
  <1>2. r.slot \in Nat \ {0}
    <2>1. Capacity \in Nat
      BY Constants
    <2> QED
      BY <1>1, <2>1
  <1> QED
    BY <1>1, <1>2, Constants

(* open_table *)
LEMMA CursorOpens ==
    ASSUME NEW L, NEW end \in Nat, Scannable(L, end)
    PROVE  CursorInv([page |-> 1, slot |-> 0, end |-> end, status |-> "active", seen |-> <<>>],
                     L, end)
  <1> DEFINE k == [page |-> 1, slot |-> 0, end |-> end, status |-> "active", seen |-> <<>>]
  <1>1. AheadOf(k, L) = L
    BY RidTypes DEF AheadOf, Scannable
  <1>2. {k.seen[i] : i \in DOMAIN k.seen} = {}
    OBVIOUS
  <1> QED
    BY <1>1, <1>2 DEF CursorInv

(* next_record returns the first record behind the position. *)
LEMMA CursorAdvances ==
    ASSUME NEW L, NEW end \in Nat, Scannable(L, end), NEW k, CursorInv(k, L, end),
           NEW r \in AheadOf(k, L), IsFirst(r, AheadOf(k, L)), k.status = "active"
    PROVE  CursorInv([Position(k, r.page) EXCEPT !.slot = r.slot, !.seen = Append(@, r)],
                     L, end)
  <1> DEFINE d == [Position(k, r.page) EXCEPT !.slot = r.slot, !.seen = Append(@, r)]
             n == Len(k.seen)
  <1>1. /\ k \in [page : Nat, slot : Nat, end : Nat, status : {"active", "eof", "failed"},
                  seen : Seq(Rids)]
        /\ k.end = end /\ r \in L /\ r \in Rids
        /\ r.page \in Nat \ {0} /\ r.slot \in Nat \ {0} /\ n \in Nat
    BY RidTypes DEF CursorInv, AheadOf, Scannable
  <1>2. /\ d \in [page : Nat, slot : Nat, end : Nat, status : {"active", "eof", "failed"},
                  seen : Seq(Rids)]
        /\ d.page = r.page /\ d.slot = r.slot /\ d.end = end /\ d.status = "active"
        /\ d.seen = Append(k.seen, r)
    <2> DEFINE m == Position(k, r.page)
    <2>1. /\ m \in [page : Nat, slot : Nat, end : Nat, status : {"active", "eof", "failed"},
                    seen : Seq(Rids)]
          /\ m.page = r.page /\ m.end = end /\ m.status = "active" /\ m.seen = k.seen
      BY <1>1 DEF Position
    <2>2. Append(k.seen, r) \in Seq(Rids)
      BY <1>1
    <2> HIDE DEF m
    <2>3. d = [m EXCEPT !.slot = r.slot, !.seen = Append(k.seen, r)]
      BY <2>1 DEF m
    <2> HIDE DEF d
    <2> QED
      BY <1>1, <2>1, <2>2, <2>3
  <1>3. \A x \in L : x.page \in Nat /\ x.slot \in Nat
    BY RidTypes DEF Scannable
  <1>4. ASSUME NEW x \in L PROVE x \in AheadOf(d, L) <=> x \in AheadOf(k, L) /\ x # r
    <2>1. x \in AheadOf(k, L) <=>
            x.page < end /\ (x.page > k.page \/ (x.page = k.page /\ x.slot > k.slot))
      BY <1>1 DEF AheadOf
    <2>2. x \in AheadOf(d, L) <=>
            x.page < end /\ (x.page > r.page \/ (x.page = r.page /\ x.slot > r.slot))
      BY <1>2 DEF AheadOf
    <2>3. r.page < end /\ (r.page > k.page \/ (r.page = k.page /\ r.slot > k.slot))
      BY <1>1 DEF AheadOf
    <2>4. x \in AheadOf(k, L) => r.page < x.page \/ (r.page = x.page /\ r.slot <= x.slot)
      BY DEF IsFirst
    <2>5. x.page = r.page /\ x.slot = r.slot => x = r
      BY <1>1 DEF Scannable
    <2>6. x.page \in Nat /\ x.slot \in Nat /\ k.page \in Nat /\ k.slot \in Nat
      BY <1>1, <1>3
    <2> QED
      BY <1>1, <2>1, <2>2, <2>3, <2>4, <2>5, <2>6
  <1>5. AheadOf(d, L) = AheadOf(k, L) \ {r}
    BY <1>4 DEF AheadOf
  <1>6. /\ DOMAIN d.seen = 1..n + 1 /\ DOMAIN k.seen = 1..n
        /\ \A i \in 1..n : d.seen[i] = k.seen[i]
        /\ d.seen[n + 1] = r
    BY <1>1, <1>2, SMTT(40)
  <1> HIDE DEF d
  <1>7. {d.seen[i] : i \in DOMAIN d.seen} = {k.seen[i] : i \in DOMAIN k.seen} \cup {r}
    <2>1. \A i \in 1..n + 1 : i \in 1..n \/ i = n + 1
      BY <1>1
    <2>2. \A i \in 1..n : i \in 1..n + 1
      BY <1>1
    <2>3. n + 1 \in 1..n + 1
      BY <1>1
    <2> QED
      BY <1>6, <2>1, <2>2, <2>3
  <1>8. {d.seen[i] : i \in DOMAIN d.seen} = L \ AheadOf(d, L)
    <2>1. {k.seen[i] : i \in DOMAIN k.seen} = L \ AheadOf(k, L)
      BY DEF CursorInv
    <2> QED
      BY <1>1, <1>5, <1>7, <2>1
  <1>9. ASSUME NEW i \in DOMAIN d.seen, NEW j \in DOMAIN d.seen, i < j
        PROVE  Precedes(d.seen[i], d.seen[j])
    <2>1. CASE j \in 1..n
      <3>1. i \in 1..n
        BY <1>1, <1>6, <1>9, <2>1
      <3> QED
        BY <1>6, <1>9, <2>1, <3>1 DEF CursorInv
    <2>2. CASE j = n + 1
      <3>1. i \in 1..n
        BY <1>1, <1>6, <1>9, <2>2
      <3> DEFINE x == k.seen[i]
      <3>2. x \in L /\ x \notin AheadOf(k, L)
        BY <1>6, <3>1 DEF CursorInv
      <3> HIDE DEF x
      <3>3. x.page < end /\ x.page \in Nat /\ x.slot \in Nat /\ k.page \in Nat /\ k.slot \in Nat
        BY <1>1, <1>3, <3>2 DEF Scannable
      <3>4. ~(x.page > k.page \/ (x.page = k.page /\ x.slot > k.slot))
        BY <1>1, <3>2, <3>3 DEF AheadOf
      <3>5. r.page > k.page \/ (r.page = k.page /\ r.slot > k.slot)
        BY DEF AheadOf
      <3>6. Precedes(x, r)
        BY <1>1, <3>3, <3>4, <3>5 DEF Precedes
      <3> QED
        BY <1>6, <2>2, <3>1, <3>6 DEF x
    <2> QED
      BY <1>1, <1>6, <2>1, <2>2
  <1>10. CursorInv(d, L, end)
    BY <1>2, <1>8, <1>9 DEF CursorInv
  <1> QED
    BY <1>10 DEF d

(* next_record finds no more. *)
LEMMA CursorEnds ==
    ASSUME NEW L, NEW end \in Nat, Scannable(L, end), NEW k, CursorInv(k, L, end),
           AheadOf(k, L) = {}
    PROVE  CursorInv([Position(k, k.end) EXCEPT !.status = "eof"], L, end)
  <1> DEFINE d == [Position(k, k.end) EXCEPT !.status = "eof"]
  <1>1. /\ k \in [page : Nat, slot : Nat, end : Nat, status : {"active", "eof", "failed"},
                  seen : Seq(Rids)]
        /\ k.end = end
    BY DEF CursorInv
  <1>2. /\ d \in [page : Nat, slot : Nat, end : Nat, status : {"active", "eof", "failed"},
                  seen : Seq(Rids)]
        /\ d.page = end /\ d.slot = 0 /\ d.end = end /\ d.seen = k.seen
    BY <1>1 DEF Position
  <1>3. AheadOf(d, L) = {}
    <2>1. \A x \in L : x.page \in Nat
      BY RidTypes DEF Scannable
    <2> QED
      BY <1>2, <2>1 DEF AheadOf
  <1> HIDE DEF d
  <1>4. CursorInv(d, L, end)
    BY <1>1, <1>2, <1>3 DEF CursorInv
  <1> QED
    BY <1>4 DEF d

(* A failure leaves the position. *)
LEMMA CursorFails ==
    ASSUME NEW L, NEW end, NEW k, CursorInv(k, L, end)
    PROVE  CursorInv([k EXCEPT !.status = "failed"], L, end)
  <1> DEFINE d == [k EXCEPT !.status = "failed"]
  <1>1. k \in [page : Nat, slot : Nat, end : Nat, status : {"active", "eof", "failed"},
               seen : Seq(Rids)]
    BY DEF CursorInv
  <1>2. /\ d \in [page : Nat, slot : Nat, end : Nat, status : {"active", "eof", "failed"},
                  seen : Seq(Rids)]
        /\ d.page = k.page /\ d.slot = k.slot /\ d.end = k.end /\ d.seen = k.seen
        /\ d.status = "failed"
    BY <1>1
  <1> HIDE DEF d
  <1>3. AheadOf(d, L) = AheadOf(k, L)
    BY <1>2 DEF AheadOf
  <1>4. CursorInv(d, L, end)
    BY <1>2, <1>3 DEF CursorInv
  <1> QED
    BY <1>4 DEF d

(* A step of a cursor: no batch is under way, and the table does not       *)
(* change.                                                                 *)
LEMMA CursorStep ==
    ASSUME HInv, call.pc = "idle", UNCHANGED <<config, file, pool, call>>, PoolInv'
    PROVE  /\ LiveRids' = LiveRids
           /\ ScanInv' => HInv' /\ StoreStep
  <1>1. FileInv' /\ DiskView' = DiskView /\ Allocated' = Allocated
    BY DEF HInv, FileInv, DiskView, Allocated
  <1>2. LiveRids' = LiveRids /\ Records' = Records /\ Issued' = Issued
    BY <1>1, Quiet DEF HInv
  <1>3. CreationInv' /\ CallInv'
    BY <1>1 DEF HInv, CreationInv, CallInv
  <1>4. PrefixInv'
    BY <1>2, PrefixKept DEF HInv, PrefixInv
  <1> QED
    BY <1>1, <1>2, <1>3, <1>4 DEF HInv, StoreStep

(* Announcing pages puts pages of the file into the queue. *)
LEMMA AnnounceKeeps ==
    ASSUME HInv, call.pc = "idle", UNCHANGED <<config, file, pool, call>>,
           NEW k, k.end = file.page_count, NEW last, Announce(k, last)
    PROVE  PoolInv'
  <1>0. Allocated' = Allocated
    BY DEF Allocated
  <1>1. CASE ~config.prefetch
    BY <1>0, <1>1 DEF HInv, PoolInv, Announce
  <1>2. CASE config.prefetch
    <2>1. PICK q \in SUBSET Announced(k, last) :
                worker' = [worker EXCEPT !.queue = @ \cup (q \ {worker.loading})]
      BY <1>2 DEF Announce
    <2>2. ASSUME NEW x \in q PROVE x \in Pages /\ x < file.page_count
      <3>1. PICK y \in Visited(k, last) : x = y + 1 /\ y + 1 < k.end
        BY DEF Announced
      <3>2. y \in Allocated
        BY DEF Visited
      <3>3. /\ y \in Nat /\ file.page_count \in Nat /\ file.page_count <= MaxPages + 1
            /\ MaxPages \in Nat
        BY <3>2, FileShape, Constants DEF HInv
      <3> QED
        BY <3>1, <3>3 DEF Pages
    <2>3. worker \in [queue : SUBSET Pages, loading : Pages \cup {Nothing}, read : PageContent]
      BY DEF HInv, PoolInv
    <2>4. /\ worker' \in [queue : SUBSET Pages, loading : Pages \cup {Nothing},
                          read : PageContent]
          /\ worker'.loading = worker.loading /\ worker'.read = worker.read
          /\ worker'.queue = worker.queue \cup (q \ {worker.loading})
      BY <2>1, <2>2, <2>3
    <2>5. \A x \in worker'.queue : x < file.page_count
      BY <2>2, <2>4 DEF HInv, PoolInv
    <2> QED
      BY <1>0, <1>2, <2>4, <2>5 DEF HInv, PoolInv
  <1>3. config.prefetch \in BOOLEAN
    BY FileShape DEF HInv
  <1> QED
    BY <1>1, <1>2, <1>3

(* What the invariant says of one cursor. *)
LEMMA CursorFacts ==
    ASSUME HInv, NEW c \in DOMAIN cursors
    PROVE  /\ CursorInv(cursors[c], LiveRids, file.page_count)
           /\ cursors[c].end = file.page_count /\ file.page_count \in Nat
           /\ Ahead(cursors[c]) = AheadOf(cursors[c], LiveRids)
           /\ Scannable(LiveRids, file.page_count)
  <1>1. CursorInv(cursors[c], LiveRids, file.page_count)
    BY DEF HInv, ScanInv
  <1>2. cursors[c].end = file.page_count
    BY <1>1 DEF CursorInv
  <1>3. Ahead(cursors[c]) = AheadOf(cursors[c], LiveRids)
    BY DEF Ahead, AheadOf
  <1> QED
    BY <1>1, <1>2, <1>3, FileShape, LiveScannable DEF HInv

(* One cursor gets a new state. *)
LEMMA CursorSet ==
    ASSUME HInv, NEW c \in DOMAIN cursors, NEW k, cursors' = [cursors EXCEPT ![c] = k],
           LiveRids' = LiveRids, file' = file, CursorInv(k, LiveRids, file.page_count)
    PROVE  ScanInv'
  <1>1. /\ DOMAIN cursors' = DOMAIN cursors /\ cursors'[c] = k
        /\ \A d \in DOMAIN cursors \ {c} : cursors'[d] = cursors[d]
    OBVIOUS
  <1>2. \A d \in DOMAIN cursors' : CursorInv(cursors'[d], LiveRids, file.page_count)
    BY <1>1 DEF HInv, ScanInv
  <1> QED
    BY <1>2 DEF ScanInv

LEMMA OpenTableStep ==
    ASSUME HInv, open_table
    PROVE  HInv' /\ StoreStep
  <1> DEFINE k == [page |-> 1, slot |-> 0, end |-> file.page_count,
                   status |-> "active", seen |-> <<>>]
  <1>1. /\ call.pc = "idle" /\ UNCHANGED <<config, file, pool, worker, call>>
        /\ cursors' = [c \in DOMAIN cursors \cup {next_id} |->
                          IF c = next_id THEN k ELSE cursors[c]]
    BY DEF open_table, NoBatch
  <1>2. PoolInv'
    BY <1>1 DEF HInv, PoolInv, Allocated
  <1>3. LiveRids' = LiveRids /\ (ScanInv' => HInv' /\ StoreStep)
    BY <1>1, <1>2, CursorStep
  <1>4. CursorInv(k, LiveRids, file.page_count)
    BY LiveScannable, FileShape, CursorOpens DEF HInv
  <1> HIDE DEF k
  <1>5. \A c \in DOMAIN cursors' : CursorInv(cursors'[c], LiveRids, file.page_count)
    BY <1>1, <1>4 DEF HInv, ScanInv
  <1>6. ScanInv'
    BY <1>1, <1>3, <1>5 DEF ScanInv
  <1> QED
    BY <1>3, <1>6

LEMMA ScanRecordStep ==
    ASSUME HInv, NEW c \in DOMAIN cursors, ScanRecord(c)
    PROVE  HInv' /\ StoreStep
  <1> DEFINE k == cursors[c]
  <1>1. /\ call.pc = "idle" /\ UNCHANGED <<config, file, pool, call>> /\ k.status = "active"
    BY DEF ScanRecord, NoBatch
  <1>2. PICK r \in Ahead(k) :
          /\ IsFirst(r, Ahead(k))
          /\ cursors' = [cursors EXCEPT ![c] =
                            [Position(k, r.page) EXCEPT !.slot = r.slot, !.seen = Append(@, r)]]
          /\ Announce(k, r.page)
    BY DEF ScanRecord
  <1>3. PoolInv'
    BY <1>1, <1>2, AnnounceKeeps, CursorFacts
  <1>4. LiveRids' = LiveRids /\ (ScanInv' => HInv' /\ StoreStep)
    BY <1>1, <1>3, CursorStep
  <1> DEFINE d == [Position(k, r.page) EXCEPT !.slot = r.slot, !.seen = Append(@, r)]
  <1>5. CursorInv(d, LiveRids, file.page_count)
    <2>1. r \in AheadOf(k, LiveRids) /\ IsFirst(r, AheadOf(k, LiveRids))
      BY <1>2, CursorFacts
    <2> HIDE DEF k
    <2> QED
      BY <1>1, <2>1, CursorFacts, CursorAdvances DEF k
  <1> HIDE DEF d
  <1>6. ScanInv'
    BY <1>1, <1>2, <1>4, <1>5, CursorSet DEF d
  <1> QED
    BY <1>4, <1>6

LEMMA ScanEndStep ==
    ASSUME HInv, NEW c \in DOMAIN cursors, ScanEnd(c)
    PROVE  HInv' /\ StoreStep
  <1> DEFINE k == cursors[c]
             d == [Position(k, k.end) EXCEPT !.status = "eof"]
  <1>1. /\ call.pc = "idle" /\ UNCHANGED <<config, file, pool, call>> /\ Ahead(k) = {}
        /\ cursors' = [cursors EXCEPT ![c] = d] /\ Announce(k, k.end)
    BY DEF ScanEnd, NoBatch
  <1>2. PoolInv'
    BY <1>1, AnnounceKeeps, CursorFacts
  <1>3. LiveRids' = LiveRids /\ (ScanInv' => HInv' /\ StoreStep)
    BY <1>1, <1>2, CursorStep
  <1>4. CursorInv(d, LiveRids, file.page_count)
    BY <1>1, CursorFacts, CursorEnds
  <1> HIDE DEF d
  <1>5. ScanInv'
    BY <1>1, <1>3, <1>4, CursorSet
  <1> QED
    BY <1>3, <1>5

LEMMA ScanFailsStep ==
    ASSUME HInv, NEW c \in DOMAIN cursors, ScanFails(c)
    PROVE  HInv' /\ StoreStep
  <1> DEFINE d == [cursors[c] EXCEPT !.status = "failed"]
  <1>1. /\ call.pc = "idle" /\ UNCHANGED <<config, file, pool, worker, call>>
        /\ cursors' = [cursors EXCEPT ![c] = d]
    BY DEF ScanFails, NoBatch
  <1>2. PoolInv'
    BY <1>1 DEF HInv, PoolInv, Allocated
  <1>3. LiveRids' = LiveRids /\ (ScanInv' => HInv' /\ StoreStep)
    BY <1>1, <1>2, CursorStep
  <1>4. CursorInv(d, LiveRids, file.page_count)
    BY CursorFacts, CursorFails
  <1> HIDE DEF d
  <1>5. ScanInv'
    BY <1>1, <1>3, <1>4, CursorSet
  <1> QED
    BY <1>3, <1>5

LEMMA CloseCursorStep ==
    ASSUME HInv, NEW c \in DOMAIN cursors, close_cursor(c)
    PROVE  HInv' /\ StoreStep
  <1>1. /\ call.pc = "idle" /\ UNCHANGED <<config, file, pool, worker, call>>
        /\ cursors' = [d \in DOMAIN cursors \ {c} |-> cursors[d]]
    BY DEF close_cursor, NoBatch
  <1>2. PoolInv'
    BY <1>1 DEF HInv, PoolInv, Allocated
  <1>3. LiveRids' = LiveRids /\ (ScanInv' => HInv' /\ StoreStep)
    BY <1>1, <1>2, CursorStep
  <1>4. ScanInv'
    BY <1>1, <1>3 DEF HInv, ScanInv
  <1> QED
    BY <1>3, <1>4

-----------------------------------------------------------------------------
(* Batches *)

Errors == {"none", "io", "corrupt", "invalid", "too_large"}

(* A batch that ends keeps what it did. *)
LEMMA FinishFacts ==
    ASSUME CallInv, call.pc # "idle", NEW err \in Errors, Finish(err), cursors' = cursors
    PROVE  /\ CallInv'
           /\ call'.op = call.op /\ call'.req = call.req /\ call'.done = call.done
           /\ call'.before = call.before /\ call'.pc = "done" /\ call'.err = err
  <1>1. call' = [call EXCEPT !.pc = "done", !.err = err, !.page = Nothing]
    BY DEF Finish
  <1>2. call \in [op : {"none", "insert", "delete", "update"},
                  pc : {"idle", "row", "bootstrap", "fresh", "done"},
                  req : {call.req}, done : Seq(Rids), page : Pages \cup {Nothing},
                  err : Errors, before : {call.before}]
    BY DEF CallInv, Errors
  <1>3. /\ call'.op = call.op /\ call'.req = call.req /\ call'.done = call.done
        /\ call'.before = call.before /\ call'.pc = "done" /\ call'.err = err
    BY <1>1, <1>2
  <1>4. call' \in [op : {"none", "insert", "delete", "update"},
                   pc : {"idle", "row", "bootstrap", "fresh", "done"},
                   req : {call.req}, done : Seq(Rids), page : Pages \cup {Nothing},
                   err : Errors, before : {call.before}]
    BY <1>1, <1>2
  <1> QED
    BY <1>3, <1>4 DEF CallInv, Errors

(* The batch ends, and the table keeps its slots. *)
LEMMA FinishStep ==
    ASSUME HInv, call.pc # "idle", NEW err \in Errors, Finish(err),
           UNCHANGED <<config, cursors>>, FileInv', PoolInv', DiskView' = DiskView,
           call.op = "update" /\ err = "invalid" => call.done = <<>>,
           ~file'.poisoned => \A p \in Allocated' : file'.disk[p].init
    PROVE  HInv' /\ StoreStep
  <1>1. /\ CallInv'
        /\ call'.op = call.op /\ call'.req = call.req /\ call'.done = call.done
        /\ call'.before = call.before /\ call'.pc = "done" /\ call'.err = err
    BY FinishFacts DEF HInv
  <1>2. LiveRids' = LiveRids /\ Records' = Records /\ Issued' = Issued
    BY Quiet DEF HInv
  <1>3. PrefixInv'
    BY <1>1, <1>2, PrefixKept DEF HInv
  <1>4. ScanInv'
    BY <1>2, ScanKept DEF HInv, CallInv
  <1>5. CreationInv'
    BY <1>1 DEF CreationInv
  <1> QED
    BY <1>1, <1>2, <1>3, <1>4, <1>5 DEF HInv, StoreStep

(* The same when nothing else changes. *)
LEMMA FinishQuiet ==
    ASSUME HInv, call.pc \in {"row", "fresh"}, NEW err \in Errors, Finish(err),
           UNCHANGED <<config, file, pool, worker, cursors>>,
           call.op = "update" /\ err = "invalid" => call.done = <<>>
    PROVE  HInv' /\ StoreStep
  <1>1. FileInv' /\ DiskView' = DiskView /\ Allocated' = Allocated
    BY DEF HInv, FileInv, DiskView, Allocated
  <1>2. call'.pc = "done"
    BY FinishFacts DEF HInv
  <1>3. PoolInv'
    BY <1>1, <1>2 DEF HInv, PoolInv
  <1>4. ~file'.poisoned => \A p \in Allocated' : file'.disk[p].init
    BY <1>1 DEF HInv, CreationInv
  <1> QED
    BY <1>1, <1>3, <1>4, FinishStep

LEMMA RowFailsStep ==
    ASSUME HInv, RowFails
    PROVE  HInv' /\ StoreStep
  <1>1. call.pc = "row" /\ UNCHANGED <<config, file, pool, worker, cursors>>
        /\ (Finish("io") \/ Finish("corrupt"))
    BY DEF RowFails
  <1>2. "io" \in Errors /\ "corrupt" \in Errors
    BY DEF Errors
  <1> QED
    BY <1>1, <1>2, FinishQuiet

LEMMA FreshFailsStep ==
    ASSUME HInv, FreshFails
    PROVE  HInv' /\ StoreStep
  <1>1. call.pc = "fresh" /\ UNCHANGED <<config, file, pool, worker, cursors>> /\ Finish("io")
    BY DEF FreshFails
  <1>2. "io" \in Errors
    BY DEF Errors
  <1> QED
    BY <1>1, <1>2, FinishQuiet

LEMMA AllocateFailsStep ==
    ASSUME HInv, AllocateFails
    PROVE  HInv' /\ StoreStep
  <1>1. call.pc = "row" /\ UNCHANGED <<config, pool, worker, cursors>> /\ Finish("io")
    BY DEF AllocateFails, InRow
  <1>2. "io" \in Errors
    BY DEF Errors
  <1>3. CASE UNCHANGED file
    BY <1>1, <1>2, <1>3, FinishQuiet
  <1>4. CASE file' = [file EXCEPT !.poisoned = TRUE]
    <2>1. /\ file'.page_count = file.page_count /\ file'.free = file.free
          /\ file'.disk = file.disk /\ file'.poisoned
          /\ file' \in [page_count : 1..MaxPages + 1, free : Seq(Pages), poisoned : BOOLEAN,
                        disk : [Pages -> PageContent]]
      BY <1>4 DEF HInv, FileInv
    <2>2. FileInv'
      BY <1>1, <2>1 DEF HInv, FileInv
    <2>3. Allocated' = Allocated /\ DiskView' = DiskView
      BY <2>1 DEF Allocated, DiskView
    <2>4. call'.pc = "done"
      BY <1>1, <1>2, FinishFacts DEF HInv
    <2>5. PoolInv'
      BY <1>1, <2>1, <2>3, <2>4 DEF HInv, PoolInv
    <2> QED
      BY <1>1, <1>2, <2>1, <2>2, <2>3, <2>5, FinishStep
  <1> QED
    BY <1>3, <1>4 DEF AllocateFails

(* A failing bootstrap write gives the page back, or the file up. *)
LEMMA BootstrapFailsStep ==
    ASSUME HInv, Sane, BootstrapFails
    PROVE  HInv' /\ StoreStep
  <1> DEFINE p == call.page
  <1>1. /\ call.pc = "bootstrap" /\ UNCHANGED <<config, pool, worker, cursors>> /\ Finish("io")
        /\ config.faults
    BY DEF BootstrapFails
  <1>2. "io" \in Errors
    BY DEF Errors
  <1>3. p \in Allocated /\ p \in Pages /\ file.disk[p] = Zeroes /\ ~file.poisoned
    BY <1>1, AllocatedIn DEF HInv, CreationInv
  <1>4. ~config.prefetch
    BY <1>1 DEF Sane
  <1>5. call'.pc = "done"
    BY <1>1, <1>2, FinishFacts DEF HInv
  <1>6. CASE file' = [file EXCEPT !.poisoned = TRUE]
    <2>1. /\ file'.page_count = file.page_count /\ file'.free = file.free
          /\ file'.disk = file.disk /\ file'.poisoned
          /\ file' \in [page_count : 1..MaxPages + 1, free : Seq(Pages), poisoned : BOOLEAN,
                        disk : [Pages -> PageContent]]
      BY <1>6 DEF HInv, FileInv
    <2>2. FileInv'
      BY <1>1, <2>1 DEF HInv, FileInv
    <2>3. Allocated' = Allocated /\ DiskView' = DiskView
      BY <2>1 DEF Allocated, DiskView
    <2>4. PoolInv'
      BY <1>1, <1>5, <2>1, <2>3 DEF HInv, PoolInv
    <2> QED
      BY <1>1, <1>2, <2>1, <2>2, <2>3, <2>4, FinishStep
  <1>7. CASE file' = Compensated
    <2> DEFINE free == <<p>> \o file.free
               n == Len(file.free)
               disk == [file.disk EXCEPT ![p] = Zeroes]
    <2>1. file.free \in Seq(Pages) /\ n \in Nat /\ file.disk \in [Pages -> PageContent]
      BY FileShape DEF HInv
    <2>2. /\ free \in Seq(Pages) /\ Len(free) = n + 1 /\ free[1] = p
          /\ \A i \in 1..n : free[i + 1] = file.free[i]
      BY <1>3, <2>1
    <2>3. disk = file.disk
      BY <1>3, <2>1
    <2>4. /\ file'.page_count = file.page_count /\ file'.free = free
          /\ file'.disk = file.disk /\ file'.poisoned = FALSE
          /\ file' \in [page_count : 1..MaxPages + 1, free : Seq(Pages), poisoned : BOOLEAN,
                        disk : [Pages -> PageContent]]
      <3>1. file' = [file EXCEPT !.free = free, !.disk = disk]
        BY <1>7, <2>1 DEF Compensated, HInv, FileInv
      <3> HIDE DEF free, disk
      <3> QED
        BY <1>3, <2>1, <2>2, <2>3, <3>1 DEF HInv, FileInv
    <2> HIDE DEF free
    <2>5. DOMAIN free = 1..n + 1 /\ DOMAIN file.free = 1..n
      BY <2>1, <2>2
    <2>6. \A i \in 1..n + 1 : i = 1 \/ (i - 1 \in 1..n /\ free[i] = file.free[i - 1])
      <3>1. \A i \in 1..n + 1 : i = 1 \/ (i - 1 \in 1..n /\ (i - 1) + 1 = i)
        BY <2>1
      <3> QED
        BY <2>2, <3>1
    <2>7. \A i \in 1..n : file.free[i] # p
      BY <1>3, <2>5 DEF Allocated
    <2>8. FileInv'
      <3>1. \A i \in DOMAIN free : free[i] < file.page_count
        BY <1>3, <2>2, <2>5, <2>6 DEF HInv, FileInv, Allocated
      <3>2. ASSUME NEW i \in DOMAIN free, NEW j \in DOMAIN free, i # j
            PROVE  free[i] # free[j]
        <4>1. i \in Nat /\ j \in Nat
          BY <2>1, <2>5
        <4>2. CASE i = 1
          BY <2>2, <2>5, <2>6, <2>7, <3>2, <4>2
        <4>3. CASE j = 1
          BY <2>2, <2>5, <2>6, <2>7, <3>2, <4>3
        <4>4. CASE i # 1 /\ j # 1
          <5>1. i - 1 # j - 1
            BY <3>2, <4>1
          <5> QED
            BY <2>5, <2>6, <4>4, <5>1 DEF HInv, FileInv
        <4> QED
          BY <4>2, <4>3, <4>4
      <3> QED
        BY <1>1, <2>4, <3>1, <3>2 DEF HInv, FileInv
    <2>9. Allocated' = Allocated \ {p}
      <3>1. ASSUME NEW q \in Pages
            PROVE  (\A i \in DOMAIN free : free[i] # q) <=>
                       (q # p /\ \A i \in DOMAIN file.free : file.free[i] # q)
        <4>1. \A i \in 1..n : i + 1 \in 1..n + 1
          BY <2>1
        <4>2. 1 \in 1..n + 1
          BY <2>1
        <4>3. ASSUME \A i \in DOMAIN free : free[i] # q
              PROVE  q # p /\ \A i \in DOMAIN file.free : file.free[i] # q
          <5>1. q # p
            BY <2>2, <2>5, <4>2, <4>3
          <5>2. ASSUME NEW i \in 1..n PROVE file.free[i] # q
            BY <2>2, <2>5, <4>1, <4>3
          <5> QED
            BY <2>5, <5>1, <5>2
        <4>4. ASSUME q # p, \A i \in DOMAIN file.free : file.free[i] # q, NEW i \in 1..n + 1
              PROVE  free[i] # q
          BY <2>2, <2>5, <2>6, <4>4, SMTT(40)
        <4> QED
          BY <2>5, <4>3, <4>4
      <3> QED
        BY <2>4, <3>1 DEF Allocated
    <2>10. DiskView' = DiskView
      <3>1. \A q \in Pages : DiskView'[q] = DiskView[q]
        <4>1. DiskView[p] = <<>>
          BY <1>3 DEF DiskView, Zeroes
        <4> QED
          BY <2>4, <2>9, <4>1 DEF DiskView
      <3> QED
        BY <3>1 DEF DiskView
    <2>11. PoolInv'
      BY <1>1, <1>4, <1>5, <2>4, <2>9 DEF HInv, PoolInv
    <2>12. \A q \in Allocated' : file'.disk[q].init
      BY <1>3, <2>4, <2>9 DEF HInv, CreationInv
    <2> QED
      BY <1>1, <1>2, <2>8, <2>10, <2>11, <2>12, FinishStep
  <1> QED
    BY <1>6, <1>7 DEF BootstrapFails

(* A batch begins: no cursor is open, and no row is done. *)
LEMMA CallStarts ==
    ASSUME HInv, Admitted, UNCHANGED <<config, file, pool, worker, cursors>>,
           NEW op \in {"insert", "delete", "update"}, NEW pc \in {"row", "done"},
           NEW req, NEW err \in Errors,
           call' = [op |-> op, pc |-> pc, req |-> req, done |-> <<>>, page |-> Nothing,
                    err |-> err, before |-> Records],
           op = "insert" => req \in Seq(Sizes),
           op = "delete" => req \in Seq(Rids),
           op = "update" => req \in Seq(Updates),
           req # <<>>, pc = "row" => err = "none",
           op = "update" /\ pc = "row" => Updatable(req)
    PROVE  HInv' /\ StoreStep
  <1>1. call.pc = "idle" /\ ~file.poisoned /\ DOMAIN cursors = {}
    BY DEF Admitted, NoBatch
  <1>2. /\ call'.op = op /\ call'.pc = pc /\ call'.req = req /\ call'.done = <<>>
        /\ call'.page = Nothing /\ call'.err = err /\ call'.before = Records
    OBVIOUS
  <1>3. FileInv' /\ DiskView' = DiskView /\ Allocated' = Allocated
    BY DEF HInv, FileInv, DiskView, Allocated
  <1>4. PoolInv'
    BY <1>2, <1>3 DEF HInv, PoolInv
  <1>5. LiveRids' = LiveRids /\ Records' = Records /\ Issued' = Issued
    BY <1>3, <1>4, Quiet DEF HInv
  <1>6. LiveRids \subseteq Rids /\ DOMAIN Records = LiveRids
    BY LiveScannable DEF HInv, Scannable, Records
  <1>7. CreationInv'
    BY <1>1, <1>2, <1>3 DEF HInv, CreationInv
  <1>8. ScanInv'
    BY <1>1, <1>5, ScanKept DEF HInv
  <1>9. CallInv'
    <2>1. Len(req) \in Nat /\ 0 < Len(req)
      BY EmptySeq, LenProperties
    <2>2. call' \in [op : {"none", "insert", "delete", "update"},
                     pc : {"idle", "row", "bootstrap", "fresh", "done"},
                     req : {call'.req}, done : Seq(Rids), page : Pages \cup {Nothing},
                     err : Errors, before : {call'.before}]
      BY <1>2
    <2>3. Len(call'.done) = 0
      BY <1>2
    <2> QED
      BY <1>1, <1>2, <1>6, <2>1, <2>2, <2>3 DEF CallInv, Errors
  <1>10. PrefixInv'
    <2>1. 1..Len(call'.done) = {} /\ Done' = {}
      BY <1>2 DEF Done
    <2> QED
      BY <1>2, <1>5, <1>6, <2>1 DEF PrefixInv, Updatable
  <1> QED
    BY <1>3, <1>4, <1>5, <1>7, <1>8, <1>9, <1>10 DEF HInv, StoreStep

(* Batches are sequences. *)
LEMMA BatchSeq ==
    ASSUME NEW S, NEW n \in Nat, n # 0, NEW rows \in [1..n -> S]
    PROVE  rows \in Seq(S) /\ rows # <<>> /\ DOMAIN rows = 1..n
  <1>1. rows \in Seq(S) /\ Len(rows) = n
    BY SeqDef
  <1> QED
    BY <1>1

LEMMA InsertStep ==
    ASSUME HInv, Admitted, NEW n \in 1..MaxBatch, NEW rows \in [1..n -> Sizes], insert(rows)
    PROVE  HInv' /\ StoreStep
  <1>1. n \in Nat /\ n # 0
    OBVIOUS
  <1>2. rows \in Seq(Sizes) /\ rows # <<>>
    BY <1>1, BatchSeq
  <1>3. call' = [op |-> "insert", pc |-> "row", req |-> rows, done |-> <<>>, page |-> Nothing,
                 err |-> "none", before |-> Records]
    BY DEF insert, Begin, Idle
  <1>4. UNCHANGED <<config, file, pool, worker, cursors>>
    BY DEF insert
  <1> QED
    BY <1>2, <1>3, <1>4, CallStarts DEF Errors

(* The ids of a request were given out. *)
LEMMA RequestsIn ==
    ASSUME HInv, NEW rids \in Requests
    PROVE  \E n \in Nat \ {0} : rids \in [1..n -> Rids]
  <1>1. Issued \subseteq Rids
    BY ViewIs DEF HInv, IssuedIn
  <1>2. PICK n \in Nat \ {0} : rids \in [1..n -> Issued]
    <2>1. CASE rids \in [1..1 -> Issued]
      BY <2>1
    <2>2. CASE rids \in UNION {[1..n -> Issued] : n \in 2..MaxBatch}
      <3>1. PICK n \in 2..MaxBatch : rids \in [1..n -> Issued]
        BY <2>2
      <3>2. n \in Nat \ {0}
        OBVIOUS
      <3> QED
        BY <3>1, <3>2
    <2> QED
      BY <2>1, <2>2 DEF Requests
  <1> QED
    BY <1>1, <1>2

LEMMA DeleteRecordsStep ==
    ASSUME HInv, Admitted, NEW rids \in Requests, delete_records(rids)
    PROVE  HInv' /\ StoreStep
  <1>1. PICK n \in Nat \ {0} : rids \in [1..n -> Rids]
    BY RequestsIn
  <1>2. rids \in Seq(Rids) /\ rids # <<>>
    BY <1>1, BatchSeq
  <1>3. call' = [op |-> "delete", pc |-> "row", req |-> rids, done |-> <<>>, page |-> Nothing,
                 err |-> "none", before |-> Records]
    BY DEF delete_records, Begin, Idle
  <1>4. UNCHANGED <<config, file, pool, worker, cursors>>
    BY DEF delete_records
  <1> QED
    BY <1>2, <1>3, <1>4, CallStarts DEF Errors

LEMMA UpdateRowsStep ==
    ASSUME HInv, Admitted, NEW rids \in Requests, NEW size \in Sizes,
           update_rows([i \in DOMAIN rids |-> [rid |-> rids[i], size |-> size]])
    PROVE  HInv' /\ StoreStep
  <1> DEFINE rows == [i \in DOMAIN rids |-> [rid |-> rids[i], size |-> size]]
  <1>1. PICK n \in Nat \ {0} : rids \in [1..n -> Rids]
    BY RequestsIn
  <1>2. rows \in [1..n -> Updates]
    BY <1>1 DEF Updates
  <1> HIDE DEF rows
  <1>3. rows \in Seq(Updates) /\ rows # <<>>
    BY <1>2, BatchSeq
  <1>4. UNCHANGED <<config, file, pool, worker, cursors>>
    BY DEF update_rows
  <1>5. CASE Updatable(rows)
    <2>1. Begin("update", rows)
      BY <1>5 DEF update_rows, rows
    <2>2. call' = [op |-> "update", pc |-> "row", req |-> rows, done |-> <<>>, page |-> Nothing,
                   err |-> "none", before |-> Records]
      BY <2>1 DEF Begin, Idle
    <2> QED
      BY <1>3, <1>4, <1>5, <2>2, CallStarts DEF Errors
  <1>6. CASE ~Updatable(rows)
    <2>1. call' = [Idle EXCEPT !.op = "update", !.pc = "done", !.req = rows, !.err = "invalid",
                               !.before = Records]
      BY <1>6 DEF update_rows, rows
    <2>2. call' = [op |-> "update", pc |-> "done", req |-> rows, done |-> <<>>, page |-> Nothing,
                   err |-> "invalid", before |-> Records]
      BY <2>1 DEF Idle
    <2> QED
      BY <1>3, <1>4, <2>2, CallStarts DEF Errors
  <1> QED
    BY <1>5, <1>6

LEMMA ReturnStep ==
    ASSUME HInv, Return
    PROVE  HInv' /\ StoreStep
  <1>1. /\ call.pc = "done" /\ call' = Idle
        /\ UNCHANGED <<config, file, pool, worker, cursors, next_id>>
    BY DEF Return
  <1>2. FileInv' /\ DiskView' = DiskView /\ Allocated' = Allocated
    BY <1>1 DEF HInv, FileInv, DiskView, Allocated
  <1>3. /\ call'.op = "none" /\ call'.pc = "idle" /\ call'.req = <<>> /\ call'.done = <<>>
        /\ call'.page = Nothing /\ call'.err = "none" /\ DOMAIN call'.before = {}
    BY <1>1 DEF Idle
  <1>4. PoolInv'
    BY <1>1, <1>2, <1>3 DEF HInv, PoolInv
  <1>5. LiveRids' = LiveRids /\ Records' = Records /\ Issued' = Issued
    BY <1>2, <1>4, Quiet DEF HInv
  <1>6. CreationInv'
    BY <1>1, <1>2, <1>3 DEF HInv, CreationInv
  <1>7. ScanInv'
    BY <1>1, <1>5, ScanKept DEF HInv
  <1>8. CallInv'
    <2>1. call' \in [op : {"none", "insert", "delete", "update"},
                     pc : {"idle", "row", "bootstrap", "fresh", "done"},
                     req : {call'.req}, done : Seq(Rids), page : Pages \cup {Nothing},
                     err : Errors, before : {call'.before}]
      BY <1>1, <1>3 DEF Idle, Errors
    <2> QED
      BY <1>1, <1>3, <2>1 DEF CallInv, Errors
  <1>9. PrefixInv'
    BY <1>3 DEF PrefixInv
  <1> QED
    BY <1>2, <1>4, <1>5, <1>6, <1>7, <1>8, <1>9 DEF HInv, StoreStep

-----------------------------------------------------------------------------
(* A new page *)

(* allocate_page takes a page that is not in use: nobody else holds it. *)
LEMMA AllocatePageStep ==
    ASSUME HInv, AllocatePage
    PROVE  HInv' /\ StoreStep
  <1> DEFINE fresh == IF file.free # <<>> THEN Head(file.free) ELSE file.page_count
             disk == [file.disk EXCEPT ![fresh] = Zeroes]
             n == Len(file.free)
  <1>1. /\ call.op = "insert" /\ call.pc = "row" /\ fresh <= MaxPages
        /\ file' = IF file.free # <<>>
                   THEN [file EXCEPT !.free = Tail(@), !.disk[fresh] = Zeroes]
                   ELSE [file EXCEPT !.page_count = @ + 1, !.disk[fresh] = Zeroes]
        /\ call' = [call EXCEPT !.pc = "bootstrap", !.page = fresh]
        /\ UNCHANGED <<config, pool, worker, cursors>>
    BY DEF AllocatePage, InRow
  <1>2. /\ file.page_count \in Nat \ {0} /\ file.page_count <= MaxPages + 1 /\ MaxPages \in Nat
        /\ file.free \in Seq(Pages) /\ n \in Nat /\ file.disk \in [Pages -> PageContent]
        /\ DOMAIN file.free = 1..n
        /\ \A p \in Allocated : p \in Pages /\ p \in Nat /\ p < file.page_count
    BY FileShape, Constants DEF HInv
  <1>3. fresh \in Pages /\ fresh \notin Allocated
    <2>1. CASE file.free # <<>>
      <3>1. fresh = file.free[1] /\ 1 \in 1..n
        BY <1>2, <2>1
      <3> QED
        BY <1>2, <3>1 DEF Allocated
    <2>2. CASE file.free = <<>>
      BY <1>1, <1>2, <2>2 DEF Pages
    <2> QED
      BY <2>1, <2>2
  <1>4. Zeroes \in PageContent /\ GoodPage(Zeroes)
    BY DEF Zeroes, PageContent, GoodPage
  <1>5. /\ disk \in [Pages -> PageContent] /\ disk[fresh] = Zeroes
        /\ \A q \in Pages \ {fresh} : disk[q] = file.disk[q]
    <2> HIDE DEF fresh
    <2> QED
      BY <1>2, <1>3, <1>4
  <1>6. \A q \in Pages : GoodPage(disk[q])
    <2> HIDE DEF fresh, disk
    <2> QED
      BY <1>4, <1>5 DEF HInv, FileInv
  <1> HIDE DEF disk
  <1>7. /\ FileInv' /\ file'.disk = disk /\ Allocated' = Allocated \cup {fresh}
        /\ file'.poisoned = file.poisoned /\ file.page_count <= file'.page_count
        /\ config.prefetch => file'.free = <<>>
    <2>1. CASE file.free # <<>>
      <3> DEFINE t == Tail(file.free)
      <3>1. /\ t \in Seq(Pages) /\ Len(t) = n - 1 /\ DOMAIN t = 1..n - 1
            /\ \A i \in 1..n - 1 : t[i] = file.free[i + 1]
            /\ fresh = file.free[1] /\ n # 0
        BY <1>2, <2>1
      <3>2. file' = [file EXCEPT !.free = t, !.disk = disk]
        BY <1>1, <2>1 DEF disk
      <3> HIDE DEF t, fresh
      <3>3. /\ file'.page_count = file.page_count /\ file'.free = t /\ file'.disk = disk
            /\ file'.poisoned = file.poisoned
            /\ file' \in [page_count : 1..MaxPages + 1, free : Seq(Pages), poisoned : BOOLEAN,
                          disk : [Pages -> PageContent]]
        BY <1>5, <3>1, <3>2 DEF HInv, FileInv
      <3>4. \A i \in 1..n - 1 : i + 1 \in 1..n /\ i \in Nat /\ i + 1 # 1
        BY <1>2
      <3>5. \A i \in 1..n : i = 1 \/ (i - 1 \in 1..n - 1 /\ (i - 1) + 1 = i)
        BY <1>2
      <3>6. FileInv'
        <4>1. \A i \in DOMAIN t : t[i] < file.page_count
          BY <1>2, <3>1, <3>4 DEF HInv, FileInv
        <4>2. ASSUME NEW i \in DOMAIN t, NEW j \in DOMAIN t, i # j
              PROVE  t[i] # t[j]
          <5>1. i + 1 # j + 1
            BY <3>1, <3>4, <4>2
          <5> QED
            BY <1>2, <3>1, <3>4, <5>1, ZenonT(40) DEF HInv, FileInv
        <4> QED
          BY <1>1, <1>6, <3>3, <4>1, <4>2 DEF HInv, FileInv
      <3>7. Allocated' = Allocated \cup {fresh}
        <4>1. ASSUME NEW q \in Pages
              PROVE  (\A i \in DOMAIN t : t[i] # q) <=>
                         (q = fresh \/ \A i \in DOMAIN file.free : file.free[i] # q)
          <5>1. CASE q = fresh
            <6>1. ASSUME NEW i \in DOMAIN t PROVE t[i] # file.free[1]
              <7>1. i + 1 \in DOMAIN file.free /\ 1 \in DOMAIN file.free /\ i + 1 # 1
                    /\ t[i] = file.free[i + 1]
                BY <1>2, <3>1, <3>4
              <7> QED
                BY <7>1 DEF HInv, FileInv
            <6> QED
              BY <3>1, <5>1, <6>1
          <5>2. CASE q # fresh
            <6>1. ASSUME \A i \in DOMAIN t : t[i] # q, NEW i \in 1..n
                  PROVE  file.free[i] # q
              <7>1. CASE i = 1
                BY <3>1, <5>2, <7>1
              <7>2. CASE i # 1
                <8>1. i - 1 \in DOMAIN t /\ t[i - 1] = file.free[i]
                  BY <3>1, <3>5, <7>2
                <8> QED
                  BY <6>1, <8>1
              <7> QED
                BY <7>1, <7>2
            <6>2. ASSUME \A i \in DOMAIN file.free : file.free[i] # q, NEW i \in DOMAIN t
                  PROVE  t[i] # q
              BY <1>2, <3>1, <3>4, <6>2
            <6> QED
              BY <1>2, <5>2, <6>1, <6>2
          <5> QED
            BY <5>1, <5>2
        <4>2. fresh < file.page_count
          BY <1>2, <3>1, <3>5 DEF HInv, FileInv
        <4> QED
          BY <1>3, <3>3, <4>1, <4>2 DEF Allocated
      <3>8. ~config.prefetch
        BY <2>1 DEF HInv, PoolInv
      <3> QED
        BY <1>2, <3>3, <3>6, <3>7, <3>8
    <2>2. CASE file.free = <<>>
      <3>1. fresh = file.page_count
        BY <2>2
      <3>2. file' = [file EXCEPT !.page_count = file.page_count + 1, !.disk = disk]
        BY <1>1, <2>2 DEF disk
      <3>3. file.page_count + 1 \in 1..MaxPages + 1
        BY <1>1, <1>2, <3>1
      <3> HIDE DEF fresh
      <3>4. /\ file'.page_count = file.page_count + 1 /\ file'.free = <<>> /\ file'.disk = disk
            /\ file'.poisoned = file.poisoned
            /\ file' \in [page_count : 1..MaxPages + 1, free : Seq(Pages), poisoned : BOOLEAN,
                          disk : [Pages -> PageContent]]
        BY <1>5, <2>2, <3>2, <3>3 DEF HInv, FileInv
      <3>5. FileInv'
        BY <1>1, <1>6, <3>4 DEF HInv, FileInv
      <3>6. Allocated' = Allocated \cup {fresh}
        <4>1. DOMAIN <<>> = {}
          OBVIOUS
        <4>2. Allocated = {p \in Pages : p < file.page_count}
          BY <2>2, <4>1 DEF Allocated
        <4>3. Allocated' = {p \in Pages : p < file.page_count + 1}
          BY <3>4, <4>1 DEF Allocated
        <4>4. \A p \in Pages : p < file.page_count + 1 <=> p < file.page_count \/ p = fresh
          BY <1>2, <3>1, Constants
        <4> QED
          BY <1>3, <4>2, <4>3, <4>4
      <3> QED
        BY <1>2, <3>4, <3>5, <3>6
    <2> QED
      BY <2>1, <2>2
  <1>8. fresh \notin worker.queue
    <2>1. CASE file.free # <<>>
      BY <2>1, FileShape DEF HInv, PoolInv
    <2>2. CASE file.free = <<>>
      BY <1>2, <2>2 DEF HInv, PoolInv
    <2> QED
      BY <2>1, <2>2
  <1> HIDE DEF fresh
  <1>9. fresh \notin DOMAIN pool /\ fresh # worker.loading
    BY <1>3, Constants DEF HInv, PoolInv
  <1>10. /\ call'.op = "insert" /\ call'.pc = "bootstrap" /\ call'.page = fresh
         /\ call'.req = call.req /\ call'.done = call.done /\ call'.err = call.err
         /\ call'.before = call.before /\ DOMAIN cursors = {}
    BY <1>1 DEF HInv, CallInv
  <1>11. DiskView' = DiskView
    <2>1. \A q \in Pages : DiskView'[q] = DiskView[q]
      <3>1. DiskView'[fresh] = <<>> /\ DiskView[fresh] = <<>>
        BY <1>3, <1>5, <1>7 DEF DiskView, Zeroes
      <3>2. \A q \in Pages \ {fresh} : DiskView'[q] = DiskView[q]
        BY <1>5, <1>7 DEF DiskView
      <3> QED
        BY <3>1, <3>2
    <2> QED
      BY <2>1 DEF DiskView
  <1>12. PoolInv'
    <2>1. pool = [p \in DOMAIN pool |-> file.disk[p]] /\ DOMAIN pool \subseteq Allocated
      BY DEF HInv, PoolInv
    <2>2. \A p \in DOMAIN pool : file'.disk[p] = file.disk[p]
      BY <1>2, <1>5, <1>7, <1>9, <2>1
    <2>3. pool' = [p \in DOMAIN pool' |-> file'.disk[p]]
      BY <1>1, <2>1, <2>2
    <2>4. worker.queue \in SUBSET Pages /\ \A p \in worker.queue : p < file.page_count
      BY DEF HInv, PoolInv
    <2>5. \A p \in worker'.queue : p < file'.page_count
      <3>1. file'.page_count \in Nat
        BY <1>7, Constants DEF FileInv
      <3> QED
        BY <1>1, <1>2, <1>7, <2>4, <3>1, Constants
    <2>6. worker.loading # Nothing =>
              worker.loading \in Allocated' /\ worker.read = file'.disk[worker.loading]
      BY <1>2, <1>5, <1>7, <1>9 DEF HInv, PoolInv
    <2>7. worker \in [queue : SUBSET Pages, loading : Pages \cup {Nothing}, read : PageContent]
      BY DEF HInv, PoolInv
    <2>8. ~config.prefetch => DOMAIN pool = {} /\ worker.queue = {} /\ worker.loading = Nothing
      BY DEF HInv, PoolInv
    <2> QED
      BY <1>1, <1>7, <1>8, <1>9, <1>10, <2>1, <2>3, <2>5, <2>6, <2>7, <2>8 DEF PoolInv
  <1>13. LiveRids' = LiveRids /\ Records' = Records /\ Issued' = Issued
    BY <1>7, <1>11, <1>12, Quiet DEF HInv
  <1>14. PrefixInv'
    BY <1>1, <1>10, <1>13, PrefixKept DEF HInv
  <1>15. ScanInv'
    BY <1>1, <1>10, <1>13, ScanKept DEF HInv
  <1>16. CreationInv'
    <2>1. ~file.poisoned /\ \A p \in Allocated : file.disk[p].init
      BY <1>1 DEF HInv, CreationInv
    <2>2. \A p \in Allocated' : p = fresh \/ file'.disk[p].init
      BY <1>2, <1>5, <1>7, <2>1
    <2> QED
      BY <1>5, <1>7, <1>10, <2>1, <2>2 DEF CreationInv
  <1>17. CallInv'
    <2>1. call' \in [op : {"none", "insert", "delete", "update"},
                     pc : {"idle", "row", "bootstrap", "fresh", "done"},
                     req : {call'.req}, done : Seq(Rids), page : Pages \cup {Nothing},
                     err : Errors, before : {call'.before}]
      BY <1>1, <1>3 DEF HInv, CallInv, Errors
    <2> QED
      BY <1>1, <1>10, <2>1 DEF HInv, CallInv, Errors
  <1> QED
    BY <1>7, <1>12, <1>13, <1>14, <1>15, <1>16, <1>17 DEF HInv, StoreStep

(* The bootstrap write goes to a page nobody else holds. *)
LEMMA BootstrapWriteStep ==
    ASSUME HInv, BootstrapWrite
    PROVE  HInv' /\ StoreStep
  <1> DEFINE p == call.page
             disk == [file.disk EXCEPT ![p] = EmptyPage]
  <1>1. /\ call.pc = "bootstrap" /\ call' = [call EXCEPT !.pc = "fresh"]
        /\ file' = [file EXCEPT !.disk = disk]
        /\ UNCHANGED <<config, pool, worker, cursors>>
    BY DEF BootstrapWrite
  <1>2. /\ p \in Allocated /\ p \in Pages /\ file.disk[p] = Zeroes /\ ~file.poisoned
        /\ call.op = "insert" /\ file.disk \in [Pages -> PageContent]
        /\ p \notin DOMAIN pool \cup worker.queue \cup {worker.loading}
    BY <1>1, AllocatedIn, FileShape DEF HInv, CreationInv, PoolInv
  <1>3. EmptyPage \in PageContent /\ GoodPage(EmptyPage) /\ EmptyPage.init
    BY DEF EmptyPage, PageContent, GoodPage
  <1>4. /\ disk \in [Pages -> PageContent] /\ disk[p] = EmptyPage
        /\ \A q \in Pages \ {p} : disk[q] = file.disk[q]
    BY <1>2, <1>3
  <1> HIDE DEF disk
  <1>5. /\ file'.page_count = file.page_count /\ file'.free = file.free
        /\ file'.disk = disk /\ file'.poisoned = file.poisoned
        /\ file' \in [page_count : 1..MaxPages + 1, free : Seq(Pages), poisoned : BOOLEAN,
                      disk : [Pages -> PageContent]]
    BY <1>1, <1>4 DEF HInv, FileInv
  <1>6. Allocated' = Allocated
    BY <1>5 DEF Allocated
  <1>7. FileInv'
    <2>1. \A q \in Pages : GoodPage(disk[q])
      BY <1>3, <1>4 DEF HInv, FileInv
    <2> QED
      BY <1>1, <1>5, <2>1 DEF HInv, FileInv
  <1>8. /\ call'.op = "insert" /\ call'.pc = "fresh" /\ call'.page = p
        /\ call'.req = call.req /\ call'.done = call.done /\ call'.err = call.err
        /\ call'.before = call.before /\ DOMAIN cursors = {}
    BY <1>1, <1>2 DEF HInv, CallInv
  <1>9. DiskView' = DiskView
    <2>1. \A q \in Pages : DiskView'[q] = DiskView[q]
      <3>1. DiskView'[p] = <<>> /\ DiskView[p] = <<>>
        BY <1>2, <1>4, <1>5, <1>6 DEF DiskView, Zeroes, EmptyPage
      <3>2. \A q \in Pages \ {p} : DiskView'[q] = DiskView[q]
        BY <1>4, <1>5, <1>6 DEF DiskView
      <3> QED
        BY <3>1, <3>2
    <2> QED
      BY <2>1 DEF DiskView
  <1>10. PoolInv'
    <2>1. pool = [q \in DOMAIN pool |-> file.disk[q]] /\ DOMAIN pool \subseteq Allocated
      BY DEF HInv, PoolInv
    <2>2. \A q \in DOMAIN pool : file'.disk[q] = file.disk[q]
      BY <1>2, <1>4, <1>5, <2>1, AllocatedIn
    <2>3. pool' = [q \in DOMAIN pool' |-> file'.disk[q]]
      BY <1>1, <2>1, <2>2
    <2>4. worker.loading # Nothing => worker.read = file'.disk[worker.loading]
      BY <1>2, <1>4, <1>5, AllocatedIn DEF HInv, PoolInv
    <2> QED
      BY <1>1, <1>2, <1>5, <1>6, <1>8, <2>3, <2>4 DEF HInv, PoolInv
  <1>11. LiveRids' = LiveRids /\ Records' = Records /\ Issued' = Issued
    BY <1>7, <1>9, <1>10, Quiet DEF HInv
  <1>12. PrefixInv'
    BY <1>2, <1>8, <1>11, PrefixKept DEF HInv
  <1>13. ScanInv'
    BY <1>1, <1>8, <1>11, ScanKept DEF HInv
  <1>14. CreationInv'
    <2>1. \A q \in Allocated : q = p \/ file.disk[q].init
      BY <1>2 DEF HInv, CreationInv
    <2>2. \A q \in Allocated : disk[q].init
      BY <1>3, <1>4, <2>1, AllocatedIn
    <2> QED
      BY <1>2, <1>4, <1>5, <1>6, <1>8, <2>2 DEF CreationInv
  <1>15. CallInv'
    <2>1. call' \in [op : {"none", "insert", "delete", "update"},
                     pc : {"idle", "row", "bootstrap", "fresh", "done"},
                     req : {call'.req}, done : Seq(Rids), page : Pages \cup {Nothing},
                     err : Errors, before : {call'.before}]
      BY <1>1 DEF HInv, CallInv, Errors
    <2> QED
      BY <1>1, <1>8, <2>1 DEF HInv, CallInv, Errors
  <1> QED
    BY <1>7, <1>10, <1>11, <1>12, <1>13, <1>14, <1>15 DEF HInv, StoreStep

-----------------------------------------------------------------------------
(* Rows *)

(* A row is reported. *)
LEMMA RowDoneFacts ==
    ASSUME CallInv, call.pc \in {"row", "fresh"}, NEW r \in Rids, RowDone(r), cursors' = cursors
    PROVE  /\ CallInv'
           /\ call'.op = call.op /\ call'.req = call.req /\ call'.before = call.before
           /\ call'.err = "none" /\ call'.done = Append(call.done, r)
           /\ call'.pc \in {"row", "done"}
           /\ Len(call.done) \in Nat /\ Len(call'.done) = Len(call.done) + 1
           /\ \A i \in 1..Len(call.done) : call'.done[i] = call.done[i]
           /\ call'.done[Len(call.done) + 1] = r
           /\ Done' = Done \cup {r}
           /\ Len(call.done) + 1 \in 1..Len(call.req)
  <1> DEFINE n == Len(call.done)
             done == Append(call.done, r)
             pc == IF Len(done) = Len(call.req) THEN "done" ELSE "row"
  <1>1. call' = [call EXCEPT !.done = done, !.page = Nothing, !.pc = pc]
    BY DEF RowDone
  <1>2. /\ call \in [op : {"none", "insert", "delete", "update"},
                     pc : {"idle", "row", "bootstrap", "fresh", "done"},
                     req : {call.req}, done : Seq(Rids), page : Pages \cup {Nothing},
                     err : Errors, before : {call.before}]
        /\ call.err = "none" /\ n < Len(call.req) /\ call.op # "none" /\ DOMAIN cursors = {}
    BY DEF CallInv, Errors
  <1>3. /\ call.done \in Seq(Rids) /\ done \in Seq(Rids) /\ n \in Nat /\ Len(done) = n + 1
        /\ \A i \in 1..n : done[i] = call.done[i]
        /\ done[n + 1] = r
    BY <1>2
  <1> HIDE DEF done
  <1>4. Len(call.req) \in Nat
    BY <1>2 DEF CallInv
  <1>5. pc \in {"row", "done"} /\ (pc = "row" => n + 1 < Len(call.req)) /\ n + 1 <= Len(call.req)
    BY <1>2, <1>3, <1>4
  <1> HIDE DEF pc
  <1>6. /\ call'.op = call.op /\ call'.req = call.req /\ call'.before = call.before
        /\ call'.err = "none" /\ call'.done = done /\ call'.pc = pc
        /\ call' \in [op : {"none", "insert", "delete", "update"},
                      pc : {"idle", "row", "bootstrap", "fresh", "done"},
                      req : {call.req}, done : Seq(Rids), page : Pages \cup {Nothing},
                      err : Errors, before : {call.before}]
    BY <1>1, <1>2, <1>3, <1>5
  <1>7. CallInv'
    BY <1>2, <1>3, <1>5, <1>6 DEF CallInv, Errors
  <1>8. Done' = Done \cup {r}
    <2>1. Done' = {done[i] : i \in 1..n + 1}
      BY <1>3, <1>6 DEF Done
    <2>2. \A i \in 1..n + 1 : i \in 1..n \/ i = n + 1
      BY <1>3
    <2>3. \A i \in 1..n : i \in 1..n + 1
      BY <1>3
    <2>4. n + 1 \in 1..n + 1
      BY <1>3
    <2> QED
      BY <1>3, <2>1, <2>2, <2>3, <2>4 DEF Done
  <1>9. n + 1 \in 1..Len(call.req)
    BY <1>3, <1>4, <1>5
  <1> QED
    BY <1>3, <1>5, <1>6, <1>7, <1>8, <1>9 DEF done

(* The next row is of the kind of the operation. *)
LEMMA RowIs ==
    ASSUME CallInv, call.pc \in {"row", "bootstrap", "fresh"}
    PROVE  /\ Len(call.done) + 1 \in DOMAIN call.req
           /\ call.op = "insert" => Row \in Sizes
           /\ call.op = "delete" => Row \in Rids
           /\ call.op = "update" => Row \in Updates
  <1>1. /\ call.done \in Seq(Rids) /\ Len(call.done) < Len(call.req)
        /\ \/ call.op = "insert" /\ call.req \in Seq(Sizes)
           \/ call.op = "delete" /\ call.req \in Seq(Rids)
           \/ call.op = "update" /\ call.req \in Seq(Updates)
    BY DEF CallInv
  <1>2. Len(call.done) + 1 \in 1..Len(call.req)
    BY <1>1
  <1> QED
    BY <1>1, <1>2 DEF Row

(* Every row before is older than the next. *)
LEMMA PrefixGrows ==
    ASSUME PrefixInv, NEW r, r \notin Done, Len(call.done) \in Nat,
           Len(call'.done) = Len(call.done) + 1,
           \A i \in 1..Len(call.done) : call'.done[i] = call.done[i],
           call'.done[Len(call.done) + 1] = r
    PROVE  \A i, j \in 1..Len(call'.done) : i # j => call'.done[i] # call'.done[j]
  <1> DEFINE n == Len(call.done)
  <1>1. \A i \in 1..n : call.done[i] \in Done
    BY DEF Done
  <1>2. \A i \in 1..n + 1 : i \in 1..n \/ i = n + 1
    OBVIOUS
  <1>3. \A i \in 1..n : call'.done[i] # r
    BY <1>1
  <1>4. \A i, j \in 1..n : i # j => call'.done[i] # call'.done[j]
    BY DEF PrefixInv
  <1>5. ASSUME NEW i \in 1..n + 1, NEW j \in 1..n + 1, i # j
        PROVE  call'.done[i] # call'.done[j]
    <2>1. CASE i \in 1..n /\ j \in 1..n
      BY <1>4, <1>5, <2>1
    <2>2. CASE i = n + 1
      BY <1>2, <1>3, <1>5, <2>2
    <2>3. CASE j = n + 1
      BY <1>2, <1>3, <1>5, <2>3
    <2> QED
      BY <1>2, <2>1, <2>2, <2>3
  <1> QED
    BY <1>5

LEMMA PrefixInsert ==
    ASSUME HInv, call.op = "insert", call.pc \in {"row", "fresh"}, NEW r \in Rids, RowDone(r),
           cursors' = cursors, r \notin LiveRids,
           Records' = [x \in LiveRids \cup {r} |-> IF x = r THEN Row ELSE Records[x]],
           LiveRids' = LiveRids \cup {r}
    PROVE  PrefixInv'
  <1> DEFINE n == Len(call.done)
  <1>1. /\ call'.op = call.op /\ call'.req = call.req /\ call'.before = call.before
        /\ n \in Nat /\ Len(call'.done) = n + 1
        /\ \A i \in 1..n : call'.done[i] = call.done[i]
        /\ call'.done[n + 1] = r /\ Done' = Done \cup {r}
    BY RowDoneFacts DEF HInv
  <1>2. /\ LiveRids = DOMAIN call.before \cup Done
        /\ \A x \in DOMAIN call.before \ Done : Records[x] = call.before[x]
        /\ \A i \in 1..n : Records[call.done[i]] = call.req[i]
    BY DEF HInv, PrefixInv
  <1>3. \A i, j \in 1..Len(call'.done) : i # j => call'.done[i] # call'.done[j]
    BY <1>1, <1>2, PrefixGrows DEF HInv
  <1>4. ASSUME NEW i \in 1..n + 1 PROVE Records'[call'.done[i]] = call.req[i]
    <2>1. CASE i = n + 1
      BY <1>1, <2>1 DEF Row
    <2>2. CASE i \in 1..n
      <3>1. call.done[i] \in LiveRids
        BY <1>2, <2>2 DEF Done
      <3> QED
        BY <1>1, <1>2, <2>2, <3>1
    <2> QED
      BY <1>1, <2>1, <2>2
  <1>5. \A x \in DOMAIN call.before \ Done' : Records'[x] = call.before[x]
    BY <1>1, <1>2
  <1>6. LiveRids' = DOMAIN call.before \cup Done'
    BY <1>1, <1>2
  <1>7. \A i \in 1..Len(call'.done) : Records'[call'.done[i]] = call'.req[i]
    <2>1. \A i \in 1..n + 1 : Records'[call'.done[i]] = call.req[i]
      BY <1>4
    <2> QED
      BY <1>1, <2>1, Zenon
  <1>8. call'.op = "insert"
    BY <1>1
  <1>9. /\ LiveRids' = DOMAIN call'.before \cup Done'
        /\ \A x \in DOMAIN call'.before \ Done' : Records'[x] = call'.before[x]
    BY <1>1, <1>5, <1>6, Zenon
  <1>10. call'.op # "delete" /\ call'.op # "update"
    BY <1>8
  <1> QED
    BY <1>3, <1>7, <1>8, <1>9, <1>10, Zenon DEF PrefixInv

LEMMA PrefixDelete ==
    ASSUME HInv, call.op = "delete", call.pc = "row", NEW r \in LiveRids, r \in Rids, RowDone(r),
           cursors' = cursors,
           LiveRids' = LiveRids \ {r}, \A x \in LiveRids \ {r} : Records'[x] = Records[x]
    PROVE  PrefixInv'
  <1> DEFINE n == Len(call.done)
  <1>1. /\ call'.op = call.op /\ call'.req = call.req /\ call'.before = call.before
        /\ n \in Nat /\ Len(call'.done) = n + 1
        /\ \A i \in 1..n : call'.done[i] = call.done[i]
        /\ call'.done[n + 1] = r /\ Done' = Done \cup {r}
    BY RowDoneFacts DEF HInv
  <1>2. /\ LiveRids = DOMAIN call.before \ Done
        /\ \A x \in LiveRids : Records[x] = call.before[x]
    BY DEF HInv, PrefixInv
  <1>3. \A i, j \in 1..Len(call'.done) : i # j => call'.done[i] # call'.done[j]
    BY <1>1, <1>2, PrefixGrows DEF HInv
  <1>4. LiveRids' = DOMAIN call.before \ Done'
    BY <1>1, <1>2
  <1>5. \A x \in LiveRids' : Records'[x] = call.before[x]
    BY <1>2
  <1> QED
    BY <1>1, <1>3, <1>4, <1>5 DEF PrefixInv

LEMMA PrefixUpdate ==
    ASSUME HInv, call.op = "update", call.pc = "row", NEW r \in Rids, r = Row.rid, RowDone(r),
           cursors' = cursors, LiveRids' = LiveRids,
           \A x \in LiveRids \ {r} : Records'[x] = Records[x], Records'[r] = Row.size
    PROVE  PrefixInv'
  <1> DEFINE n == Len(call.done)
  <1>1. /\ call'.op = call.op /\ call'.req = call.req /\ call'.before = call.before
        /\ n \in Nat /\ Len(call'.done) = n + 1 /\ call'.err = "none"
        /\ \A i \in 1..n : call'.done[i] = call.done[i]
        /\ call'.done[n + 1] = r /\ Done' = Done \cup {r}
    BY RowDoneFacts DEF HInv
  <1>2. /\ LiveRids = DOMAIN call.before
        /\ \A x \in DOMAIN call.before \ Done : Records[x] = call.before[x]
        /\ \A i \in 1..n : call.done[i] = call.req[i].rid /\ Records[call.done[i]] = call.req[i].size
        /\ \A i \in DOMAIN call.req : call.req[i].rid \in DOMAIN call.before
        /\ \A i, j \in DOMAIN call.req : i # j => call.req[i].rid # call.req[j].rid
    BY DEF HInv, PrefixInv
  <1>3. n + 1 \in DOMAIN call.req /\ \A i \in 1..n : i \in DOMAIN call.req /\ i # n + 1
    <2>1. n + 1 \in 1..Len(call.req) /\ call.req \in Seq(Updates)
      BY RowDoneFacts DEF HInv, CallInv
    <2> QED
      BY <1>1, <2>1
  <1>4. \A i \in 1..n : call.done[i] # r
    BY <1>2, <1>3 DEF Row
  <1>5. r \notin Done
    BY <1>4 DEF Done
  <1>6. \A i, j \in 1..Len(call'.done) : i # j => call'.done[i] # call'.done[j]
    BY <1>1, <1>5, PrefixGrows DEF HInv
  <1>7. ASSUME NEW i \in 1..n + 1
        PROVE  call'.done[i] = call.req[i].rid /\ Records'[call'.done[i]] = call.req[i].size
    <2>1. CASE i = n + 1
      BY <1>1, <2>1 DEF Row
    <2>2. CASE i \in 1..n
      <3>1. call.done[i] \in LiveRids \ {r}
        BY <1>2, <1>3, <1>4, <2>2
      <3> QED
        BY <1>1, <1>2, <2>2, <3>1
    <2> QED
      BY <1>1, <2>1, <2>2
  <1>8. \A x \in DOMAIN call.before \ Done' : Records'[x] = call.before[x]
    BY <1>1, <1>2
  <1> QED
    BY <1>1, <1>2, <1>6, <1>7, <1>8 DEF PrefixInv

(* A row changes one page and leaves it a record page. *)
LEMMA RowStep ==
    ASSUME HInv, call.pc \in {"row", "fresh"}, NEW p \in Allocated, NEW d, GoodPage(d), d.init,
           Change(p, d), CanFetch({p}), NEW r \in Rids, RowDone(r),
           UNCHANGED <<config, worker, cursors>>
    PROVE  /\ FileInv' /\ PoolInv' /\ View' = [View EXCEPT ![p] = d.slots] /\ p \in Pages
           /\ View[p] = Content(p).slots /\ Content(p) = file.disk[p] /\ GoodPage(Content(p))
           /\ LiveRids = LiveIn(View) /\ Records = RecordsIn(View) /\ Issued = IssuedIn(View)
           /\ LiveRids' = LiveIn(View') /\ Records' = RecordsIn(View')
           /\ Issued' = IssuedIn(View') /\ GoodView(View) /\ GoodView(View')
           /\ PrefixInv' => HInv'
  <1>1. CallInv' /\ call'.pc \in {"row", "done"} /\ DOMAIN cursors = {}
    BY RowDoneFacts DEF HInv, CallInv
  <1>2. /\ FileInv' /\ PoolInv' /\ Allocated' = Allocated
        /\ file'.poisoned = file.poisoned
        /\ file'.disk = [file.disk EXCEPT ![p] = d]
        /\ View' = [View EXCEPT ![p] = d.slots]
    BY <1>1, ChangeStep DEF HInv, CanFetch
  <1>3. p \in Pages /\ View[p] = Content(p).slots /\ Content(p) = file.disk[p]
        /\ GoodPage(Content(p))
    BY AllocatedIn, ContentIs DEF HInv, View
  <1>4. /\ LiveRids = LiveIn(View) /\ Records = RecordsIn(View) /\ Issued = IssuedIn(View)
        /\ GoodView(View)
    BY ViewIs, ViewGood DEF HInv
  <1>5. /\ LiveRids' = LiveIn(View') /\ Records' = RecordsIn(View') /\ Issued' = IssuedIn(View')
        /\ GoodView(View')
    BY <1>2, ViewIsNext
  <1>6. CreationInv'
    <2>1. ~file.poisoned /\ \A q \in Allocated : file.disk[q].init
      BY DEF HInv, CreationInv
    <2>2. \A q \in Allocated : file'.disk[q].init
      BY <1>2, <1>3, <2>1, AllocatedIn, FileShape DEF HInv
    <2> QED
      BY <1>1, <1>2, <2>1, <2>2 DEF CreationInv
  <1>7. ScanInv'
    BY <1>1 DEF ScanInv
  <1> QED
    BY <1>1, <1>2, <1>3, <1>4, <1>5, <1>6, <1>7 DEF HInv

(* A record goes into a page with room, under an id that was never used. *)
LEMMA InsertInto ==
    ASSUME HInv, call.op = "insert", call.pc \in {"row", "fresh"}, NEW p \in Allocated,
           Content(p).init, Fits(Content(p), Row) \/ Content(p) = EmptyPage,
           CanFetch({p}), Change(p, WithRecord(Content(p), Row)),
           RowDone([page |-> p, slot |-> Target(Content(p)),
                    gen |-> WithRecord(Content(p), Row).slots[Target(Content(p))].gen]),
           UNCHANGED <<config, worker, cursors>>
    PROVE  HInv' /\ StoreStep
  <1> DEFINE c == Content(p)
             t == Target(c)
             d == WithRecord(c, Row)
             r == [page |-> p, slot |-> t, gen |-> d.slots[t].gen]
  <1>1. p \in Pages /\ GoodPage(c)
    BY AllocatedIn, ContentIs DEF HInv
  <1>2. Row \in Sizes
    BY RowIs DEF HInv
  <1>3. /\ GoodPage(d) /\ d.init
        /\ t \in 1..Capacity - 1
        /\ DOMAIN d.slots = DOMAIN c.slots \cup {t}
        /\ t \in DOMAIN c.slots => ~c.slots[t].live
        /\ d.slots[t] = [live |-> TRUE, size |-> Row,
                         gen |-> IF t \in DOMAIN c.slots THEN c.slots[t].gen + 1 ELSE 1]
        /\ d.slots[t].gen \in 1..MaxGeneration
        /\ \A s \in DOMAIN c.slots \ {t} : d.slots[s] = c.slots[s]
    BY <1>1, <1>2, WithRecordFacts
  <1> HIDE DEF c, t, d
  <1>4. r \in Rids
    BY <1>1, <1>3 DEF Rids
  <1>5. Change(p, d) /\ RowDone(r)
    BY DEF c, t, d
  <1> HIDE DEF r
  <1>6. /\ View' = [View EXCEPT ![p] = d.slots]
        /\ View[p] = c.slots
        /\ LiveRids = LiveIn(View) /\ Records = RecordsIn(View) /\ Issued = IssuedIn(View)
        /\ LiveRids' = LiveIn(View') /\ Records' = RecordsIn(View')
        /\ Issued' = IssuedIn(View') /\ GoodView(View) /\ GoodView(View')
        /\ PrefixInv' => HInv'
    BY <1>3, <1>4, <1>5, RowStep DEF c
  <1>7. View'[p] = d.slots /\ \A q \in Pages \ {p} : View'[q] = View[q]
    BY <1>1, <1>6 DEF View
  <1>8. /\ r \notin IssuedIn(View) /\ r \notin LiveIn(View)
        /\ IssuedIn(View') = IssuedIn(View) \cup {r}
        /\ LiveIn(View') = LiveIn(View) \cup {r}
        /\ \A x \in LiveIn(View) : RecordsIn(View')[x] = RecordsIn(View)[x]
        /\ RecordsIn(View')[r] = Row
    <2> DEFINE F == View
               G == View'
    <2>1. F[p] = c.slots /\ G[p] = d.slots
      BY <1>6, <1>7
    <2>2. GoodView(F) /\ GoodView(G) /\ \A q \in Pages \ {p} : G[q] = F[q]
      BY <1>6, <1>7
    <2>3. d.slots[t].live /\ d.slots[t].size = Row
          /\ d.slots[t].gen = IF t \in DOMAIN c.slots THEN c.slots[t].gen + 1 ELSE 1
      BY <1>3
    <2>4. r.page = p /\ r.slot = t /\ r.gen = d.slots[t].gen
      BY DEF r
    <2> HIDE DEF F, G
    <2>5. /\ r \notin IssuedIn(F) /\ r \notin LiveIn(F)
          /\ IssuedIn(G) = IssuedIn(F) \cup {r}
          /\ LiveIn(G) = LiveIn(F) \cup {r}
          /\ \A x \in LiveIn(F) : RecordsIn(G)[x] = RecordsIn(F)[x]
          /\ RecordsIn(G)[r] = Row
      BY <1>1, <1>3, <1>4, <2>1, <2>2, <2>3, <2>4, ViewInsert
    <2> QED
      BY <2>5 DEF F, G
  <1>9. Records' = [x \in LiveRids \cup {r} |-> IF x = r THEN Row ELSE Records[x]]
    <2>1. Records' = [x \in LiveRids' |-> Records'[x]]
      BY DEF Records
    <2> QED
      BY <1>6, <1>8, <2>1
  <1>10. PrefixInv'
    BY <1>4, <1>5, <1>6, <1>8, <1>9, PrefixInsert
  <1>11. Store!Insert(r, Row)
    <2>1. DOMAIN Records = LiveRids
      BY DEF Records
    <2> QED
      BY <1>6, <1>8, <1>9, <2>1 DEF Store!Insert
  <1> QED
    BY <1>2, <1>4, <1>6, <1>10, <1>11 DEF StoreStep, Store!Next

LEMMA InsertRowStep ==
    ASSUME HInv, InsertRow
    PROVE  HInv' /\ StoreStep
  <1> DEFINE p == Min(Roomy(Row))
  <1>1. /\ call.op = "insert" /\ call.pc = "row" /\ Roomy(Row) # {}
        /\ CanFetch(Tried(Row))
        /\ Change(p, WithRecord(Content(p), Row))
        /\ RowDone([page |-> p, slot |-> Target(Content(p)),
                    gen |-> WithRecord(Content(p), Row).slots[Target(Content(p))].gen])
        /\ UNCHANGED <<config, worker, cursors>>
    BY DEF InsertRow, InRow
  <1>2. Roomy(Row) \subseteq Nat
    BY FileShape DEF HInv, Roomy
  <1>3. p \in Roomy(Row)
    BY <1>1, <1>2, MinIn
  <1>4. p \in Allocated /\ Content(p).init /\ Fits(Content(p), Row) /\ p \in Nat \ {0}
    <2>1. p \in Allocated /\ Content(p).init /\ Fits(Content(p), Row)
      BY <1>3 DEF Roomy
    <2> QED
      BY <2>1, AllocatedIn, Constants
  <1>5. Tried(Row) = Allocated \cap (1..p)
    BY <1>1 DEF Tried
  <1> HIDE DEF p
  <1>6. p \in Tried(Row)
    BY <1>4, <1>5
  <1>7. CanFetch({p})
    BY <1>1, <1>6 DEF CanFetch
  <1> QED
    BY <1>1, <1>4, <1>7, InsertInto

LEMMA InsertFreshStep ==
    ASSUME HInv, InsertFresh
    PROVE  HInv' /\ StoreStep
  <1> DEFINE p == call.page
  <1>1. call.pc = "fresh" /\ CanFetch({p}) /\ UNCHANGED <<config, worker, cursors>>
    BY DEF InsertFresh
  <1>2. p \in Allocated /\ p \in Pages /\ file.disk[p] = EmptyPage /\ call.op = "insert"
    BY <1>1, AllocatedIn DEF HInv, CreationInv
  <1>3. Content(p) = EmptyPage
    BY <1>2, ContentIs DEF HInv
  <1>4. Content(p).init
    BY <1>3 DEF EmptyPage
  <1>5. /\ Change(p, WithRecord(Content(p), Row))
        /\ RowDone([page |-> p, slot |-> 1, gen |-> 1])
    BY <1>4 DEF InsertFresh
  <1>6. Target(EmptyPage) = 1 /\ WithRecord(EmptyPage, Row).slots[1].gen = 1
    <2>1. Reusable(EmptyPage) = {} /\ Len(EmptyPage.slots) = 0
      BY DEF Reusable, EmptyPage
    <2> DEFINE e == [live |-> TRUE, gen |-> 1, size |-> Row]
    <2>2. WithRecord(EmptyPage, Row).slots = Append(<<>>, e)
      BY <2>1 DEF WithRecord, EmptyPage
    <2>3. e.gen = 1
      OBVIOUS
    <2> HIDE DEF e
    <2>4. Append(<<>>, e)[1] = e
      OBVIOUS
    <2> QED
      BY <2>1, <2>2, <2>3, <2>4 DEF Target
  <1>7. RowDone([page |-> p, slot |-> Target(Content(p)),
                 gen |-> WithRecord(Content(p), Row).slots[Target(Content(p))].gen])
    BY <1>3, <1>5, <1>6
  <1> QED
    BY <1>1, <1>2, <1>3, <1>4, <1>5, <1>7, InsertInto

(* The page of a live record. *)
LEMMA LiveRidFacts ==
    ASSUME HInv, NEW r \in LiveRids
    PROVE  /\ r \in Rids /\ r.page \in Allocated /\ r.page \in Pages
           /\ r \in LiveIn(View) /\ GoodPage(Content(r.page))
           /\ View[r.page] = Content(r.page).slots
           /\ r.slot \in DOMAIN Content(r.page).slots
           /\ Content(r.page).slots[r.slot] \in Slot
           /\ Content(r.page).slots[r.slot].live /\ Content(r.page).init
  <1>1. r \in LiveIn(View)
    BY ViewIs DEF HInv
  <1>2. r \in Rids /\ r.page \in Pages /\ r.slot \in DOMAIN View[r.page]
        /\ View[r.page][r.slot].live
    BY <1>1 DEF LiveIn, Rids
  <1>3. r.page \in Allocated
    BY <1>2 DEF View
  <1>4. View[r.page] = Content(r.page).slots /\ GoodPage(Content(r.page))
    BY <1>2, <1>3, ContentIs DEF HInv, View
  <1>5. Content(r.page).slots[r.slot] \in Slot /\ Content(r.page).init
    BY <1>2, <1>4 DEF GoodPage, PageContent
  <1> QED
    BY <1>1, <1>2, <1>3, <1>4, <1>5

LEMMA DeleteRowStep ==
    ASSUME HInv, DeleteRow
    PROVE  HInv' /\ StoreStep
  <1> DEFINE r == Row
             c == Content(r.page)
             d == Erased(c, r.slot)
  <1>1. /\ call.op = "delete" /\ call.pc = "row" /\ CanFetch({r.page})
        /\ UNCHANGED <<config, worker, cursors>>
    BY DEF DeleteRow, InRow
  <1>2. CASE r \in LiveRids
    <2>1. RowDone(r) /\ Change(r.page, d)
      BY <1>2 DEF DeleteRow
    <2> HIDE DEF r
    <2>2. /\ r \in Rids /\ r.page \in Allocated /\ r.page \in Pages
          /\ r \in LiveIn(View) /\ GoodPage(c)
          /\ r.slot \in DOMAIN c.slots
      BY <1>2, LiveRidFacts
    <2>3. /\ GoodPage(d) /\ d.init /\ DOMAIN d.slots = DOMAIN c.slots
          /\ ~d.slots[r.slot].live /\ d.slots[r.slot].gen = c.slots[r.slot].gen
          /\ \A s \in DOMAIN c.slots \ {r.slot} : d.slots[s] = c.slots[s]
      <3> HIDE DEF c
      <3> QED
        BY <2>2, EraseFacts
    <2> HIDE DEF d
    <2>4. /\ View' = [View EXCEPT ![r.page] = d.slots]
          /\ View[r.page] = c.slots
          /\ LiveRids = LiveIn(View) /\ Records = RecordsIn(View) /\ Issued = IssuedIn(View)
          /\ LiveRids' = LiveIn(View') /\ Records' = RecordsIn(View')
          /\ Issued' = IssuedIn(View') /\ GoodView(View) /\ GoodView(View')
          /\ PrefixInv' => HInv'
      BY <1>1, <2>1, <2>2, <2>3, RowStep
    <2> HIDE DEF c
    <2>5. View'[r.page] = d.slots /\ \A q \in Pages \ {r.page} : View'[q] = View[q]
      BY <2>2, <2>4 DEF View
    <2>6. /\ IssuedIn(View') = IssuedIn(View)
          /\ LiveIn(View') = LiveIn(View) \ {r}
          /\ \A x \in LiveIn(View) \ {r} : View'[x.page][x.slot].size = View[x.page][x.slot].size
      <3> DEFINE F == View
                 G == View'
      <3>1. /\ GoodView(F) /\ GoodView(G) /\ r \in LiveIn(F)
            /\ \A q \in Pages \ {r.page} : G[q] = F[q]
            /\ DOMAIN G[r.page] = DOMAIN F[r.page]
            /\ \A s \in DOMAIN F[r.page] \ {r.slot} : G[r.page][s] = F[r.page][s]
            /\ G[r.page][r.slot].gen = F[r.page][r.slot].gen
            /\ ~G[r.page][r.slot].live
        BY <2>2, <2>3, <2>4, <2>5
      <3> HIDE DEF F, G
      <3>2. /\ IssuedIn(G) = IssuedIn(F)
            /\ LiveIn(G) = LiveIn(F) \ {r}
            /\ \A x \in LiveIn(F) \ {r} : G[x.page][x.slot].size = F[x.page][x.slot].size
        BY <3>1, ViewChange
      <3> QED
        BY <3>2 DEF F, G
    <2>7. LiveRids' = LiveRids \ {r} /\ Issued' = Issued
      BY <2>4, <2>6
    <2>8. ASSUME NEW x \in LiveRids \ {r} PROVE Records'[x] = Records[x]
      BY <2>4, <2>6 DEF RecordsIn
    <2>9. PrefixInv'
      BY <1>1, <1>2, <2>1, <2>2, <2>7, <2>8, PrefixDelete
    <2>10. Store!Erase(r)
      <3>1. DOMAIN Records = LiveRids /\ Records' = [x \in LiveRids' |-> Records'[x]]
        BY DEF Records
      <3> QED
        BY <1>2, <2>7, <2>8, <3>1 DEF Store!Erase
    <2> QED
      BY <2>2, <2>4, <2>9, <2>10 DEF StoreStep, Store!Next
  <1>3. CASE r \notin LiveRids
    <2>1. Finish("invalid") /\ UNCHANGED <<file, pool>>
      BY <1>3 DEF DeleteRow
    <2>2. "invalid" \in Errors
      BY DEF Errors
    <2> QED
      BY <1>1, <2>1, <2>2, FinishQuiet
  <1> QED
    BY <1>2, <1>3

LEMMA UpdateRowStep ==
    ASSUME HInv, UpdateRow
    PROVE  HInv' /\ StoreStep
  <1> DEFINE r == Row.rid
             n == Row.size
             c == Content(r.page)
             d == Resized(c, r.slot, n)
  <1>1. /\ call.op = "update" /\ call.pc = "row" /\ CanFetch({r.page})
        /\ UNCHANGED <<config, worker, cursors>>
    BY DEF UpdateRow, InRow
  <1>2. Row \in Updates /\ Len(call.done) + 1 \in DOMAIN call.req
    BY <1>1, RowIs DEF HInv
  <1>3. r \in Rids /\ n \in Sizes /\ n \in Nat
    BY <1>2, Constants DEF Updates
  <1>4. r \in LiveRids
    BY <1>1, <1>2 DEF HInv, PrefixInv, Row
  <1>5. CASE FitsResized(c, r.slot, n)
    <2>1. RowDone(r) /\ Change(r.page, d)
      BY <1>4, <1>5 DEF UpdateRow
    <2> HIDE DEF r, n
    <2>2. /\ r \in Rids /\ r.page \in Allocated /\ r.page \in Pages
          /\ r \in LiveIn(View) /\ GoodPage(c)
          /\ r.slot \in DOMAIN c.slots /\ c.slots[r.slot] \in Slot /\ c.slots[r.slot].live
      BY <1>4, LiveRidFacts
    <2>3. /\ GoodPage(d) /\ d.init /\ DOMAIN d.slots = DOMAIN c.slots
          /\ d.slots[r.slot].live /\ d.slots[r.slot].gen = c.slots[r.slot].gen
          /\ d.slots[r.slot].size = n
          /\ \A s \in DOMAIN c.slots \ {r.slot} : d.slots[s] = c.slots[s]
      <3> HIDE DEF c
      <3> QED
        BY <1>3, <2>2, ResizeFacts
    <2> HIDE DEF d
    <2>4. /\ View' = [View EXCEPT ![r.page] = d.slots]
          /\ View[r.page] = c.slots
          /\ LiveRids = LiveIn(View) /\ Records = RecordsIn(View) /\ Issued = IssuedIn(View)
          /\ LiveRids' = LiveIn(View') /\ Records' = RecordsIn(View')
          /\ Issued' = IssuedIn(View') /\ GoodView(View) /\ GoodView(View')
          /\ PrefixInv' => HInv'
      BY <1>1, <2>1, <2>2, <2>3, RowStep
    <2> HIDE DEF c
    <2>5. View'[r.page] = d.slots /\ \A q \in Pages \ {r.page} : View'[q] = View[q]
      BY <2>2, <2>4 DEF View
    <2>6. d.slots[r.slot].gen = c.slots[r.slot].gen /\ d.slots[r.slot].live
          /\ d.slots[r.slot].size = n
      BY <2>2, <2>3
    <2>7. /\ IssuedIn(View') = IssuedIn(View)
          /\ LiveIn(View') = LiveIn(View)
          /\ \A x \in LiveIn(View) \ {r} : View'[x.page][x.slot].size = View[x.page][x.slot].size
      <3> DEFINE F == View
                 G == View'
      <3>1. /\ GoodView(F) /\ GoodView(G) /\ r \in LiveIn(F)
            /\ \A q \in Pages \ {r.page} : G[q] = F[q]
            /\ DOMAIN G[r.page] = DOMAIN F[r.page]
            /\ \A s \in DOMAIN F[r.page] \ {r.slot} : G[r.page][s] = F[r.page][s]
            /\ G[r.page][r.slot].gen = F[r.page][r.slot].gen
            /\ G[r.page][r.slot].live
        <4>1. F[r.page] = c.slots /\ G[r.page] = d.slots
          BY <2>4, <2>5
        <4>2. \A q \in Pages \ {r.page} : G[q] = F[q]
          BY <2>5
        <4>3. GoodView(F) /\ GoodView(G) /\ r \in LiveIn(F)
          BY <2>2, <2>4
        <4> HIDE DEF F, G
        <4> QED
          BY <2>3, <2>6, <4>1, <4>2, <4>3
      <3> HIDE DEF F, G
      <3>2. /\ IssuedIn(G) = IssuedIn(F)
            /\ LiveIn(G) = LiveIn(F)
            /\ \A x \in LiveIn(F) \ {r} : G[x.page][x.slot].size = F[x.page][x.slot].size
        BY <3>1, ViewChange
      <3> QED
        BY <3>2 DEF F, G
    <2>8. LiveRids' = LiveRids /\ Issued' = Issued
      BY <2>4, <2>7
    <2>9. ASSUME NEW x \in LiveRids \ {r} PROVE Records'[x] = Records[x]
      BY <2>4, <2>7 DEF RecordsIn
    <2>10. Records'[r] = n
      BY <2>2, <2>4, <2>5, <2>6, <2>7 DEF RecordsIn
    <2>11. PrefixInv'
      BY <1>1, <1>3, <2>1, <2>8, <2>9, <2>10, PrefixUpdate DEF r, n
    <2>12. Store!Replace(r, n)
      <3>1. Records = [x \in LiveRids |-> Records[x]] /\ DOMAIN Records = LiveRids
            /\ Records' = [x \in LiveRids' |-> Records'[x]]
        BY DEF Records
      <3>2. Records' = [Records EXCEPT ![r] = n]
        BY <1>4, <2>8, <2>9, <2>10, <3>1
      <3> QED
        BY <1>4, <2>8, <3>1, <3>2 DEF Store!Replace
    <2> QED
      BY <1>3, <2>2, <2>4, <2>11, <2>12 DEF StoreStep, Store!Next
  <1>6. CASE ~FitsResized(c, r.slot, n)
    <2>1. Finish("too_large") /\ UNCHANGED <<file, pool>>
      BY <1>4, <1>6 DEF UpdateRow
    <2>2. "too_large" \in Errors
      BY DEF Errors
    <2> QED
      BY <1>1, <2>1, <2>2, FinishQuiet
  <1> QED
    BY <1>5, <1>6

-----------------------------------------------------------------------------
(* The invariant holds, and the store is implemented *)

LEMMA InitHInv == Init => HInv /\ Store!Init
  <1> SUFFICES ASSUME Init PROVE HInv /\ Store!Init
    OBVIOUS
  <1>1. /\ config \in Configs /\ pool = [p \in {} |-> Zeroes] /\ DOMAIN cursors = {} /\ call = Idle
        /\ file = [page_count |-> 1, free |-> <<>>, poisoned |-> FALSE,
                   disk |-> [p \in Pages |-> Zeroes]]
        /\ worker = [queue |-> {}, loading |-> Nothing, read |-> Zeroes]
    BY DEF Init
  <1>2. Zeroes \in PageContent /\ GoodPage(Zeroes)
    BY DEF Zeroes, PageContent, GoodPage
  <1>3. 1 \in 1..MaxPages + 1
    BY Constants
  <1>4. /\ file.page_count = 1 /\ file.free = <<>> /\ file.poisoned = FALSE
        /\ file.disk = [p \in Pages |-> Zeroes]
        /\ file \in [page_count : 1..MaxPages + 1, free : Seq(Pages), poisoned : BOOLEAN,
                     disk : [Pages -> PageContent]]
    BY <1>1, <1>2, <1>3
  <1>5. Allocated = {}
    <2>1. \A p \in Pages : ~(p < 1)
      BY DEF Pages
    <2> QED
      BY <1>4, <2>1 DEF Allocated
  <1>6. FileInv
    <2>1. \A p \in Pages : GoodPage(file.disk[p])
      BY <1>2, <1>4
    <2> QED
      BY <1>1, <1>4, <2>1 DEF FileInv
  <1>7. /\ call.op = "none" /\ call.pc = "idle" /\ call.req = <<>> /\ call.done = <<>>
        /\ call.page = Nothing /\ call.err = "none" /\ DOMAIN call.before = {}
    BY <1>1 DEF Idle
  <1>8. PoolInv
    <2>1. DOMAIN pool = {} /\ pool = [p \in DOMAIN pool |-> file.disk[p]]
      BY <1>1
    <2>2. /\ worker \in [queue : SUBSET Pages, loading : Pages \cup {Nothing}, read : PageContent]
          /\ worker.queue = {} /\ worker.loading = Nothing
      BY <1>1, <1>2
    <2> QED
      BY <1>4, <1>7, <2>1, <2>2 DEF PoolInv
  <1>9. CreationInv
    BY <1>5, <1>7 DEF CreationInv
  <1>10. CallInv
    <2>1. call \in [op : {"none", "insert", "delete", "update"},
                    pc : {"idle", "row", "bootstrap", "fresh", "done"},
                    req : {call.req}, done : Seq(Rids), page : Pages \cup {Nothing},
                    err : Errors, before : {call.before}]
      BY <1>1, <1>7 DEF Idle, Errors
    <2> QED
      BY <1>1, <1>7, <2>1 DEF CallInv, Errors
  <1>11. PrefixInv
    BY <1>7 DEF PrefixInv
  <1>12. ScanInv
    BY <1>1 DEF ScanInv
  <1>13. Store!Init
    <2>1. LiveRids = {} /\ Issued = {}
      BY <1>5 DEF LiveRids, Issued
    <2>2. Records = [r \in {} |-> {}]
      BY <2>1 DEF Records
    <2> QED
      BY <2>1, <2>2 DEF Store!Init
  <1> QED
    BY <1>6, <1>8, <1>9, <1>10, <1>11, <1>12, <1>13 DEF HInv

LEMMA NextStep ==
    ASSUME HInv, Sane, Next
    PROVE  HInv' /\ StoreStep
  <1>1. CASE \E p \in Pages : Evict(p) \/ WorkerRead(p)
    BY <1>1, EvictStep, WorkerReadStep
  <1>2. CASE WorkerPublish \/ open_table
    BY <1>2, WorkerPublishStep, OpenTableStep
  <1>3. CASE \E c \in DOMAIN cursors :
                ScanRecord(c) \/ ScanEnd(c) \/ ScanFails(c) \/ close_cursor(c)
    BY <1>3, ScanRecordStep, ScanEndStep, ScanFailsStep, CloseCursorStep
  <1>4. CASE Admitted /\ \E rows \in UNION {[1..n -> Sizes] : n \in 1..MaxBatch} : insert(rows)
    BY <1>4, InsertStep
  <1>5. CASE Admitted /\ \E rids \in Requests : delete_records(rids)
    BY <1>5, DeleteRecordsStep
  <1>6. CASE Admitted /\ \E rids \in Requests : \E n \in Sizes :
                update_rows([i \in DOMAIN rids |-> [rid |-> rids[i], size |-> n]])
    BY <1>6, UpdateRowsStep
  <1>7. CASE InsertRow \/ DeleteRow \/ UpdateRow \/ RowFails
    BY <1>7, InsertRowStep, DeleteRowStep, UpdateRowStep, RowFailsStep
  <1>8. CASE AllocatePage \/ AllocateFails \/ BootstrapWrite \/ BootstrapFails
    BY <1>8, AllocatePageStep, AllocateFailsStep, BootstrapWriteStep, BootstrapFailsStep
  <1>9. CASE InsertFresh \/ FreshFails \/ Return
    BY <1>9, InsertFreshStep, FreshFailsStep, ReturnStep
  <1> QED
    BY <1>1, <1>2, <1>3, <1>4, <1>5, <1>6, <1>7, <1>8, <1>9 DEF Next

(* No step changes the configuration. *)
LEMMA ConfigKept ==
    ASSUME Next
    PROVE  config' = config
  BY DEF Next, Evict, WorkerRead, WorkerPublish, open_table, ScanRecord, ScanEnd, ScanFails,
         close_cursor, insert, delete_records, update_rows, InsertRow, DeleteRow, UpdateRow,
         RowFails, AllocatePage, AllocateFails, BootstrapWrite, BootstrapFails, InsertFresh,
         FreshFails, Return

LEMMA BoxStep == HInv /\ Sane /\ [Next]_vars => HInv' /\ Sane' /\ StoreStep
  <1> SUFFICES ASSUME HInv, Sane, [Next]_vars PROVE HInv' /\ Sane' /\ StoreStep
    OBVIOUS
  <1>1. CASE Next
    BY <1>1, NextStep, ConfigKept DEF Sane
  <1>2. CASE UNCHANGED vars
    <2>1. UNCHANGED <<config, file, pool, worker, cursors, next_id, call>>
      BY <1>2 DEF vars
    <2>2. PoolInv'
      BY <2>1 DEF HInv, PoolInv, Allocated
    <2> QED
      BY <2>1, <2>2, PoolStep DEF Sane
  <1> QED
    BY <1>1, <1>2

(* The invariant. *)
LEMMA HInvHolds == Spec /\ Sane => [](HInv /\ Sane)
  <1>1. Init => HInv
    BY InitHInv
  <1>2. HInv /\ Sane /\ [Next]_vars => HInv' /\ Sane'
    BY BoxStep
  <1> QED
    BY <1>1, <1>2, PTL DEF Spec

-----------------------------------------------------------------------------
(* What the invariant says *)

LEMMA HInvInitialized == HInv => PagesInitialized
  <1> SUFFICES ASSUME HInv, ~file.poisoned
               PROVE  /\ \A p \in Allocated :
                            (p = call.page /\ call.pc = "bootstrap") \/ Content(p).init
                      /\ \A p \in DOMAIN pool : p \in Allocated /\ pool[p] = file.disk[p]
    BY DEF PagesInitialized
  <1>1. \A p \in Allocated : Content(p) = file.disk[p]
    BY AllocatedIn, ContentIs DEF HInv
  <1>2. \A p \in DOMAIN pool : p \in Allocated /\ pool[p] = file.disk[p]
    BY DEF HInv, PoolInv
  <1> QED
    BY <1>1, <1>2 DEF HInv, CreationInv

LEMMA HInvScans == HInv => ScansComplete
  <1> SUFFICES ASSUME HInv, NEW c \in DOMAIN cursors
               PROVE  /\ \A i, j \in DOMAIN cursors[c].seen :
                            i < j => Precedes(cursors[c].seen[i], cursors[c].seen[j])
                      /\ cursors[c].status = "eof" =>
                            {cursors[c].seen[i] : i \in DOMAIN cursors[c].seen} = LiveRids
    BY DEF ScansComplete, Precedes
  <1>1. CursorInv(cursors[c], LiveRids, file.page_count)
    BY CursorFacts
  <1> DEFINE k == cursors[c]
  <1> HIDE DEF k
  <1>2. /\ {k.seen[i] : i \in DOMAIN k.seen} = LiveRids \ AheadOf(k, LiveRids)
        /\ \A i, j \in DOMAIN k.seen : i < j => Precedes(k.seen[i], k.seen[j])
        /\ k.status = "eof" => AheadOf(k, LiveRids) = {}
    BY <1>1 DEF CursorInv, k
  <1>3. k.status = "eof" => {k.seen[i] : i \in DOMAIN k.seen} = LiveRids
    BY <1>2
  <1> QED
    BY <1>2, <1>3 DEF k

(* Rows that are all different are as many as they are. *)
LEMMA Counted ==
    ASSUME NEW s, NEW n \in Nat, DOMAIN s = 1..n, s = [i \in 1..n |-> s[i]],
           \A i, j \in 1..n : i # j => s[i] # s[j]
    PROVE  Cardinality({s[i] : i \in 1..n}) = n
  <1> DEFINE S == {s[i] : i \in 1..n}
  <1>1. s \in [1..n -> S]
    OBVIOUS
  <1>2. IsInjective(s)
    BY DEF IsInjective
  <1>3. \A x \in S : \E i \in 1..n : s[i] = x
    OBVIOUS
  <1> HIDE DEF S
  <1>4. s \in Bijection(1..n, S)
    BY <1>1, <1>2, <1>3 DEF Bijection, Injection, Surjection
  <1>5. ExistsBijection(1..n, S)
    BY <1>4 DEF ExistsBijection
  <1>6. Cardinality(S) = n
    BY <1>5, FS_CountingElements
  <1> QED
    BY <1>6 DEF S

LEMMA HInvPrefix == HInv => BatchIsPrefix
  <1> DEFINE n == Len(call.done)
             ids == {call.done[i] : i \in 1..n}
             Size(r) == IF \E i \in 1..n : call.done[i] = r
                        THEN LET i == CHOOSE i \in 1..n : call.done[i] = r IN
                             IF call.op = "insert" THEN call.req[i] ELSE call.req[i].size
                        ELSE call.before[r]
             Expected == CASE call.op = "insert" -> [r \in DOMAIN call.before \cup ids |-> Size(r)]
                           [] call.op = "delete" ->
                                 [r \in DOMAIN call.before \ ids |-> call.before[r]]
                           [] call.op = "update" -> [r \in DOMAIN call.before |-> Size(r)]
  <1> SUFFICES ASSUME HInv, call.op # "none"
               PROVE  /\ Records = Expected
                      /\ Cardinality(ids) = n
                      /\ (call.op = "update" /\ call.err = "invalid" => n = 0)
    BY DEF BatchIsPrefix
  <1>1. call.done \in Seq(Rids) /\ n \in Nat
    BY DEF HInv, CallInv
  <1>2. ids = Done
    BY DEF Done
  <1>3. \A i, j \in 1..n : i # j => call.done[i] # call.done[j]
    BY DEF HInv, PrefixInv
  <1>4. DOMAIN Records = LiveRids /\ Records = [r \in LiveRids |-> Records[r]]
    BY DEF Records
  <1>5. ASSUME NEW i \in 1..n
        PROVE  Size(call.done[i]) =
                   IF call.op = "insert" THEN call.req[i] ELSE call.req[i].size
    <2> DEFINE j == CHOOSE j \in 1..n : call.done[j] = call.done[i]
    <2>1. j \in 1..n /\ call.done[j] = call.done[i]
      OBVIOUS
    <2>2. j = i
      BY <1>3, <2>1
    <2>3. Size(call.done[i]) = IF call.op = "insert" THEN call.req[j] ELSE call.req[j].size
      OBVIOUS
    <2> HIDE DEF j
    <2> QED
      BY <2>2, <2>3
  <1>6. \A r : r \notin ids => Size(r) = call.before[r]
    OBVIOUS
  <1> HIDE DEF Size
  <1>7. Cardinality(ids) = n
    <2>1. DOMAIN call.done = 1..n /\ call.done = [i \in 1..n |-> call.done[i]]
      BY <1>1
    <2> QED
      BY <1>1, <1>3, <2>1, Counted
  <1>8. CASE call.op = "insert"
    <2>1. /\ LiveRids = DOMAIN call.before \cup ids
          /\ \A r \in DOMAIN call.before \ ids : Records[r] = call.before[r]
          /\ \A i \in 1..n : Records[call.done[i]] = call.req[i]
      BY <1>2, <1>8 DEF HInv, PrefixInv
    <2>2. ASSUME NEW r \in LiveRids PROVE Records[r] = Size(r)
      <3>1. CASE r \in ids
        <4>1. PICK i \in 1..n : r = call.done[i]
          BY <3>1
        <4> QED
          BY <1>5, <1>8, <2>1, <4>1
      <3>2. CASE r \notin ids
        BY <1>6, <2>1, <3>2
      <3> QED
        BY <3>1, <3>2
    <2>3. Expected = [r \in DOMAIN call.before \cup ids |-> Size(r)]
      BY <1>8
    <2> HIDE DEF ids, Expected
    <2>4. Records = Expected
      BY <1>4, <2>1, <2>2, <2>3
    <2> QED
      BY <1>7, <1>8, <2>4
  <1>9. CASE call.op = "delete"
    <2>1. /\ LiveRids = DOMAIN call.before \ ids
          /\ \A r \in LiveRids : Records[r] = call.before[r]
      BY <1>2, <1>9 DEF HInv, PrefixInv
    <2>2. Expected = [r \in DOMAIN call.before \ ids |-> call.before[r]]
      BY <1>9
    <2> HIDE DEF ids, Expected
    <2>3. Records = Expected
      BY <1>4, <2>1, <2>2
    <2> QED
      BY <1>7, <1>9, <2>3
  <1>10. CASE call.op = "update"
    <2>1. /\ LiveRids = DOMAIN call.before
          /\ \A r \in DOMAIN call.before \ ids : Records[r] = call.before[r]
          /\ \A i \in 1..n : Records[call.done[i]] = call.req[i].size
          /\ call.err = "invalid" => call.done = <<>>
      BY <1>2, <1>10 DEF HInv, PrefixInv
    <2>2. ASSUME NEW r \in LiveRids PROVE Records[r] = Size(r)
      <3>1. CASE r \in ids
        <4>1. PICK i \in 1..n : r = call.done[i]
          BY <3>1
        <4> QED
          BY <1>5, <1>10, <2>1, <4>1
      <3>2. CASE r \notin ids
        BY <1>6, <2>1, <3>2
      <3> QED
        BY <3>1, <3>2
    <2>3. Expected = [r \in DOMAIN call.before |-> Size(r)]
      BY <1>10
    <2>4. call.err = "invalid" => n = 0
      BY <2>1
    <2> HIDE DEF ids, Expected
    <2>5. Records = Expected
      BY <1>4, <2>1, <2>2, <2>3
    <2> QED
      BY <1>7, <2>4, <2>5
  <1>11. call.op \in {"insert", "delete", "update"}
    BY DEF HInv, CallInv
  <1> QED
    BY <1>8, <1>9, <1>10, <1>11

-----------------------------------------------------------------------------
(* Theorems *)

(* create_record_page leaves no half-made page behind, whichever of its    *)
(* three steps fails, and no frame that the prefetch worker filled hides   *)
(* the page it wrote behind the pool: at every moment an allocated page is *)
(* a record page unless it is being created or the file is given up.       *)
THEOREM PagesAreInitialized == Spec /\ Sane => []PagesInitialized
  BY HInvHolds, HInvInitialized, PTL

(* insert, delete_records and update_rows report the truth: the records    *)
(* are those from before the call with exactly the reported rows carried   *)
(* out, after any failure, and a refused update changed nothing.           *)
THEOREM BatchesArePrefixes == Spec /\ Sane => []BatchIsPrefix
  BY HInvHolds, HInvPrefix, PTL

(* A scan that next_record brought to the end has returned each record of  *)
(* the table once, in the order of pages and slots.                        *)
THEOREM ScansAreComplete == Spec /\ Sane => []ScansComplete
  BY HInvHolds, HInvScans, PTL

(* The table is one store of records: every step of the heap table, of its *)
(* batches and of the pool under it is a step of RecordStore or none, and  *)
(* no record id is given out twice.                                        *)
THEOREM TableImplementsRecordStore == Spec /\ Sane => ImplementsRecordStore
  <1>1. Init => Store!Init
    BY InitHInv
  <1>2. StoreStep => [Store!Next]_Store!vars
    BY DEF StoreStep, Store!vars
  <1>3. HInv /\ Sane /\ [Next]_vars => StoreStep
    BY BoxStep
  <1> QED
    BY <1>1, <1>2, <1>3, HInvHolds, PTL DEF Spec, ImplementsRecordStore, Store!Spec
=============================================================================
