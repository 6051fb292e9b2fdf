--------------------------- MODULE PageFileProofs ---------------------------
(***************************************************************************)
(* PageFile for any number of pages: the free list in the file is sound    *)
(* at every point where the process may die, and an owned page is neither  *)
(* free nor changed by anyone but its writers.                             *)
(***************************************************************************)
EXTENDS PageFile, TLAPS

(* A call between its two writes: the page it is at is nobody's and not in *)
(* the list, and memory agrees with the file.                              *)
OpOK ==
    /\ op.pc = "idle" => op = Idle
    /\ op.pc # "idle" => mem.open /\ ~mem.poisoned /\ op.page \in Pages
    /\ op.pc \in {"clear", "link"} =>
            /\ op.page < file.count
            /\ op.page \notin FreePages(file.head, file.page)
            /\ op.page \notin owned
    /\ op.pc = "link" => file.page[op.page] = mem.head
    /\ op.pc = "grow" => op.page = mem.count /\ file.page[op.page] = Zero

IInv ==
    /\ TypeOK
    /\ OpOK
    /\ DiskSound
    /\ OwnedNotFree
    /\ OwnedContent
    /\ MemoryMatchesFile

-----------------------------------------------------------------------------
(* The pages on the free list. *)

(* The list has its head, and with a page the next one (the walk of        *)
(* is_free_page_locked).                                                   *)
LEMMA FreeClosed ==
    ASSUME NEW h, NEW d
    PROVE  /\ FreePages(h, d) \subseteq Pages
           /\ h \in Pages => h \in FreePages(h, d)
           /\ Linked(FreePages(h, d), d)
  BY DEF FreePages, Linked

(* It has no page beyond those. *)
LEMMA FreeLeast ==
    ASSUME NEW h, NEW d, NEW S \in SUBSET Pages, h \in Pages => h \in S, Linked(S, d)
    PROVE  FreePages(h, d) \subseteq S
  BY DEF FreePages

(* Writing a page that is not on the list does not change the list. *)
LEMMA FreeOther ==
    ASSUME NEW h, NEW d \in [Pages -> Contents], NEW p \in Pages, NEW c,
           p \notin FreePages(h, d)
    PROVE  FreePages(h, [d EXCEPT ![p] = c]) = FreePages(h, d)
  <1> DEFINE e == [d EXCEPT ![p] = c]
             F == FreePages(h, d)
             G == FreePages(h, e)
  <1>0. \A q \in Pages : q # p => e[q] = d[q]
    OBVIOUS
  <1>f. /\ F \in SUBSET Pages
        /\ h \in Pages => h \in F
        /\ Linked(F, d)
    BY FreeClosed
  <1>g. /\ G \in SUBSET Pages
        /\ h \in Pages => h \in G
        /\ Linked(G, e)
    BY FreeClosed
  <1>1. Linked(F, e)
    BY <1>0, <1>f DEF Linked
  <1>2. G \subseteq F
    BY <1>1, <1>f, FreeLeast
  <1>3. Linked(G, d)
    <2> SUFFICES ASSUME NEW q \in G, d[q] \in Pages PROVE d[q] \in G
      BY DEF Linked
    <2>1. q \in Pages /\ q # p
      BY <1>2, <1>g
    <2>2. e[q] = d[q]
      BY <2>1, <1>0
    <2> QED
      BY <2>2, <1>g DEF Linked
  <1>4. F \subseteq G
    BY <1>3, <1>g, FreeLeast
  <1> QED
    BY <1>2, <1>4

(* Taking the head of a valid list leaves the others. *)
LEMMA FreeTake ==
    ASSUME NEW h \in Pages, NEW n, NEW d, ListValid(h, n, d)
    PROVE  FreePages(d[h], d) = FreePages(h, d) \ {h}
  <1> DEFINE F == FreePages(h, d)
             G == FreePages(d[h], d)
             H == G \cup {h}
  <1>f. F \in SUBSET Pages /\ h \in F /\ Linked(F, d)
    BY FreeClosed
  <1>g. G \in SUBSET Pages /\ (d[h] \in Pages => d[h] \in G) /\ Linked(G, d)
    BY FreeClosed
  <1>1. h \notin G
    BY <1>f DEF ListValid
  <1>2. d[h] \in Pages => d[h] \in F
    BY <1>f DEF Linked
  <1>3. G \subseteq F
    BY <1>2, <1>f, FreeLeast
  <1>4. H \in SUBSET Pages /\ h \in H /\ Linked(H, d)
    BY <1>g DEF Linked
  <1>5. F \subseteq H
    BY <1>4, FreeLeast
  <1> QED
    BY <1>1, <1>3, <1>5

(* Putting a page before the head adds it. *)
LEMMA FreePut ==
    ASSUME NEW h, NEW d, NEW p \in Pages, d[p] = h
    PROVE  FreePages(p, d) = FreePages(h, d) \cup {p}
  <1> DEFINE F == FreePages(h, d)
             G == FreePages(p, d)
             H == F \cup {p}
  <1>f. F \in SUBSET Pages /\ (h \in Pages => h \in F) /\ Linked(F, d)
    BY FreeClosed
  <1>g. G \in SUBSET Pages /\ p \in G /\ Linked(G, d)
    BY FreeClosed
  <1>1. H \in SUBSET Pages /\ p \in H /\ Linked(H, d)
    BY <1>f DEF Linked
  <1>2. G \subseteq H
    BY <1>1, FreeLeast
  <1>3. h \in Pages => h \in G
    BY <1>g DEF Linked
  <1>4. F \subseteq G
    BY <1>3, <1>g, FreeLeast
  <1> QED
    BY <1>2, <1>4, <1>g

(* The list behind a page of the list is part of it. *)
LEMMA FreeSuffix ==
    ASSUME NEW h, NEW d, NEW q \in FreePages(h, d)
    PROVE  FreePages(d[q], d) \subseteq FreePages(h, d)
  <1> DEFINE F == FreePages(h, d)
  <1>1. F \in SUBSET Pages /\ Linked(F, d)
    BY FreeClosed
  <1>2. d[q] \in Pages => d[q] \in F
    BY <1>1 DEF Linked
  <1> QED
    BY <1>1, <1>2, FreeLeast

(* A valid list stays valid when another page is written ... *)
LEMMA ValidOther ==
    ASSUME NEW h, NEW n, NEW d \in [Pages -> Contents], NEW p \in Pages, NEW c,
           p \notin FreePages(h, d), ListValid(h, n, d)
    PROVE  ListValid(h, n, [d EXCEPT ![p] = c])
  <1> DEFINE e == [d EXCEPT ![p] = c]
  <1>1. FreePages(h, e) = FreePages(h, d)
    BY FreeOther
  <1> SUFFICES ASSUME NEW q \in FreePages(h, d)
               PROVE  q < n /\ e[q] \in Marker /\ q \notin FreePages(e[q], e)
    BY <1>1 DEF ListValid
  <1>2. q \in Pages /\ q # p /\ e[q] = d[q]
    BY FreeClosed
  <1>3. q < n /\ d[q] \in Marker /\ q \notin FreePages(d[q], d)
    BY DEF ListValid
  <1>4. p \notin FreePages(d[q], d)
    BY FreeSuffix
  <1>5. FreePages(d[q], e) = FreePages(d[q], d)
    BY <1>4, FreeOther
  <1> QED
    BY <1>2, <1>3, <1>5

(* ... when its head is taken ... *)
LEMMA ValidTake ==
    ASSUME NEW h \in Pages, NEW n, NEW d, ListValid(h, n, d)
    PROVE  ListValid(d[h], n, d)
  BY FreeTake DEF ListValid

(* ... and when a page is put before its head. *)
LEMMA ValidPut ==
    ASSUME NEW h \in Marker, NEW n, NEW d, NEW p \in Pages, p < n,
           d[p] = h, p \notin FreePages(h, d), ListValid(h, n, d)
    PROVE  ListValid(p, n, d)
  <1>1. FreePages(p, d) = FreePages(h, d) \cup {p}
    BY FreePut
  <1> QED
    BY <1>1 DEF ListValid

-----------------------------------------------------------------------------
(* What the raw writes do to the file. *)

(* A write to a page that is not on the list, failed or not, keeps the     *)
(* list; a page that was in the file stays in the file.                    *)
LEMMA PageWrite ==
    ASSUME TypeOK, DiskSound, NEW p \in Pages, NEW new \in Values \cup Marker \cup {Zero},
           p \notin FreePages(file.head, file.page),
           Wrote(p, new) \/ WriteFails(p, new)
    PROVE  /\ file' \in [count : 1..MaxPage + 1, head : Marker, page : [Pages -> Contents]]
           /\ file'.count = file.count /\ file'.head = file.head
           /\ \A q \in Pages \ {p} : file'.page[q] = file.page[q]
           /\ FreePages(file.head, file'.page) = FreePages(file.head, file.page)
           /\ DiskSound'
  <1> PICK c : /\ file' = [file EXCEPT !.page[p] = c]
               /\ c \in FailedWrite(file.page[p], new) \cup {new}
    BY DEF Wrote, WriteFails
  <1>1. c \in Contents /\ (file.page[p] \notin {Absent, Partial} => c \notin {Absent, Partial})
    BY PageFileAssumption DEF FailedWrite, Contents, Marker, TypeOK
  <1>2. /\ file' \in [count : 1..MaxPage + 1, head : Marker, page : [Pages -> Contents]]
        /\ file'.count = file.count /\ file'.head = file.head
        /\ file'.page = [file.page EXCEPT ![p] = c]
    BY <1>1 DEF TypeOK
  <1>3. \A q \in Pages \ {p} : file'.page[q] = file.page[q]
    BY <1>2 DEF TypeOK
  <1>4. FreePages(file.head, file'.page) = FreePages(file.head, file.page)
    BY <1>2, FreeOther DEF TypeOK
  <1>5. ListValid(file.head, file.count, file'.page)
    BY <1>2, ValidOther DEF TypeOK, DiskSound
  <1>6. \A q \in Pages : q < file.count => file'.page[q] \notin {Absent, Partial}
    BY <1>1, <1>2 DEF DiskSound, TypeOK
  <1> QED
    BY <1>2, <1>3, <1>4, <1>5, <1>6 DEF DiskSound

(* A failed header write leaves the old header or the new one. *)
LEMMA HeaderWrite ==
    ASSUME TypeOK, NEW n \in 1..MaxPage + 1, NEW h \in Marker,
           WroteHeader(n, h) \/ HeaderFails(n, h)
    PROVE  /\ file' \in [count : 1..MaxPage + 1, head : Marker, page : [Pages -> Contents]]
           /\ file'.page = file.page
           /\ \/ file'.count = file.count /\ file'.head = file.head
              \/ file'.count = n /\ file'.head = h
           /\ WroteHeader(n, h) => file'.count = n /\ file'.head = h
  BY DEF TypeOK, WroteHeader, HeaderFails

(* The latch, the resting state and the objects that open and close leave  *)
(* have their types.                                                       *)
LEMMA MemTypes ==
    ASSUME TypeOK
    PROVE  /\ Poisoned \in [open : BOOLEAN, stream : BOOLEAN, poisoned : BOOLEAN,
                            count : 1..MaxPage + 1, head : Marker]
           /\ Poisoned.poisoned
           /\ Idle \in [pc : Steps, page : Marker] /\ Idle.pc = "idle"
  <1>1. Poisoned \in [open : BOOLEAN, stream : BOOLEAN, poisoned : BOOLEAN,
                      count : 1..MaxPage + 1, head : Marker]
    BY DEF TypeOK, Poisoned
  <1>2. Poisoned.poisoned
    BY DEF TypeOK, Poisoned
  <1>3. Idle \in [pc : Steps, page : Marker] /\ Idle.pc = "idle"
    BY PageFileAssumption DEF Idle, Steps, Marker
  <1> QED
    BY <1>1, <1>2, <1>3

-----------------------------------------------------------------------------

(* A created file satisfies the invariant. *)
LEMMA InitIInv == Init => IInv
  <1> SUFFICES ASSUME Init PROVE IInv
    OBVIOUS
  <1>0. file.head = 0 /\ file.count = 1
    BY DEF Init
  <1>1. FreePages(0, file.page) = {}
    <2>1. 0 \notin Pages /\ Linked({}, file.page)
      BY DEF Linked, Pages
    <2> QED
      BY <2>1, FreeLeast
  <1>2. TypeOK
    BY PageFileAssumption DEF Init, TypeOK, Contents, Marker, Steps, Idle, Pages
  <1>3. DiskSound
    BY <1>0, <1>1 DEF DiskSound, ListValid, Pages
  <1> QED
    BY <1>2, <1>3 DEF Init, IInv, OpOK, OwnedNotFree, OwnedContent, MemoryMatchesFile, Idle

-----------------------------------------------------------------------------
(* One lemma per action. *)

(* Between calls memory describes the file, so what the code checks of     *)
(* its own list holds of the file's.                                       *)
LEMMA ReadyFacts ==
    ASSUME IInv, Ready
    PROVE  /\ mem.count = file.count /\ mem.head = file.head
           /\ op = Idle
           /\ \A p \in Pages : Allocated(p) =>
                    p < file.count /\ p \notin FreePages(file.head, file.page)
  BY DEF IInv, Ready, OpOK, MemoryMatchesFile, Allocated

(* write_page keeps the invariant: it writes a page outside the list. *)
LEMMA WriteStep ==
    ASSUME IInv, NEW p \in Pages, NEW v \in Values, write_page(p, v)
    PROVE  IInv'
  <1> USE DEF IInv
  <1>1. Ready /\ Allocated(p) /\ UNCHANGED <<mem, op, owned>>
    BY DEF write_page
  <1>2. /\ mem.count = file.count /\ mem.head = file.head /\ op = Idle
        /\ p < file.count /\ p \notin FreePages(file.head, file.page)
    BY <1>1, ReadyFacts
  <1>3. /\ Wrote(p, v) \/ WriteFails(p, v)
        /\ last' = [last EXCEPT ![p] = v] \/ last' = [last EXCEPT ![p] = Unknown]
        /\ last' = [last EXCEPT ![p] = Unknown] \/ Wrote(p, v)
    BY DEF write_page
  <1>4. /\ file' \in [count : 1..MaxPage + 1, head : Marker, page : [Pages -> Contents]]
        /\ file'.count = file.count /\ file'.head = file.head
        /\ \A q \in Pages \ {p} : file'.page[q] = file.page[q]
        /\ FreePages(file.head, file'.page) = FreePages(file.head, file.page)
        /\ DiskSound'
    BY <1>2, <1>3, PageWrite
  <1>5. TypeOK'
    BY <1>1, <1>3, <1>4 DEF TypeOK
  <1>6. OpOK'
    BY <1>1, <1>2, <1>4 DEF OpOK, Idle
  <1>7. OwnedNotFree'
    BY <1>1, <1>4 DEF OwnedNotFree
  <1>8. OwnedContent'
    <2> SUFFICES ASSUME NEW q \in owned, last'[q] # Unknown PROVE file'.page[q] = last'[q]
      BY <1>1 DEF OwnedContent
    <2>1. CASE q # p
      BY <2>1, <1>3, <1>4 DEF OwnedContent, TypeOK
    <2>2. CASE q = p
      <3>1. last'[p] = v /\ Wrote(p, v)
        BY <2>2, <1>3 DEF TypeOK, write_page
      <3> QED
        BY <3>1, <2>2 DEF Wrote, TypeOK
    <2> QED
      BY <2>1, <2>2
  <1>9. MemoryMatchesFile'
    BY <1>1, <1>2, <1>4 DEF MemoryMatchesFile
  <1> QED
    BY <1>4, <1>5, <1>6, <1>7, <1>8, <1>9

(* The first write of an allocation from the list keeps the invariant. *)
LEMMA TakeFreeStep ==
    ASSUME IInv, TakeFree
    PROVE  IInv'
  <1> USE DEF IInv
  <1>1. Ready /\ mem.head # 0 /\ UNCHANGED <<owned, last>>
    BY DEF TakeFree
  <1>2. mem.count = file.count /\ mem.head = file.head /\ op = Idle
    BY <1>1, ReadyFacts
  <1> DEFINE h == file.head
             next == file.page[h]
  <1>3. h \in Pages /\ next \in Marker /\ h < file.count
    <2>1. h \in Pages
      BY <1>1, <1>2 DEF TypeOK, Marker, Pages
    <2>2. h \in FreePages(h, file.page)
      BY <2>1, FreeClosed
    <2> QED
      BY <2>1, <2>2 DEF DiskSound, ListValid
  <1>4. WroteHeader(file.count, next) \/ HeaderFails(file.count, next)
    BY <1>2 DEF TakeFree, HeadAfterTake
  <1>5. file.count \in 1..MaxPage + 1
    BY DEF TypeOK
  <1>6. /\ file' \in [count : 1..MaxPage + 1, head : Marker, page : [Pages -> Contents]]
        /\ file'.page = file.page
        /\ \/ file'.count = file.count /\ file'.head = file.head
           \/ file'.count = file.count /\ file'.head = next
        /\ WroteHeader(file.count, next) => file'.count = file.count /\ file'.head = next
    BY <1>3, <1>4, <1>5, HeaderWrite
  <1>7. /\ FreePages(next, file.page) = FreePages(h, file.page) \ {h}
        /\ ListValid(next, file.count, file.page)
    BY <1>3, FreeTake, ValidTake DEF DiskSound
  <1>8. DiskSound'
    BY <1>6, <1>7 DEF DiskSound
  <1>9. OwnedNotFree'
    BY <1>1, <1>6, <1>7 DEF OwnedNotFree
  <1>10. OwnedContent'
    BY <1>1, <1>6 DEF OwnedContent
  <1>11. CASE /\ WroteHeader(mem.count, HeadAfterTake)
              /\ mem' = [mem EXCEPT !.head = file.page[mem.head]]
              /\ op' = [pc |-> "clear", page |-> mem.head]
    <2>1. file'.count = file.count /\ file'.head = next
      BY <1>11, <1>2, <1>6 DEF HeadAfterTake
    <2>2. h \notin owned
      BY <1>3, FreeClosed DEF OwnedNotFree
    <2>3. TypeOK'
      BY <1>11, <1>1, <1>2, <1>3, <1>6 DEF TypeOK, Steps
    <2>4. OpOK'
      BY <1>11, <1>1, <1>2, <1>3, <1>6, <1>7, <2>1, <2>2 DEF OpOK, Ready, TypeOK
    <2>5. MemoryMatchesFile'
      BY <1>11, <1>2, <2>1 DEF MemoryMatchesFile, TypeOK
    <2> QED
      BY <2>3, <2>4, <2>5, <1>8, <1>9, <1>10
  <1>12. CASE mem' = Poisoned /\ UNCHANGED op
    <2>1. TypeOK'
      BY <1>12, <1>1, <1>6 DEF TypeOK, Poisoned
    <2>2. OpOK' /\ MemoryMatchesFile'
      BY <1>12, <1>2 DEF OpOK, MemoryMatchesFile, Poisoned, TypeOK, Idle
    <2> QED
      BY <2>1, <2>2, <1>8, <1>9, <1>10
  <1> QED
    BY <1>11, <1>12 DEF TakeFree

(* The second write hands the page out, or poisons the file. *)
LEMMA ClearStep ==
    ASSUME IInv, Clear
    PROVE  IInv'
  <1> USE DEF IInv
  <1> DEFINE p == op.page
  <1>1. /\ op.pc = "clear" /\ op' = Idle
        /\ Wrote(p, Zero) \/ WriteFails(p, Zero)
    BY DEF Clear
  <1>2. /\ mem.open /\ ~mem.poisoned /\ p \in Pages /\ p < file.count
        /\ p \notin FreePages(file.head, file.page) /\ p \notin owned
    BY <1>1 DEF OpOK
  <1>3. /\ file' \in [count : 1..MaxPage + 1, head : Marker, page : [Pages -> Contents]]
        /\ file'.count = file.count /\ file'.head = file.head
        /\ \A q \in Pages \ {p} : file'.page[q] = file.page[q]
        /\ FreePages(file.head, file'.page) = FreePages(file.head, file.page)
        /\ DiskSound'
    BY <1>1, <1>2, PageWrite
  <1>4. OpOK'
    BY <1>1 DEF OpOK, Idle
  <1>5. CASE Wrote(p, Zero) /\ HandOut(p) /\ UNCHANGED mem
    <2>1. TypeOK'
      BY <1>5, <1>1, <1>2, <1>3, PageFileAssumption DEF TypeOK, HandOut, Idle, Steps, Marker
    <2>2. OwnedNotFree'
      BY <1>5, <1>2, <1>3 DEF OwnedNotFree, HandOut
    <2>3. OwnedContent'
      BY <1>5, <1>2, <1>3 DEF OwnedContent, HandOut, Wrote, TypeOK
    <2>4. MemoryMatchesFile'
      BY <1>5, <1>3 DEF MemoryMatchesFile
    <2> QED
      BY <2>1, <2>2, <2>3, <2>4, <1>3, <1>4
  <1>6. CASE mem' = Poisoned /\ UNCHANGED <<owned, last>>
    <2>1. TypeOK'
      BY <1>6, <1>1, <1>3, MemTypes DEF TypeOK
    <2>2. OwnedNotFree'
      BY <1>6, <1>3 DEF OwnedNotFree
    <2>3. OwnedContent'
      BY <1>6, <1>2, <1>3 DEF OwnedContent, TypeOK
    <2>4. MemoryMatchesFile'
      BY <1>6 DEF MemoryMatchesFile, Poisoned, TypeOK
    <2> QED
      BY <2>1, <2>2, <2>3, <2>4, <1>3, <1>4
  <1> QED
    BY <1>5, <1>6 DEF Clear
(* The first write of an extension lies behind the counted pages. *)
LEMMA ExtendStep ==
    ASSUME IInv, Extend
    PROVE  IInv'
  <1> USE DEF IInv
  <1> DEFINE p == file.count
  <1>1. Ready /\ PageIdLeft /\ UNCHANGED <<mem, owned, last>>
    BY DEF Extend
  <1>2. mem.count = file.count /\ mem.head = file.head /\ op = Idle
    BY <1>1, ReadyFacts
  <1>3. p \in Pages /\ p \notin owned
    BY <1>1, <1>2, PageFileAssumption DEF PageIdLeft, TypeOK, Pages, OwnedNotFree
  <1>4. p \notin FreePages(file.head, file.page)
    BY <1>3 DEF DiskSound, ListValid, Pages
  <1>5. /\ Wrote(p, Zero) \/ WriteFails(p, Zero)
        /\ \/ op' = op
           \/ op' = [pc |-> "grow", page |-> p] /\ Wrote(p, Zero)
    BY <1>2 DEF Extend, NewPage
  <1>6. /\ file' \in [count : 1..MaxPage + 1, head : Marker, page : [Pages -> Contents]]
        /\ file'.count = file.count /\ file'.head = file.head
        /\ \A q \in Pages \ {p} : file'.page[q] = file.page[q]
        /\ FreePages(file.head, file'.page) = FreePages(file.head, file.page)
        /\ DiskSound'
    BY <1>3, <1>4, <1>5, PageWrite
  <1>7. Wrote(p, Zero) => file'.page[p] = Zero
    BY <1>3 DEF Wrote, TypeOK
  <1>8. TypeOK'
    BY <1>1, <1>3, <1>5, <1>6 DEF TypeOK, Steps, Pages, Marker
  <1>9. OpOK'
    BY <1>1, <1>2, <1>3, <1>5, <1>7 DEF OpOK, Idle, Ready
  <1>10. OwnedNotFree' /\ OwnedContent'
    BY <1>1, <1>3, <1>6 DEF OwnedNotFree, OwnedContent, TypeOK
  <1>11. MemoryMatchesFile'
    BY <1>1, <1>2, <1>6 DEF MemoryMatchesFile
  <1> QED
    BY <1>6, <1>8, <1>9, <1>10, <1>11

(* The second write counts a page that is in the file already. *)
LEMMA GrowStep ==
    ASSUME IInv, Grow
    PROVE  IInv'
  <1> USE DEF IInv
  <1> DEFINE p == op.page
  <1>1. op.pc = "grow" /\ op' = Idle
    BY DEF Grow
  <1>2. /\ mem.open /\ ~mem.poisoned /\ p \in Pages
        /\ p = mem.count /\ file.page[p] = Zero
        /\ mem.count = file.count /\ mem.head = file.head
    BY <1>1 DEF OpOK, MemoryMatchesFile
  <1> DEFINE n == mem.count + 1
  <1>3. n \in 1..MaxPage + 1 /\ mem.head \in Marker
    BY <1>2, PageFileAssumption DEF Pages, TypeOK
  <1>4. WroteHeader(n, mem.head) \/ HeaderFails(n, mem.head)
    BY DEF Grow
  <1>5. /\ file' \in [count : 1..MaxPage + 1, head : Marker, page : [Pages -> Contents]]
        /\ file'.page = file.page /\ file'.head = file.head
        /\ file'.count = p \/ file'.count = p + 1
        /\ WroteHeader(n, mem.head) => file'.count = p + 1
    <2> HIDE DEF n
    <2>1. /\ file' \in [count : 1..MaxPage + 1, head : Marker, page : [Pages -> Contents]]
          /\ file'.page = file.page
          /\ \/ file'.count = file.count /\ file'.head = file.head
             \/ file'.count = n /\ file'.head = mem.head
          /\ WroteHeader(n, mem.head) => file'.count = n /\ file'.head = mem.head
      BY <1>3, <1>4, HeaderWrite
    <2> QED
      BY <2>1, <1>2 DEF n
  <1>6. p \notin FreePages(file.head, file.page) /\ p \notin owned
    BY <1>2 DEF DiskSound, ListValid, Pages, OwnedNotFree
  <1>7. DiskSound'
    <2>1. \A q \in FreePages(file.head, file.page) : q \in Pages /\ q < p
      BY <1>2, FreeClosed DEF DiskSound, ListValid
    <2>2. ListValid(file.head, file'.count, file.page)
      BY <1>2, <1>5, <2>1 DEF DiskSound, ListValid, Pages
    <2>3. \A q \in Pages : q < file'.count => file.page[q] \notin {Absent, Partial}
      BY <1>2, <1>5, PageFileAssumption DEF DiskSound, Pages
    <2> QED
      BY <1>5, <2>2, <2>3 DEF DiskSound
  <1>8. OpOK'
    BY <1>1 DEF OpOK, Idle
  <1>9. \A q \in owned : q < file'.count
    BY <1>2, <1>5 DEF OwnedNotFree, TypeOK, Pages
  <1>10. CASE /\ WroteHeader(n, mem.head)
              /\ mem' = [mem EXCEPT !.count = n]
              /\ HandOut(p)
    <2>1. TypeOK'
      BY <1>10, <1>1, <1>2, <1>3, <1>5, PageFileAssumption
      DEF TypeOK, HandOut, Idle, Steps, Marker
    <2>2. OwnedNotFree'
      BY <1>10, <1>2, <1>5, <1>6, <1>9 DEF OwnedNotFree, HandOut, Pages
    <2>3. OwnedContent'
      BY <1>10, <1>2, <1>5 DEF OwnedContent, HandOut, TypeOK
    <2>4. MemoryMatchesFile'
      BY <1>10, <1>2, <1>5 DEF MemoryMatchesFile, TypeOK
    <2> QED
      BY <2>1, <2>2, <2>3, <2>4, <1>7, <1>8
  <1>11. CASE mem' = Poisoned /\ UNCHANGED <<owned, last>>
    <2>1. TypeOK'
      BY <1>11, <1>1, <1>5, MemTypes DEF TypeOK
    <2>2. OwnedNotFree' /\ OwnedContent'
      BY <1>11, <1>5, <1>9 DEF OwnedNotFree, OwnedContent
    <2>3. MemoryMatchesFile'
      BY <1>11 DEF MemoryMatchesFile, Poisoned, TypeOK
    <2> QED
      BY <2>1, <2>2, <2>3, <1>7, <1>8
  <1> QED
    BY <1>10, <1>11 DEF Grow

(* The first write of free_page marks a page outside the list. *)
LEMMA FreeStep ==
    ASSUME IInv, NEW p \in Pages, free_page(p)
    PROVE  IInv'
  <1> USE DEF IInv
  <1>1. /\ Ready /\ Allocated(p) /\ UNCHANGED mem
        /\ owned' = owned \ {p} /\ last' = [last EXCEPT ![p] = Unknown]
    BY DEF free_page
  <1>2. /\ mem.count = file.count /\ mem.head = file.head /\ op = Idle
        /\ p < file.count /\ p \notin FreePages(file.head, file.page)
    BY <1>1, ReadyFacts
  <1>3. /\ Wrote(p, mem.head) \/ WriteFails(p, mem.head)
        /\ \/ op' = op
           \/ op' = [pc |-> "link", page |-> p] /\ Wrote(p, mem.head)
    BY DEF free_page
  <1>4. /\ file' \in [count : 1..MaxPage + 1, head : Marker, page : [Pages -> Contents]]
        /\ file'.count = file.count /\ file'.head = file.head
        /\ \A q \in Pages \ {p} : file'.page[q] = file.page[q]
        /\ FreePages(file.head, file'.page) = FreePages(file.head, file.page)
        /\ DiskSound'
    <2>1. mem.head \in Values \cup Marker \cup {Zero}
      BY DEF TypeOK
    <2> QED
      BY <1>2, <1>3, <2>1, PageWrite
  <1>5. Wrote(p, mem.head) => file'.page[p] = mem.head
    BY DEF Wrote, TypeOK
  <1>6. TypeOK'
    BY <1>1, <1>3, <1>4 DEF TypeOK, Steps, Pages, Marker
  <1>7. OpOK'
    BY <1>1, <1>2, <1>3, <1>4, <1>5 DEF OpOK, Idle, Ready
  <1>8. OwnedNotFree' /\ OwnedContent'
    BY <1>1, <1>4 DEF OwnedNotFree, OwnedContent, TypeOK
  <1>9. MemoryMatchesFile'
    BY <1>1, <1>2, <1>4 DEF MemoryMatchesFile
  <1> QED
    BY <1>4, <1>6, <1>7, <1>8, <1>9

(* The second write puts the marked page before the head. *)
LEMMA LinkStep ==
    ASSUME IInv, Link
    PROVE  IInv'
  <1> USE DEF IInv
  <1> DEFINE p == op.page
  <1>1. op.pc = "link" /\ op' = Idle /\ UNCHANGED <<owned, last>>
    BY DEF Link
  <1>2. /\ mem.open /\ ~mem.poisoned /\ p \in Pages /\ p < file.count
        /\ p \notin FreePages(file.head, file.page) /\ p \notin owned
        /\ file.page[p] = mem.head
        /\ mem.count = file.count /\ mem.head = file.head
    BY <1>1 DEF OpOK, MemoryMatchesFile
  <1>3. /\ WroteHeader(mem.count, p) \/ HeaderFails(mem.count, p)
        /\ mem.count \in 1..MaxPage + 1 /\ p \in Marker
    BY <1>2 DEF Link, TypeOK, Pages, Marker
  <1>4. /\ file' \in [count : 1..MaxPage + 1, head : Marker, page : [Pages -> Contents]]
        /\ file'.page = file.page /\ file'.count = file.count
        /\ file'.head = file.head \/ file'.head = p
        /\ WroteHeader(mem.count, p) => file'.head = p
    BY <1>2, <1>3, HeaderWrite
  <1>5. /\ FreePages(p, file.page) = FreePages(file.head, file.page) \cup {p}
        /\ ListValid(p, file.count, file.page)
    BY <1>2, FreePut, ValidPut DEF DiskSound, TypeOK
  <1>6. DiskSound'
    BY <1>4, <1>5 DEF DiskSound
  <1>7. OwnedNotFree' /\ OwnedContent'
    BY <1>1, <1>2, <1>4, <1>5 DEF OwnedNotFree, OwnedContent
  <1>8. OpOK'
    BY <1>1 DEF OpOK, Idle
  <1>9. CASE WroteHeader(mem.count, p) /\ mem' = [mem EXCEPT !.head = p]
    BY <1>9, <1>1, <1>2, <1>3, <1>4, <1>6, <1>7, <1>8, PageFileAssumption
    DEF TypeOK, MemoryMatchesFile, Idle, Steps, Marker
  <1>10. CASE mem' = Poisoned
    BY <1>10, <1>1, <1>4, <1>6, <1>7, <1>8, MemTypes DEF TypeOK, MemoryMatchesFile
  <1> QED
    BY <1>9, <1>10 DEF Link

(* mark_poisoned, close, Crash and open leave the file alone. *)
LEMMA LifecycleStep ==
    ASSUME IInv, mark_poisoned \/ close \/ Crash \/ open
    PROVE  IInv'
  <1> USE DEF IInv
  <1>1. UNCHANGED <<file, owned, last>>
    BY DEF mark_poisoned, close, Crash, open
  <1>2. DiskSound' /\ OwnedNotFree' /\ OwnedContent'
    BY <1>1 DEF DiskSound, OwnedNotFree, OwnedContent
  <1>3. CASE mark_poisoned
    BY <1>1, <1>2, <1>3, MemTypes
    DEF mark_poisoned, TypeOK, OpOK, MemoryMatchesFile, Idle
  <1>4. CASE close
    <2> PICK open_ \in BOOLEAN : mem' = [mem EXCEPT !.open = open_, !.stream = FALSE]
      BY <1>4 DEF close
    <2>1. op' = op /\ op.pc = "idle" /\ mem.open
      BY <1>4 DEF close
    <2>2. TypeOK'
      BY <1>1, <2>1 DEF TypeOK
    <2>3. OpOK'
      BY <2>1 DEF OpOK, Idle
    <2>4. MemoryMatchesFile'
      BY <1>1, <2>1 DEF MemoryMatchesFile, TypeOK
    <2> QED
      BY <1>2, <2>2, <2>3, <2>4
  <1>5. CASE Crash
    <2>1. op' = Idle /\ mem' = [mem EXCEPT !.open = FALSE, !.stream = FALSE]
      BY <1>5 DEF Crash
    <2>2. TypeOK'
      BY <1>1, <2>1, MemTypes DEF TypeOK
    <2>3. OpOK' /\ MemoryMatchesFile'
      BY <2>1 DEF OpOK, MemoryMatchesFile, Idle, TypeOK
    <2> QED
      BY <1>2, <2>2, <2>3
  <1>6. CASE open
    <2>1. /\ op' = op /\ ~mem.open
          /\ mem' = [open |-> TRUE, stream |-> TRUE, poisoned |-> FALSE,
                     count |-> file.count, head |-> file.head]
      BY <1>6 DEF open
    <2>2. TypeOK'
      BY <1>1, <2>1 DEF TypeOK
    <2>3. OpOK' /\ MemoryMatchesFile'
      BY <1>1, <2>1 DEF OpOK, MemoryMatchesFile, Idle
    <2> QED
      BY <1>2, <2>2, <2>3
  <1> QED
    BY <1>3, <1>4, <1>5, <1>6

-----------------------------------------------------------------------------

(* IInv holds in every reachable state of PageFile, for every number of    *)
(* pages and whichever writes fail.                                        *)
THEOREM Invariance == Spec => []IInv
  <1>1. ASSUME IInv, [Next]_vars PROVE IInv'
    <2> USE <1>1
    <2>1. CASE UNCHANGED vars
      BY <2>1 DEF vars, IInv, TypeOK, OpOK, DiskSound, OwnedNotFree, OwnedContent,
                  MemoryMatchesFile, Idle
    <2>2. ASSUME NEW p \in Pages, NEW v \in Values, write_page(p, v) PROVE IInv'
      BY <2>2, WriteStep
    <2>3. ASSUME NEW p \in Pages, free_page(p) PROVE IInv'
      BY <2>3, FreeStep
    <2> QED
      BY <2>1, <2>2, <2>3, TakeFreeStep, ClearStep, ExtendStep, GrowStep, LinkStep,
         LifecycleStep DEF Next
  <1> QED
    BY <1>1, InitIInv, PTL DEF Spec

(* Every variable of PageFile keeps its type; page_count stays within the  *)
(* range of PageId.                                                        *)
THEOREM TypeCorrect == Spec => []TypeOK
  BY Invariance, PTL DEF IInv

(* Wherever the process dies, open finds a valid free list in the file and *)
(* all the pages that the header counts.                                   *)
THEOREM FileAlwaysSound == Spec => []DiskSound
  BY Invariance, PTL DEF IInv

(* A page that allocate_page returned is not free before its owner frees   *)
(* it, so it is not handed out twice.                                      *)
THEOREM OwnedNeverFree == Spec => []OwnedNotFree
  BY Invariance, PTL DEF IInv

(* An owned page holds what write_page or allocate_page last put there.    *)
THEOREM OwnedKeepsContent == Spec => []OwnedContent
  BY Invariance, PTL DEF IInv

(* Unless poisoned, page_count_ and free_page_head_ are the file's.        *)
THEOREM MemoryAlwaysMatches == Spec => []MemoryMatchesFile
  BY Invariance, PTL DEF IInv
=============================================================================
