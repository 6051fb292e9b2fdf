---------------------------- MODULE SessionProofs ----------------------------
(***************************************************************************)
(* The Database handle and the two programs that work with one: for any    *)
(* number of objects the process-wide slot has one owner; on the command   *)
(* line every statement of a script gets the result it deserves; in the    *)
(* GUI the window and its worker agree.                                    *)
(***************************************************************************)
EXTENDS Cli, GuiSession, SequenceTheorems, FiniteSetTheorems, TLAPS

Impl ==
    [alive : BOOLEAN, open : BOOLEAN, forced : BOOLEAN, retry : BOOLEAN, catalog : SUBSET Tables]

Disk == [open : BOOLEAN, tables : SUBSET Tables]

Labels == {"idle", "script"} \cup Calls

TypeOK ==
    /\ slot \in BOOLEAN
    /\ db \in [Handles -> Impl]
    /\ pc \in [Handles -> Labels]
    /\ storage \in Disk
    /\ abandoned \in BOOLEAN

OpeningAt == {"open_storage", "list_tables", "abort_open"}

(* Owns, of an object in state d whose call is at p. *)
Holds(d, p) == d.open \/ d.retry \/ p \in OpeningAt

(* What a call at p knows of its object d and of storage s: an object that *)
(* is being opened is neither open nor in need of a retry, the others were *)
(* when the call began; an open database has the catalog of storage.  A    *)
(* storage layer that is open before open_storage was given up (a).        *)
Fits(d, p, s, a) ==
    /\ d.open => ~d.retry
    /\ d.open \/ d.retry => d.alive
    /\ p \in OpeningAt => ~d.open /\ ~d.retry
    /\ p \in {"close", "abort"} => d.open
    /\ p = "retry" => d.retry
    /\ p = "destroy" => d.open \/ d.retry
    /\ p = "list_tables" => s.open
    /\ p = "open_storage" /\ s.open => a
    /\ d.open /\ p # "abort" => s.open /\ d.catalog = s.tables

CallsConsistent == \A h \in Handles : Fits(db[h], pc[h], storage, abandoned)

OneOwner == \A h, g \in Handles : Owns(h) /\ Owns(g) => h = g

SlotTaken == slot <=> \E h \in Handles : Owns(h)

StorageHeld == storage.open => slot \/ abandoned

IInv == TypeOK /\ CallsConsistent /\ OneOwner /\ SlotTaken /\ StorageHeld

(* At the start nothing is open and no object has a call under way. *)
LEMMA InitIInv == Init => IInv
<1> SUFFICES ASSUME Init PROVE IInv OBVIOUS
<1>1. TypeOK
  BY DEF Init, TypeOK, Cleared, Impl, Disk, Labels, Calls
<1>2. \A h \in Handles : ~Owns(h) /\ ~db[h].open /\ ~db[h].retry /\ pc[h] = "idle"
  BY DEF Init, Owns, Cleared
<1> QED
  BY <1>1, <1>2 DEF Init, IInv, CallsConsistent, Fits, OneOwner, SlotTaken, StorageHeld, OpeningAt

(* The invariant gives the two properties. *)
LEMMA IInvImplies == IInv => SlotOwned /\ CatalogMatchesStorage
BY DEF IInv, SlotOwned, CatalogMatchesStorage, CallsConsistent, Fits, OneOwner, SlotTaken,
       StorageHeld

(* What close_storage may do: only an open storage layer stays open, and   *)
(* its tables stay.                                                        *)
LEMMA CloseStorageEffect ==
    ASSUME storage \in Disk, NEW result \in Results, CloseStorage(result)
    PROVE  /\ storage' \in Disk
           /\ storage'.open => storage.open
BY DEF Disk, CloseStorage, Results

(* After a clean answer storage is closed, or it is known to be given up.  *)
LEMMA CloseOwnedEffect ==
    ASSUME storage \in Disk, abandoned \in BOOLEAN, NEW result \in Results, CloseOwned(result)
    PROVE  /\ storage' \in Disk /\ (storage'.open => storage.open)
           /\ Clean(result) \in BOOLEAN /\ abandoned' \in BOOLEAN
           /\ abandoned => abandoned'
           /\ Clean(result) /\ storage'.open => abandoned'
<1>1. /\ storage' \in Disk /\ (storage'.open => storage.open) /\ storage'.open \in BOOLEAN
  BY CloseStorageEffect DEF CloseOwned, Disk
<1>2. abandoned' = (abandoned \/ (Clean(result) /\ storage'.open)) /\ Clean(result) \in BOOLEAN
  BY DEF CloseOwned, Clean
<1> QED
  BY <1>1, <1>2, Zenon

(* The states an object is left in. *)
LEMMA ImplTypes ==
    /\ Cleared \in Impl /\ MovedFrom \in Impl
    /\ \A b \in BOOLEAN : Pending(b) \in Impl
    /\ Cleared.alive /\ ~Cleared.open /\ ~Cleared.retry /\ ~MovedFrom.open /\ ~MovedFrom.retry
    /\ \A b \in BOOLEAN : Pending(b).alive /\ ~Pending(b).open /\ Pending(b).retry = b
BY DEF Impl, Cleared, MovedFrom, Pending

(* A step of one object h, which becomes d with its call at p, keeps the   *)
(* invariant if it takes the slot only when it is free, gives up only its  *)
(* own, and touches storage only as the owner.                             *)
LEMMA OneObjectStep ==
    ASSUME IInv, NEW h \in Handles, NEW d \in Impl, NEW p \in Labels,
           db' = [db EXCEPT ![h] = d], pc' = [pc EXCEPT ![h] = p],
           slot' \in BOOLEAN, storage' \in Disk, abandoned' \in BOOLEAN,
           Fits(d, p, storage', abandoned'),
           Holds(d, p) => slot' /\ (Owns(h) \/ ~slot),
           ~Holds(d, p) => IF Owns(h) THEN ~slot' ELSE slot' = slot,
           storage' = storage \/ Owns(h), abandoned => abandoned',
           storage'.open => slot' \/ abandoned'
    PROVE  IInv'
<1>1. TypeOK'
  BY DEF IInv, TypeOK
<1>2. \A g \in Handles : Owns(g) <=> Holds(db[g], pc[g])
  BY DEF Owns, Holds, OpeningAt
<1>3. \A g \in Handles : Owns(g)' <=> Holds(db'[g], pc'[g])
  BY DEF Owns, Holds, OpeningAt
<1>4. db'[h] = d /\ pc'[h] = p
  BY DEF IInv, TypeOK
<1>5. \A g \in Handles \ {h} : db'[g] = db[g] /\ pc'[g] = pc[g]
  BY DEF IInv, TypeOK
<1>6. \A g \in Handles \ {h} : Owns(g)' <=> Owns(g)
  BY <1>2, <1>3, <1>5
<1>7. Owns(h)' <=> Holds(d, p)
  BY <1>3, <1>4
<1>8. CallsConsistent'
  <2> SUFFICES ASSUME NEW g \in Handles PROVE Fits(db'[g], pc'[g], storage', abandoned')
    BY DEF CallsConsistent
  <2>1. CASE g = h
    BY <2>1, <1>4
  <2>2. CASE g # h /\ storage' = storage
    BY <2>2, <1>5 DEF IInv, CallsConsistent, Fits, TypeOK
  <2>3. CASE g # h /\ Owns(h)
    <3>1. ~Owns(g)
      BY <2>3 DEF IInv, OneOwner
    <3>2. ~db[g].open /\ ~db[g].retry /\ pc[g] \notin OpeningAt
      BY <3>1, <1>2 DEF Holds
    <3>3. Fits(db[g], pc[g], storage, abandoned)
      BY DEF IInv, CallsConsistent
    <3> QED
      BY <2>3, <3>2, <3>3, <1>5 DEF Fits, OpeningAt
  <2> QED
    BY <2>1, <2>2, <2>3
<1>9. OneOwner'
  <2>1. CASE Holds(d, p)
    <3>1. \A g \in Handles \ {h} : ~Owns(g)
      BY <2>1 DEF IInv, OneOwner, SlotTaken
    <3> QED
      BY <3>1, <1>6, <1>7 DEF OneOwner
  <2>2. CASE ~Holds(d, p)
    BY <2>2, <1>6, <1>7 DEF IInv, OneOwner
  <2> QED
    BY <2>1, <2>2
<1>10. SlotTaken'
  <2>1. CASE Holds(d, p)
    BY <2>1, <1>7 DEF SlotTaken
  <2>2. CASE ~Holds(d, p) /\ Owns(h)
    BY <2>2, <1>6, <1>7 DEF IInv, SlotTaken, OneOwner
  <2>3. CASE ~Holds(d, p) /\ ~Owns(h)
    BY <2>3, <1>6, <1>7 DEF IInv, SlotTaken
  <2> QED
    BY <2>1, <2>2, <2>3
<1>11. StorageHeld'
  BY DEF StorageHeld
<1> QED
  BY <1>1, <1>8, <1>9, <1>10, <1>11 DEF IInv

(* What the invariant says of one object and of the slot. *)
LEMMA ObjectFacts ==
    ASSUME IInv, NEW h \in Handles
    PROVE  /\ db[h] \in Impl /\ pc[h] \in Labels /\ storage \in Disk
           /\ slot \in BOOLEAN /\ abandoned \in BOOLEAN
           /\ Fits(db[h], pc[h], storage, abandoned)
           /\ Owns(h) <=> Holds(db[h], pc[h])
           /\ Owns(h) => slot
           /\ storage.open => slot \/ abandoned
           /\ db = [db EXCEPT ![h] = db[h]] /\ pc = [pc EXCEPT ![h] = pc[h]]
BY DEF IInv, TypeOK, CallsConsistent, SlotTaken, StorageHeld, Owns, Holds, OpeningAt

(* open takes the slot before storage is called. *)
LEMMA OpenKeeps == ASSUME IInv, NEW h \in Handles, open(h) PROVE IInv'
<1>1. db' = [db EXCEPT ![h] = db[h]] /\ pc' = [pc EXCEPT ![h] = "open_storage"]
  BY ObjectFacts DEF open
<1>2. Fits(db[h], "open_storage", storage', abandoned') /\ Holds(db[h], "open_storage")
  BY ObjectFacts DEF open, Fits, Holds, OpeningAt, Idle
<1> QED
  BY <1>1, <1>2, ObjectFacts, OneObjectStep, ZenonT(40) DEF open, Labels, Calls

(* A refused open_storage gives the slot back; after an exception the      *)
(* object still answers for it.                                            *)
LEMMA OpenStorageKeeps == ASSUME IInv, NEW h \in Handles, OpenStorage(h) PROVE IInv'
<1>0. pc[h] = "open_storage" /\ ~db[h].open /\ ~db[h].retry /\ Owns(h) /\ slot
  BY ObjectFacts DEF OpenStorage, Fits, Holds, OpeningAt
<1>1. abandoned' = abandoned
  BY DEF OpenStorage
<1>2. CASE /\ storage' = [storage EXCEPT !.open = TRUE]
           /\ pc' = [pc EXCEPT ![h] = "list_tables"]
           /\ UNCHANGED <<slot, db>>
  <2>1. storage' \in Disk /\ storage'.open
    BY <1>2, ObjectFacts DEF Disk
  <2>2. Fits(db[h], "list_tables", storage', abandoned') /\ Holds(db[h], "list_tables")
    BY <1>0, ObjectFacts, <2>1 DEF Fits, Holds, OpeningAt
  <2> QED
    BY <1>0, <1>1, <1>2, <2>1, <2>2, ObjectFacts, OneObjectStep DEF Labels, Calls
<1>3. CASE /\ slot' = FALSE
           /\ db' = [db EXCEPT ![h] = Cleared]
           /\ pc' = [pc EXCEPT ![h] = "idle"]
           /\ UNCHANGED storage
  <2>2. Fits(Cleared, "idle", storage', abandoned') /\ ~Holds(Cleared, "idle")
    BY ImplTypes DEF Fits, Holds, OpeningAt
  <2>3. storage.open => abandoned
    BY <1>0, ObjectFacts DEF Fits
  <2> QED
    BY <1>0, <1>1, <1>3, <2>2, <2>3, ObjectFacts, ImplTypes, OneObjectStep DEF Labels
<1>4. CASE /\ storage' \in {storage, [storage EXCEPT !.open = TRUE]}
           /\ pc' = [pc EXCEPT ![h] = "abort_open"]
           /\ UNCHANGED <<slot, db>>
  <2>1. storage' \in Disk
    BY <1>4, ObjectFacts DEF Disk
  <2>2. Fits(db[h], "abort_open", storage', abandoned') /\ Holds(db[h], "abort_open")
    BY <1>0, ObjectFacts, <2>1 DEF Fits, Holds, OpeningAt
  <2> QED
    BY <1>0, <1>1, <1>4, <2>1, <2>2, ObjectFacts, OneObjectStep DEF Labels, Calls
<1> QED
  BY <1>2, <1>3, <1>4 DEF OpenStorage

(* The catalog is loaded, or the open is aborted. *)
LEMMA ListTablesKeeps == ASSUME IInv, NEW h \in Handles, ListTables(h) PROVE IInv'
<1>0. /\ pc[h] = "list_tables" /\ ~db[h].open /\ ~db[h].retry /\ Owns(h) /\ slot
      /\ storage.open
  BY ObjectFacts DEF ListTables, Fits, Holds, OpeningAt
<1>1. slot' = slot /\ storage' = storage /\ abandoned' = abandoned
  BY DEF ListTables
<1>2. CASE /\ db' = [db EXCEPT ![h] = [Cleared EXCEPT !.open = TRUE, !.catalog = storage.tables]]
           /\ pc' = [pc EXCEPT ![h] = "idle"]
  <2> DEFINE d == [Cleared EXCEPT !.open = TRUE, !.catalog = storage.tables]
  <2>1. d \in Impl /\ d.alive /\ d.open /\ ~d.retry /\ d.catalog = storage.tables
    BY ObjectFacts DEF Cleared, Impl, Disk
  <2> HIDE DEF d
  <2>2. Fits(d, "idle", storage', abandoned') /\ Holds(d, "idle")
    BY <1>0, <1>1, <2>1 DEF Fits, Holds, OpeningAt
  <2>3. db' = [db EXCEPT ![h] = d]
    BY <1>2 DEF d
  <2> QED
    BY <1>0, <1>1, <1>2, <2>1, <2>2, <2>3, ObjectFacts, OneObjectStep DEF Labels
<1>3. CASE pc' = [pc EXCEPT ![h] = "abort_open"] /\ UNCHANGED db
  <2>1. Fits(db[h], "abort_open", storage', abandoned') /\ Holds(db[h], "abort_open")
    BY <1>0, ObjectFacts DEF Fits, Holds, OpeningAt
  <2> QED
    BY <1>0, <1>1, <1>3, <2>1, ObjectFacts, OneObjectStep DEF Labels, Calls
<1> QED
  BY <1>2, <1>3 DEF ListTables

(* An aborted open keeps the slot when its close has to be retried. *)
LEMMA AbortOpenKeeps == ASSUME IInv, NEW h \in Handles, AbortOpen(h) PROVE IInv'
<1>0. Owns(h)
  BY ObjectFacts DEF AbortOpen, Fits, Holds, OpeningAt
<1>1. PICK result \in Results :
         /\ CloseOwned(result)
         /\ db' = [db EXCEPT ![h] = IF Clean(result) THEN Cleared ELSE Pending(TRUE)]
         /\ slot' = ~Clean(result)
  BY DEF AbortOpen, SlotAfterAbortOpen
<1>2. pc' = [pc EXCEPT ![h] = "idle"]
  BY DEF AbortOpen
<1>3. /\ storage' \in Disk /\ Clean(result) \in BOOLEAN /\ abandoned' \in BOOLEAN
      /\ (abandoned => abandoned') /\ (Clean(result) /\ storage'.open => abandoned')
  BY <1>1, ObjectFacts, CloseOwnedEffect
<1> DEFINE d == IF Clean(result) THEN Cleared ELSE Pending(TRUE)
<1>4. d \in Impl /\ d.alive /\ ~d.open /\ (d.retry <=> ~Clean(result))
  BY <1>3, ImplTypes
<1>5. db' = [db EXCEPT ![h] = d]
  BY <1>1
<1> HIDE DEF d
<1>6. Fits(d, "idle", storage', abandoned') /\ (Holds(d, "idle") <=> ~Clean(result))
  BY <1>4 DEF Fits, Holds, OpeningAt
<1> QED
  BY <1>0, <1>1, <1>2, <1>3, <1>4, <1>5, <1>6, ObjectFacts, OneObjectStep DEF Labels

(* The slot goes with a clean close only. *)
LEMMA CloseOpenKeeps == ASSUME IInv, NEW h \in Handles, CloseOpen(h) PROVE IInv'
<1>0. Owns(h)
  BY ObjectFacts DEF CloseOpen, Fits, Holds, OpeningAt
<1>1. PICK result \in Results :
         /\ CloseOwned(result)
         /\ db' = [db EXCEPT ![h] = IF Clean(result) THEN Cleared ELSE Pending(TRUE)]
         /\ slot' = ~Clean(result)
  BY DEF CloseOpen
<1>2. pc' = [pc EXCEPT ![h] = "idle"]
  BY DEF CloseOpen
<1>3. /\ storage' \in Disk /\ Clean(result) \in BOOLEAN /\ abandoned' \in BOOLEAN
      /\ (abandoned => abandoned') /\ (Clean(result) /\ storage'.open => abandoned')
  BY <1>1, ObjectFacts, CloseOwnedEffect
<1> DEFINE d == IF Clean(result) THEN Cleared ELSE Pending(TRUE)
<1>4. d \in Impl /\ d.alive /\ ~d.open /\ (d.retry <=> ~Clean(result))
  BY <1>3, ImplTypes
<1>5. db' = [db EXCEPT ![h] = d]
  BY <1>1
<1> HIDE DEF d
<1>6. Fits(d, "idle", storage', abandoned') /\ (Holds(d, "idle") <=> ~Clean(result))
  BY <1>4 DEF Fits, Holds, OpeningAt
<1> QED
  BY <1>0, <1>1, <1>2, <1>3, <1>4, <1>5, <1>6, ObjectFacts, OneObjectStep DEF Labels

(* After an exception the object keeps the slot only for a retry. *)
LEMMA AbortScriptKeeps == ASSUME IInv, NEW h \in Handles, AbortScript(h) PROVE IInv'
<1>0. Owns(h)
  BY ObjectFacts DEF AbortScript, Fits, Holds, OpeningAt
<1>1. PICK result \in Results :
         /\ CloseOwned(result)
         /\ db' = [db EXCEPT ![h] = Pending(~Clean(result))]
         /\ slot' = ~Clean(result)
  BY DEF AbortScript
<1>2. pc' = [pc EXCEPT ![h] = "script"]
  BY DEF AbortScript
<1>3. /\ storage' \in Disk /\ Clean(result) \in BOOLEAN /\ abandoned' \in BOOLEAN
      /\ (abandoned => abandoned') /\ (Clean(result) /\ storage'.open => abandoned')
  BY <1>1, ObjectFacts, CloseOwnedEffect
<1> DEFINE d == Pending(~Clean(result))
<1>4. d \in Impl /\ d.alive /\ ~d.open /\ (d.retry <=> ~Clean(result))
  BY <1>3, ImplTypes
<1>5. db' = [db EXCEPT ![h] = d]
  BY <1>1
<1> HIDE DEF d
<1>6. Fits(d, "script", storage', abandoned') /\ (Holds(d, "script") <=> ~Clean(result))
  BY <1>4 DEF Fits, Holds, OpeningAt
<1> QED
  BY <1>0, <1>1, <1>2, <1>3, <1>4, <1>5, <1>6, ObjectFacts, OneObjectStep DEF Labels

(* close of an open, of a retrying or of an aborted object. *)
LEMMA CloseKeeps == ASSUME IInv, NEW h \in Handles, close(h) PROVE IInv'
<1>0. /\ pc[h] = "idle" /\ slot' = slot /\ storage' = storage /\ abandoned' = abandoned
      /\ (Owns(h) <=> db[h].open \/ db[h].retry)
  BY ObjectFacts DEF close, Idle, Holds, OpeningAt
<1>1. CASE db[h].open /\ pc' = [pc EXCEPT ![h] = "close"] /\ UNCHANGED db
  <2>1. Fits(db[h], "close", storage', abandoned') /\ Holds(db[h], "close")
    BY <1>0, <1>1, ObjectFacts DEF Fits, Holds, OpeningAt
  <2> QED
    BY <1>0, <1>1, <2>1, ObjectFacts, OneObjectStep DEF Labels, Calls
<1>2. CASE db[h].retry /\ pc' = [pc EXCEPT ![h] = "retry"] /\ UNCHANGED db
  <2>1. Fits(db[h], "retry", storage', abandoned') /\ Holds(db[h], "retry")
    BY <1>0, <1>2, ObjectFacts DEF Fits, Holds, OpeningAt
  <2> QED
    BY <1>0, <1>2, <2>1, ObjectFacts, OneObjectStep DEF Labels, Calls
<1>3. CASE /\ ~db[h].open /\ ~db[h].retry
           /\ db' = [db EXCEPT ![h].forced = FALSE] /\ UNCHANGED pc
  <2> DEFINE d == [db[h] EXCEPT !.forced = FALSE]
  <2>1. d \in Impl /\ ~d.open /\ ~d.retry
    BY <1>3, ObjectFacts DEF Impl
  <2>2. db' = [db EXCEPT ![h] = d]
    BY <1>3
  <2> HIDE DEF d
  <2>3. Fits(d, "idle", storage', abandoned') /\ ~Holds(d, "idle")
    BY <2>1 DEF Fits, Holds, OpeningAt
  <2> QED
    BY <1>0, <1>3, <2>1, <2>2, <2>3, ObjectFacts, OneObjectStep DEF Labels
<1> QED
  BY <1>1, <1>2, <1>3 DEF close

(* A retried close gives the slot back only when it was clean. *)
LEMMA RetryCloseKeeps == ASSUME IInv, NEW h \in Handles, RetryClose(h) PROVE IInv'
<1>0. Owns(h) /\ slot /\ db[h].retry /\ ~db[h].open
  BY ObjectFacts DEF RetryClose, Fits, Holds, OpeningAt
<1>1. PICK result \in Results :
         /\ CloseOwned(result)
         /\ IF Clean(result)
            THEN db' = [db EXCEPT ![h].retry = FALSE, ![h].forced = FALSE] /\ slot' = FALSE
            ELSE UNCHANGED <<db, slot>>
  BY DEF RetryClose
<1>2. pc' = [pc EXCEPT ![h] = "idle"]
  BY DEF RetryClose
<1>3. /\ storage' \in Disk /\ Clean(result) \in BOOLEAN /\ abandoned' \in BOOLEAN
      /\ (abandoned => abandoned') /\ (Clean(result) /\ storage'.open => abandoned')
  BY <1>1, ObjectFacts, CloseOwnedEffect
<1>4. CASE Clean(result)
  <2> DEFINE d == [db[h] EXCEPT !.retry = FALSE, !.forced = FALSE]
  <2>1. d \in Impl /\ ~d.open /\ ~d.retry
    BY <1>0, ObjectFacts DEF Impl
  <2>2. db' = [db EXCEPT ![h] = d] /\ slot' = FALSE
    BY <1>1, <1>4, ObjectFacts DEF IInv, TypeOK
  <2> HIDE DEF d
  <2>3. Fits(d, "idle", storage', abandoned') /\ ~Holds(d, "idle")
    BY <2>1 DEF Fits, Holds, OpeningAt
  <2> QED
    BY <1>0, <1>2, <1>3, <1>4, <2>1, <2>2, <2>3, ObjectFacts, OneObjectStep DEF Labels
<1>5. CASE ~Clean(result)
  <2>1. Fits(db[h], "idle", storage', abandoned') /\ Holds(db[h], "idle")
    BY <1>0, ObjectFacts DEF Fits, Holds, OpeningAt
  <2> QED
    BY <1>0, <1>1, <1>2, <1>3, <1>5, <2>1, ObjectFacts, OneObjectStep DEF Labels
<1> QED
  BY <1>4, <1>5

(* A destructor of an object that owns nothing changes nothing shared. *)
LEMMA DestroyKeeps == ASSUME IInv, NEW h \in Handles, destroy(h) PROVE IInv'
<1>0. /\ pc[h] = "idle" /\ slot' = slot /\ storage' = storage /\ abandoned' = abandoned
      /\ (Owns(h) <=> db[h].open \/ db[h].retry)
  BY ObjectFacts DEF destroy, Idle, Holds, OpeningAt
<1>1. CASE Owns(h) /\ pc' = [pc EXCEPT ![h] = "destroy"] /\ UNCHANGED db
  <2>1. Fits(db[h], "destroy", storage', abandoned') /\ Holds(db[h], "destroy")
    BY <1>0, <1>1, ObjectFacts DEF Fits, Holds, OpeningAt
  <2> QED
    BY <1>0, <1>1, <2>1, ObjectFacts, OneObjectStep DEF Labels, Calls
<1>2. CASE ~Owns(h) /\ db' = [db EXCEPT ![h] = MovedFrom] /\ UNCHANGED pc
  <2>1. Fits(MovedFrom, "idle", storage', abandoned') /\ ~Holds(MovedFrom, "idle")
    BY ImplTypes DEF Fits, Holds, OpeningAt
  <2> QED
    BY <1>0, <1>2, <2>1, ObjectFacts, ImplTypes, OneObjectStep DEF Labels
<1> QED
  BY <1>1, <1>2 DEF destroy

(* The destructor of the owner releases the slot and records what it left. *)
LEMMA DestroyOwnerKeeps == ASSUME IInv, NEW h \in Handles, DestroyOwner(h) PROVE IInv'
<1>0. Owns(h)
  BY ObjectFacts DEF DestroyOwner, Fits, Holds, OpeningAt
<1>1. /\ db' = [db EXCEPT ![h] = MovedFrom] /\ pc' = [pc EXCEPT ![h] = "idle"]
      /\ slot' = FALSE
  BY DEF DestroyOwner
<1>2. storage' \in Disk
  <2>1. PICK result \in Results : CloseStorage(result)
    BY DEF DestroyOwner
  <2> QED
    BY <2>1, ObjectFacts, CloseStorageEffect
<1>3. /\ abandoned' \in BOOLEAN /\ (storage'.open => abandoned')
      /\ (abandoned => abandoned')
  BY DEF DestroyOwner
<1>4. Fits(MovedFrom, "idle", storage', abandoned') /\ ~Holds(MovedFrom, "idle")
  BY ImplTypes DEF Fits, Holds, OpeningAt
<1> QED
  BY <1>0, <1>1, <1>2, <1>3, <1>4, ImplTypes, OneObjectStep DEF Labels

(* A new object owns nothing, and neither did the one that was there. *)
LEMMA ConstructKeeps == ASSUME IInv, NEW h \in Handles, construct(h) PROVE IInv'
<1>0. ~Owns(h)
  BY ObjectFacts DEF construct, Idle, Fits, Holds, OpeningAt
<1>1. /\ db' = [db EXCEPT ![h] = Cleared] /\ pc' = [pc EXCEPT ![h] = "idle"]
      /\ slot' = slot /\ storage' = storage /\ abandoned' = abandoned
  BY ObjectFacts DEF construct, Idle
<1>2. Fits(Cleared, "idle", storage', abandoned') /\ ~Holds(Cleared, "idle")
  BY ImplTypes DEF Fits, Holds, OpeningAt
<1> QED
  BY <1>0, <1>1, <1>2, ObjectFacts, ImplTypes, OneObjectStep DEF Labels

(* A script begins and ends without a change of what is shared. *)
LEMMA ScriptKeeps ==
    ASSUME IInv, NEW h \in Handles, BeginScript(h) \/ EndScript(h)
    PROVE  IInv'
<1>1. PICK p \in {"idle", "script"} :
         /\ pc' = [pc EXCEPT ![h] = p] /\ db' = [db EXCEPT ![h] = db[h]]
         /\ slot' = slot /\ storage' = storage /\ abandoned' = abandoned
  BY ObjectFacts DEF BeginScript, EndScript
<1>2. pc[h] \in {"idle", "script"}
  BY DEF BeginScript, EndScript, Idle
<1>3. Fits(db[h], p, storage', abandoned') /\ (Holds(db[h], p) <=> Owns(h))
  BY <1>1, <1>2, ObjectFacts DEF Fits, Holds, OpeningAt
<1> QED
  BY <1>1, <1>3, ObjectFacts, OneObjectStep DEF Labels

(* A table that was created is in storage and in the catalog. *)
LEMMA CreateTableKeeps ==
    ASSUME IInv, NEW h \in Handles, NEW t \in Tables, CreateTable(h, t)
    PROVE  IInv'
<1> DEFINE d == [db[h] EXCEPT !.catalog = @ \cup {t}]
<1>0. pc[h] = "script" /\ db[h].open /\ Owns(h)
  BY ObjectFacts DEF CreateTable, Holds
<1>1. /\ db' = [db EXCEPT ![h] = d] /\ pc' = [pc EXCEPT ![h] = "script"]
      /\ slot' = slot /\ abandoned' = abandoned
  BY <1>0, ObjectFacts DEF CreateTable, CatalogAfterCreate
<1>2. /\ storage' \in Disk /\ storage'.open = storage.open
      /\ storage'.tables = storage.tables \cup {t}
  BY ObjectFacts DEF CreateTable, Disk
<1>3. /\ d \in Impl /\ d.alive = db[h].alive /\ d.open = db[h].open /\ d.retry = db[h].retry
      /\ d.catalog = db[h].catalog \cup {t}
  BY ObjectFacts DEF Impl
<1> HIDE DEF d
<1>4. Fits(d, "script", storage', abandoned') /\ Holds(d, "script")
  BY <1>0, <1>2, <1>3, ObjectFacts DEF Fits, Holds, OpeningAt
<1> QED
  BY <1>0, <1>1, <1>2, <1>3, <1>4, ObjectFacts, OneObjectStep DEF Labels

(* After an exception the object is still the owner. *)
LEMMA StorageExceptionKeeps ==
    ASSUME IInv, NEW h \in Handles, NEW created \in SUBSET Tables, StorageException(h, created)
    PROVE  IInv'
<1>0. pc[h] = "script" /\ db[h].open /\ Owns(h) /\ slot
  BY ObjectFacts DEF StorageException, Holds
<1>1. /\ db' = [db EXCEPT ![h] = db[h]] /\ pc' = [pc EXCEPT ![h] = "abort"]
      /\ slot' = slot /\ abandoned' = abandoned
  BY ObjectFacts DEF StorageException
<1>2. storage' \in Disk
  BY ObjectFacts DEF StorageException, Disk
<1>3. Fits(db[h], "abort", storage', abandoned') /\ Holds(db[h], "abort")
  BY <1>0, ObjectFacts DEF Fits, Holds, OpeningAt
<1> QED
  BY <1>0, <1>1, <1>2, <1>3, ObjectFacts, OneObjectStep DEF Labels, Calls

(* A move assignment closes its own database first; if that is clean the   *)
(* other object's ownership moves, and otherwise nothing does.             *)
LEMMA MoveAssignKeeps ==
    ASSUME IInv, NEW h \in Handles, NEW g \in Handles, move_assign(h, g)
    PROVE  IInv'
<1>0. h # g /\ pc[h] = "idle" /\ pc[g] = "idle" /\ pc' = pc
  BY DEF move_assign, Idle
<1>1. PICK result \in Results :
         /\ IF Owns(h) THEN CloseOwned(result)
            ELSE result = "ok" /\ UNCHANGED <<storage, abandoned>>
         /\ IF Clean(result)
            THEN /\ db' = [db EXCEPT ![h] = db[g], ![g] = MovedFrom]
                 /\ slot' = (slot /\ ~Owns(h))
            ELSE /\ db' = [db EXCEPT ![h] = Pending(TRUE)]
                 /\ UNCHANGED slot
  BY DEF move_assign
<1>2. /\ storage' \in Disk /\ abandoned' \in BOOLEAN /\ (abandoned => abandoned')
      /\ (Owns(h) /\ Clean(result) /\ storage'.open => abandoned')
  BY <1>1, ObjectFacts, CloseOwnedEffect
<1>3. CASE ~Clean(result)
  <2>1. Owns(h) /\ slot
    BY <1>1, <1>3, ObjectFacts DEF Clean
  <2>2. Fits(Pending(TRUE), "idle", storage', abandoned') /\ Holds(Pending(TRUE), "idle")
    BY ImplTypes DEF Fits, Holds, OpeningAt
  <2>3. pc' = [pc EXCEPT ![h] = "idle"]
    BY <1>0, ObjectFacts
  <2> QED
    BY <1>0, <1>1, <1>2, <1>3, <2>1, <2>2, <2>3, ObjectFacts, ImplTypes, OneObjectStep DEF Labels
<1>4. CASE Clean(result)
  <2>1. db' = [db EXCEPT ![h] = db[g], ![g] = MovedFrom] /\ slot' = (slot /\ ~Owns(h))
    BY <1>1, <1>4
  <2>2. TypeOK'
    BY <1>0, <1>2, <2>1, ImplTypes, ObjectFacts DEF IInv, TypeOK
  <2>3. db'[h] = db[g] /\ db'[g] = MovedFrom /\ \A f \in Handles \ {h, g} : db'[f] = db[f]
    BY <1>0, <2>1 DEF IInv, TypeOK
  <2>4. (Owns(h)' <=> Owns(g)) /\ ~Owns(g)' /\ \A f \in Handles \ {h, g} : Owns(f)' <=> Owns(f)
    BY <1>0, <2>3, ImplTypes DEF Owns
  <2>5. CASE Owns(h)
    <3>1. \A f \in Handles : f # h => ~Owns(f)
      BY <2>5 DEF IInv, OneOwner
    <3>2. \A f \in Handles : ~Owns(f)'
      BY <2>4, <3>1, <1>0
    <3>3. ~slot' /\ (storage'.open => abandoned')
      BY <2>1, <2>5, <1>2, <1>4
    <3>4. CallsConsistent'
      <4> SUFFICES ASSUME NEW f \in Handles PROVE Fits(db'[f], pc'[f], storage', abandoned')
        BY DEF CallsConsistent
      <4>1. ~db'[f].open /\ ~db'[f].retry /\ pc'[f] \notin OpeningAt
        BY <3>2 DEF Owns, OpeningAt
      <4>2. pc'[f] \notin {"close", "abort", "retry", "destroy"}
        <5>1. CASE f \in {h, g}
          BY <5>1, <1>0
        <5>2. CASE f \notin {h, g}
          <6>1. Fits(db[f], pc[f], storage, abandoned) /\ db'[f] = db[f] /\ pc'[f] = pc[f]
            BY <5>2, <1>0, <2>3, ObjectFacts
          <6> QED
            BY <6>1, <4>1 DEF Fits
        <5> QED
          BY <5>1, <5>2
      <4> QED
        BY <4>1, <4>2 DEF Fits, OpeningAt
    <3> QED
      BY <2>2, <3>2, <3>3, <3>4 DEF IInv, OneOwner, SlotTaken, StorageHeld
  <2>6. CASE ~Owns(h)
    <3>1. storage' = storage /\ slot' = slot /\ abandoned' = abandoned
      BY <1>1, <2>1, <2>6, ObjectFacts
    <3>2. CallsConsistent'
      <4> SUFFICES ASSUME NEW f \in Handles PROVE Fits(db'[f], pc'[f], storage', abandoned')
        BY DEF CallsConsistent
      <4>1. CASE f = g
        BY <4>1, <1>0, <2>3, ImplTypes DEF Fits, OpeningAt
      <4>2. CASE f = h
        BY <4>2, <1>0, <2>3, <3>1, ObjectFacts
      <4>3. CASE f \notin {h, g}
        BY <4>3, <1>0, <2>3, <3>1, ObjectFacts
      <4> QED
        BY <4>1, <4>2, <4>3
    <3>3. OneOwner'
      BY <2>4, <2>6, <1>0 DEF IInv, OneOwner
    <3>4. SlotTaken'
      BY <2>4, <2>6, <3>1, <1>0 DEF IInv, SlotTaken
    <3>5. StorageHeld'
      BY <3>1, <1>0 DEF IInv, StorageHeld
    <3> QED
      BY <2>2, <3>2, <3>3, <3>4, <3>5 DEF IInv
  <2> QED
    BY <2>5, <2>6
<1> QED
  BY <1>3, <1>4

(* Every step of every object keeps the invariant. *)
LEMMA NextKeepsIInv == IInv /\ [Next]_lifecycle => IInv'
<1> SUFFICES ASSUME IInv, [Next]_lifecycle PROVE IInv' OBVIOUS
<1>1. CASE UNCHANGED lifecycle
  BY <1>1 DEF lifecycle, IInv, TypeOK, CallsConsistent, Fits, OneOwner, SlotTaken, StorageHeld, Owns
<1>2. CASE Next
  <2>1. PICK h \in Handles :
          \/ Lifecycle(h)
          \/ BeginScript(h) \/ EndScript(h) \/ AbortScript(h)
          \/ \E t \in Tables : CreateTable(h, t)
          \/ \E created \in {{}} \cup {{t} : t \in Tables} : StorageException(h, created)
    BY <1>2 DEF Next
  <2>2. CASE Lifecycle(h)
    BY <2>2, OpenKeeps, OpenStorageKeeps, ListTablesKeeps, AbortOpenKeeps, CloseKeeps,
       CloseOpenKeeps, RetryCloseKeeps, DestroyKeeps, DestroyOwnerKeeps, ConstructKeeps,
       MoveAssignKeeps DEF Lifecycle
  <2>3. CASE BeginScript(h) \/ EndScript(h) \/ AbortScript(h)
    BY <2>3, ScriptKeeps, AbortScriptKeeps
  <2>4. CASE \E t \in Tables : CreateTable(h, t)
    BY <2>4, CreateTableKeeps
  <2>5. CASE \E created \in {{}} \cup {{t} : t \in Tables} : StorageException(h, created)
    <3>1. \A created \in {{}} \cup {{t} : t \in Tables} : created \in SUBSET Tables
      OBVIOUS
    <3> QED
      BY <2>5, <3>1, StorageExceptionKeeps
  <2> QED
    BY <2>1, <2>2, <2>3, <2>4, <2>5
<1> QED
  BY <1>1, <1>2

(* The process-wide slot of database.cpp has exactly one owner while it is *)
(* taken, and storage is never open behind it, however open, close, their  *)
(* retries, moves, destructors and scripts of any number of objects        *)
(* interleave and whichever storage calls fail or throw.                   *)
THEOREM SlotHasOneOwner == Spec => []SlotOwned
<1>1. Spec => []IInv
  BY InitIInv, NextKeepsIInv, PTL DEF Spec
<1> QED
  BY <1>1, IInvImplies, PTL

(* Under the same conditions the catalog that an open database compiles    *)
(* against is the list of tables of the storage layer.                     *)
THEOREM CatalogIsCurrent == Spec => []CatalogMatchesStorage
<1>1. Spec => []IInv
  BY InitIInv, NextKeepsIInv, PTL DEF Spec
<1> QED
  BY <1>1, IInvImplies, PTL

-----------------------------------------------------------------------------
(* The command line. *)

Statements == [kind : Kinds, table : Tables]

Statuses ==
    {"executed", "compile_error", "execution_error", "indeterminate", "cancelled", "skipped",
     "analysis_only", "analysis_error", "plan_only"}

Outcomes == [status : Statuses, count : Nat]

(* In a storage call of a statement, or about to make one. *)
Executing ==
    {"create", "write", "open_table", "scan", "close_cursor", "close_cancelled", "close_failed",
     "close_broken"}

Scanning == {"scan", "close_cursor", "close_cancelled", "close_failed", "close_broken"}

Aborting == {"abort_internal", "abort_error", "abort_malformed"}

(* At a statement that has begun. *)
Begun == Executing \cup Aborting \cup {"close_late"}

Counts == UNION {[1..n -> Nat] : n \in Nat}

Runs ==
    [pc : {"none", "statement", "done"} \cup Begun, stmts : Seq(Statements),
     policy : [analyze : BOOLEAN, plan_only : BOOLEAN], allowed : BOOLEAN,
     shadow : SUBSET Tables, results : Seq(Outcomes), effects : Counts,
     error : BOOLEAN, called : BOOLEAN, left : Nat, hits : Nat]

-----------------------------------------------------------------------------
(* The inductive invariant: the results of a script *)

(* The results so far are truthful, nothing was done beyond the current    *)
(* statement, and a cancelled statement is followed by cancelled ones.     *)
Accounted(r) ==
    /\ r \in Runs
    /\ r.effects \in [1..Len(r.stmts) -> Nat]
    /\ Len(r.results) <= Len(r.stmts)
    /\ \A i \in 1..Len(r.results) : Truthful(r, i)
    /\ \A i \in 1..Len(r.stmts) : i > Index(r) => r.effects[i] = 0
    /\ \A i, j \in 1..Len(r.results) :
          i < j /\ r.results[i].status = "cancelled" => r.results[j].status = "cancelled"

(* The current statement has changed nothing yet. *)
Untouched(r) == Index(r) <= Len(r.stmts) => r.effects[Index(r)] = 0

Uncancelled(r) == \A i \in 1..Len(r.results) : r.results[i].status # "cancelled"

(* A statement is left out, or only analyzed, after an error only. *)
Blamed(r) ==
    \/ r.error \/ HadError(r)
    \/ /\ r.allowed
       /\ \A i \in 1..Len(r.results) : r.results[i].status \notin {"skipped", "analysis_only"}

(* Where a script is decides what its current statement can be. *)
Located(r) ==
    /\ r.pc \in Begun => Index(r) <= Len(r.stmts)
    /\ r.pc = "create" => Statement(r).kind = "create"
    /\ r.pc \in Scanning \cup {"open_table"} => Statement(r).kind \in {"delete", "update", "query"}
    /\ r.pc = "write" => Statement(r).kind \in {"insert", "delete", "update"}
    /\ r.pc \in Executing => r.allowed
    /\ r.pc = "done" => Len(r.results) = Len(r.stmts)
    /\ r.pc # "done" => Uncancelled(r)
    /\ r.pc # "abort_internal" => Untouched(r)
    /\ r.pc \in {"statement", "open_table"} => r.hits = 0

ScriptSound(r) == Accounted(r) /\ Blamed(r) /\ Located(r)

(* The object of a running script is open as long as statements execute. *)
RunFits(r, d, p) ==
    /\ p = IF r.pc \in Aborting THEN "abort" ELSE "script"
    /\ r.pc # "none"
    /\ r.pc \in Executing \/ (r.pc = "statement" /\ r.allowed) => d.open

(* Only the object of the command line runs scripts. *)
RunInv ==
    /\ run \in [Handles -> Runs]
    /\ ScriptSound(run[Session])
    /\ \A h \in Handles \ {Session} : run[h] = NoScript
    /\ IF cli.pc = "executing"
       THEN RunFits(run[Session], db[Session], pc[Session])
       ELSE run[Session] = NoScript /\ pc[Session] \notin {"script", "abort"}

CursorInv ==
    /\ cursor # {} => run[Session].pc \in Scanning \cup Aborting
    /\ leaked # {} => storage.open

(* A scan finds, and a delete removes, no more rows than the table has.    *)
RowsFit(r) ==
    r.pc \in Scanning \cup {"write"} /\ Statement(r).kind # "insert" =>
        r.left + r.hits <= rows[Statement(r).table]

RowsInv == rows \in [Tables -> 0..MaxRows] /\ RowsFit(run[Session])

-----------------------------------------------------------------------------
(* The inductive invariant: the command line *)

CliPcs ==
    {"start", "opening", "prompt", "call", "executing", "close", "closing", "discard", "exit",
     "killed"}

CliTypeOK ==
    /\ cli \in [pc : CliPcs, interactive : BOOLEAN, failed : BOOLEAN, whole : BOOLEAN,
                code : {0, 1, 9}]
    /\ active \in BOOLEAN /\ signalled \in BOOLEAN
    /\ cancel \in [Handles -> BOOLEAN]

(* A close that has returned without a pending one has closed, and what    *)
(* was closed stays closed.                                                *)
ExitInv ==
    /\ cli.whole \/ cli.failed
    /\ cli.pc = "closing" =>
          /\ pc[Session] \in {"close", "retry", "idle"}
          /\ pc[Session] # "close" => ~db[Session].open
          /\ db[Session].retry => db[Session].forced
    /\ cli.code = 0 =>
          /\ cli.pc \in {"discard", "exit"} /\ cli.whole
          /\ pc[Session] = "idle" /\ ~db[Session].open /\ ~db[Session].retry

TokenInv ==
    /\ active => cli.pc \in {"call", "executing"}
    /\ cli.pc \in {"call", "executing"} /\ cancel[Session] => signalled

CliInv == IInv /\ CliTypeOK /\ RunInv /\ CursorInv /\ RowsInv /\ ExitInv /\ TokenInv

-----------------------------------------------------------------------------
(* What the operators of Script make of a script *)

LEMMA ResultTypes ==
    ASSUME NEW status \in Statuses, NEW count \in Nat
    PROVE  /\ Result(status, count) \in Outcomes
           /\ Result(status, count).status = status /\ Result(status, count).count = count
BY DEF Result, Outcomes

LEMMA ConstantSeq ==
    ASSUME NEW S, NEW e \in S, NEW n \in Nat
    PROVE  /\ [i \in 1..n |-> e] \in Seq(S) /\ Len([i \in 1..n |-> e]) = n
<1> DEFINE s == [i \in 1..n |-> e]
<1>1. s \in Seq(S) /\ DOMAIN s = 1..n
  OBVIOUS
<1>2. Len(s) \in Nat /\ DOMAIN s = 1..Len(s)
  BY <1>1, LenProperties
<1> HIDE DEF s
<1>3. Len(s) = n
  BY <1>1, <1>2
<1> QED
  BY <1>1, <1>3 DEF s

(* One result for each statement left, after those that are there. *)
LEMMA FilledFields ==
    ASSUME NEW r \in Runs, NEW status \in Statuses, Len(r.results) <= Len(r.stmts)
    PROVE  /\ Filled(r, status) \in Runs /\ Filled(r, status).pc = "done"
           /\ Filled(r, status).stmts = r.stmts /\ Filled(r, status).effects = r.effects
           /\ Filled(r, status).allowed = r.allowed /\ Filled(r, status).error = r.error
           /\ Filled(r, status).policy = r.policy /\ Filled(r, status).shadow = r.shadow
           /\ Len(Filled(r, status).results) = Len(r.stmts)
           /\ \A i \in 1..Len(r.stmts) :
                 Filled(r, status).results[i] =
                     IF i <= Len(r.results) THEN r.results[i] ELSE Result(status, 0)
<1> DEFINE n == Len(r.stmts) - Len(r.results)
           t == [i \in 1..n |-> Result(status, 0)]
           c == r.results \o t
<1>1. r.results \in Seq(Outcomes) /\ r.stmts \in Seq(Statements)
  BY DEF Runs
<1>2. Len(r.results) \in Nat /\ Len(r.stmts) \in Nat /\ n \in Nat
  BY <1>1
<1>3. t \in Seq(Outcomes) /\ Len(t) = n
  BY <1>2, ConstantSeq, ResultTypes
<1>4. \A i \in 1..n : t[i] = Result(status, 0)
  OBVIOUS
<1> HIDE DEF t
<1>5. /\ c \in Seq(Outcomes) /\ Len(c) = Len(r.results) + Len(t)
      /\ \A i \in 1..Len(r.results) + Len(t) :
            c[i] = IF i <= Len(r.results) THEN r.results[i] ELSE t[i - Len(r.results)]
  BY <1>1, <1>3, ConcatProperties
<1>6. Len(c) = Len(r.stmts)
  BY <1>2, <1>3, <1>5
<1>7. \A i \in 1..Len(r.stmts) :
         c[i] = IF i <= Len(r.results) THEN r.results[i] ELSE Result(status, 0)
  BY <1>2, <1>3, <1>4, <1>5
<1> HIDE DEF c
<1>8. Filled(r, status) = [r EXCEPT !.pc = "done", !.results = c]
  BY DEF Filled, c, t
<1> QED
  BY <1>5, <1>6, <1>7, <1>8 DEF Runs

LEMMA PushedFields ==
    ASSUME NEW r \in Runs, NEW status \in Statuses, NEW count \in Nat
    PROVE  /\ Pushed(r, status, count) \in Runs /\ Pushed(r, status, count).pc = "statement"
           /\ Pushed(r, status, count).stmts = r.stmts /\ Pushed(r, status, count).effects = r.effects
           /\ Pushed(r, status, count).allowed = r.allowed /\ Pushed(r, status, count).error = r.error
           /\ Pushed(r, status, count).policy = r.policy /\ Pushed(r, status, count).shadow = r.shadow
           /\ Pushed(r, status, count).hits = 0
           /\ Len(Pushed(r, status, count).results) = Index(r) /\ Index(r) \in Nat
           /\ Len(r.results) \in Nat /\ Index(r) = Len(r.results) + 1
           /\ Pushed(r, status, count).results[Index(r)] = Result(status, count)
           /\ \A i \in 1..Len(r.results) : Pushed(r, status, count).results[i] = r.results[i]
<1> DEFINE c == Append(r.results, Result(status, count))
<1>1. r.results \in Seq(Outcomes) /\ Result(status, count) \in Outcomes
  BY ResultTypes DEF Runs
<1>2. /\ c \in Seq(Outcomes) /\ Len(c) = Len(r.results) + 1 /\ Len(r.results) \in Nat
      /\ \A i \in 1..Len(r.results) : c[i] = r.results[i]
      /\ c[Len(r.results) + 1] = Result(status, count)
  BY <1>1, AppendProperties
<1> HIDE DEF c
<1>3. Pushed(r, status, count) =
         [r EXCEPT !.results = c, !.pc = "statement", !.called = FALSE, !.left = 0, !.hits = 0]
  BY DEF Pushed, c
<1>4. Pushed(r, status, count) \in Runs
  <2>1. c \in Seq(Outcomes)
    BY <1>2
  <2>2. [r EXCEPT !.results = c, !.pc = "statement", !.called = FALSE, !.left = 0,
                  !.hits = 0] \in Runs
    BY <2>1 DEF Runs
  <2> QED
    BY <2>2, <1>3
<1>5. /\ Pushed(r, status, count).results = c /\ Pushed(r, status, count).pc = "statement"
      /\ Pushed(r, status, count).hits = 0
  BY <1>3 DEF Runs
<1>6. /\ Pushed(r, status, count).stmts = r.stmts /\ Pushed(r, status, count).effects = r.effects
      /\ Pushed(r, status, count).allowed = r.allowed /\ Pushed(r, status, count).error = r.error
      /\ Pushed(r, status, count).policy = r.policy /\ Pushed(r, status, count).shadow = r.shadow
  BY <1>3 DEF Runs
<1> QED
  BY <1>2, <1>4, <1>5, <1>6 DEF Index

LEMMA EffectFields ==
    ASSUME NEW r \in Runs, r.effects \in [1..Len(r.stmts) -> Nat], NEW n \in Nat,
           Index(r) \in 1..Len(r.stmts)
    PROVE  /\ Effect(r, n) \in Runs /\ Effect(r, n).pc = r.pc /\ Effect(r, n).stmts = r.stmts
           /\ Effect(r, n).results = r.results /\ Effect(r, n).allowed = r.allowed
           /\ Effect(r, n).error = r.error /\ Effect(r, n).policy = r.policy
           /\ Effect(r, n).shadow = r.shadow /\ Index(Effect(r, n)) = Index(r)
           /\ Effect(r, n).effects \in [1..Len(r.stmts) -> Nat]
           /\ Effect(r, n).effects[Index(r)] = r.effects[Index(r)] + n
           /\ \A i \in 1..Len(r.stmts) : i # Index(r) => Effect(r, n).effects[i] = r.effects[i]
<1> DEFINE e == [r.effects EXCEPT ![Index(r)] = @ + n]
<1>1. /\ e \in [1..Len(r.stmts) -> Nat] /\ e[Index(r)] = r.effects[Index(r)] + n
      /\ \A i \in 1..Len(r.stmts) : i # Index(r) => e[i] = r.effects[i]
  OBVIOUS
<1>2. e \in Counts
  BY <1>1 DEF Counts, Runs
<1> HIDE DEF e
<1>3. Effect(r, n) = [r EXCEPT !.effects = e]
  BY DEF Effect, e
<1> QED
  BY <1>1, <1>2, <1>3 DEF Runs, Index

-----------------------------------------------------------------------------
(* Results stay truthful *)

(* A result depends on its statement, its effect and the script's error.   *)
LEMMA TruthfulSame ==
    ASSUME NEW r, NEW q, NEW i, Truthful(r, i), q.results[i] = r.results[i],
           q.stmts = r.stmts, q.effects[i] = r.effects[i], q.error = r.error
    PROVE  Truthful(q, i)
BY DEF Truthful

LEMMA LengthTypes ==
    ASSUME NEW r \in Runs
    PROVE  /\ Len(r.results) \in Nat /\ Len(r.stmts) \in Nat /\ Index(r) = Len(r.results) + 1
           /\ DOMAIN r.results = 1..Len(r.results) /\ DOMAIN r.stmts = 1..Len(r.stmts)
           /\ \A i \in 1..Len(r.stmts) : r.stmts[i] \in Statements
           /\ \A i \in 1..Len(r.results) : r.results[i] \in Outcomes
<1>1. r.results \in Seq(Outcomes) /\ r.stmts \in Seq(Statements)
  BY DEF Runs
<1> QED
  BY <1>1, LenProperties DEF Index

(* The rest is skipped or cancelled: nothing was done for it. *)
LEMMA FilledSound ==
    ASSUME NEW r, Accounted(r), Uncancelled(r), Untouched(r), NEW status \in {"skipped", "cancelled"}
    PROVE  /\ Accounted(Filled(r, status)) /\ Located(Filled(r, status))
           /\ Blamed(r) /\ (status = "skipped" => r.error \/ HadError(r)) =>
                 Blamed(Filled(r, status))
<1> DEFINE q == Filled(r, status)
<1>0. r \in Runs /\ status \in Statuses /\ Len(r.results) <= Len(r.stmts)
  BY DEF Accounted, Statuses
<1>1. /\ q \in Runs /\ q.pc = "done" /\ q.stmts = r.stmts /\ q.effects = r.effects
      /\ q.allowed = r.allowed /\ q.error = r.error /\ Len(q.results) = Len(r.stmts)
      /\ \A i \in 1..Len(r.stmts) :
            q.results[i] = IF i <= Len(r.results) THEN r.results[i] ELSE Result(status, 0)
  BY <1>0, FilledFields
<1> HIDE DEF q
<1>2. /\ Len(r.results) \in Nat /\ Len(r.stmts) \in Nat
      /\ Index(r) = Len(r.results) + 1 /\ Index(q) = Len(r.stmts) + 1
      /\ DOMAIN q.results = 1..Len(r.stmts) /\ DOMAIN r.results = 1..Len(r.results)
  BY <1>0, <1>1, LengthTypes
<1>3. \A i \in 1..Len(r.stmts) : i > Len(r.results) =>
         q.results[i].status = status /\ q.effects[i] = 0
  <2> SUFFICES ASSUME NEW i \in 1..Len(r.stmts), i > Len(r.results)
               PROVE  q.results[i].status = status /\ q.effects[i] = 0
    OBVIOUS
  <2>1. q.results[i].status = status
    <3>1. q.results[i] = Result(status, 0)
      BY <1>1, <1>2
    <3> QED
      BY <1>0, <3>1, ResultTypes
  <2>2. r.effects[i] = 0
    <3>1. i = Index(r) \/ i > Index(r)
      BY <1>2
    <3> QED
      BY <1>2, <3>1 DEF Accounted, Untouched
  <2> QED
    BY <1>1, <2>1, <2>2
<1>4. Accounted(q)
  <2>1. ASSUME NEW i \in 1..Len(q.results) PROVE Truthful(q, i)
    <3>1. CASE i <= Len(r.results)
      BY <1>1, <1>2, <2>1, <3>1, TruthfulSame DEF Accounted
    <3>2. CASE i > Len(r.results)
      BY <1>1, <1>2, <1>3, <2>1, <3>2 DEF Truthful
    <3> QED
      BY <1>1, <1>2, <3>1, <3>2
  <2>2. ASSUME NEW i \in 1..Len(q.results), NEW j \in 1..Len(q.results), i < j,
               q.results[i].status = "cancelled"
        PROVE  q.results[j].status = "cancelled"
    <3>1. i > Len(r.results)
      BY <1>1, <1>2, <2>2 DEF Uncancelled
    <3> QED
      BY <1>1, <1>2, <1>3, <2>2, <3>1
  <2> QED
    BY <1>1, <1>2, <2>1, <2>2 DEF Accounted
<1>5. Located(q)
  BY <1>1, <1>2 DEF Located, Untouched, Begun, Executing, Scanning, Aborting
<1>6. ASSUME Blamed(r), status = "skipped" => r.error \/ HadError(r)
      PROVE  Blamed(q)
  <2>1. CASE r.error
    BY <1>1, <2>1 DEF Blamed
  <2>2. CASE HadError(r)
    <3>1. PICK i \in 1..Len(r.results) :
             r.results[i].status \in
                {"compile_error", "analysis_error", "execution_error", "indeterminate",
                 "cancelled"}
      BY <1>2, <2>2 DEF HadError
    <3>2. i \in 1..Len(r.stmts) /\ q.results[i] = r.results[i]
      BY <1>0, <1>1, <1>2
    <3> QED
      BY <1>2, <3>1, <3>2 DEF Blamed, HadError
  <2>3. CASE ~r.error /\ ~HadError(r)
    <3>1. status = "cancelled"
      BY <1>6, <2>3
    <3>2. CASE Len(r.results) < Len(r.stmts)
      BY <1>2, <1>3, <3>1, <3>2 DEF Blamed, HadError
    <3>3. CASE Len(r.results) = Len(r.stmts)
      BY <1>1, <1>2, <1>6, <2>3, <3>3 DEF Blamed
    <3> QED
      BY <1>0, <1>2, <3>2, <3>3
  <2> QED
    BY <2>1, <2>2, <2>3
<1> QED
  BY <1>4, <1>5, <1>6 DEF q

(* What else is in a script does not matter to its results; an error only  *)
(* excuses more.                                                           *)
LEMMA MovedSound ==
    ASSUME NEW r, Accounted(r), NEW q \in Runs, q.stmts = r.stmts, q.effects = r.effects,
           q.results = r.results, q.error = r.error \/ q.error
    PROVE  /\ Accounted(q) /\ Index(q) = Index(r)
           /\ Uncancelled(r) => Uncancelled(q)
           /\ Untouched(r) => Untouched(q)
           /\ HadError(q) <=> HadError(r)
           /\ Blamed(r) /\ (q.error = r.error) /\ (q.allowed = r.allowed) => Blamed(q)
<1>1. Index(q) = Index(r)
  BY DEF Index
<1>2. \A i \in 1..Len(r.results) : Truthful(r, i) => Truthful(q, i)
  BY DEF Truthful
<1>3. Accounted(q)
  BY <1>1, <1>2 DEF Accounted
<1>4. Uncancelled(r) => Uncancelled(q)
  BY DEF Uncancelled
<1>5. Untouched(r) => Untouched(q)
  BY <1>1 DEF Untouched
<1>6. HadError(q) <=> HadError(r)
  BY DEF HadError
<1>7. Blamed(r) /\ (q.error = r.error) /\ (q.allowed = r.allowed) => Blamed(q)
  BY <1>6 DEF Blamed
<1> QED
  BY <1>1, <1>3, <1>4, <1>5, <1>6, <1>7

(* One more result, which says what the current statement did. *)
LEMMA PushedSound ==
    ASSUME NEW r, Accounted(r), Uncancelled(r), Index(r) <= Len(r.stmts),
           NEW status \in Statuses \ {"cancelled"}, NEW count \in Nat,
           NEW q, q = Pushed(r, status, count), Truthful(q, Index(r))
    PROVE  /\ Accounted(q) /\ Uncancelled(q) /\ Untouched(q) /\ Located(q)
           /\ Blamed(r) /\ status \notin {"skipped", "analysis_only"} => Blamed(q)
           /\ HadError(r) \/ status \in {"compile_error", "execution_error", "indeterminate"} =>
                 HadError(q)
<1>0. r \in Runs /\ status \in Statuses
  BY DEF Accounted
<1>1. /\ q \in Runs /\ q.pc = "statement" /\ q.stmts = r.stmts /\ q.effects = r.effects
      /\ q.allowed = r.allowed /\ q.error = r.error /\ q.hits = 0
      /\ Len(q.results) = Index(r) /\ Len(r.results) \in Nat /\ Index(r) = Len(r.results) + 1
      /\ q.results[Index(r)] = Result(status, count)
      /\ \A i \in 1..Len(r.results) : q.results[i] = r.results[i]
  BY <1>0, PushedFields, ZenonT(40)
<1>2. /\ DOMAIN q.results = 1..Index(r) /\ DOMAIN r.results = 1..Len(r.results)
      /\ Len(r.stmts) \in Nat /\ Index(q) = Len(r.results) + 2
  BY <1>0, <1>1, LengthTypes
<1>3. q.results[Index(r)].status = status
  BY <1>0, <1>1, ResultTypes
<1>4. Uncancelled(q)
  <2> SUFFICES ASSUME NEW i \in 1..Len(q.results) PROVE q.results[i].status # "cancelled"
    BY DEF Uncancelled
  <2>1. i = Index(r) \/ i \in 1..Len(r.results)
    BY <1>1
  <2> QED
    BY <1>1, <1>3, <2>1 DEF Uncancelled
<1>5. Accounted(q)
  <2>1. ASSUME NEW i \in 1..Len(q.results) PROVE Truthful(q, i)
    <3>1. CASE i = Index(r)
      BY <3>1
    <3>2. CASE i \in 1..Len(r.results)
      <4>1. Truthful(r, i)
        BY <3>2 DEF Accounted
      <4> QED
        BY <1>1, <3>2, <4>1, TruthfulSame
    <3> QED
      BY <1>1, <3>1, <3>2
  <2>2. ASSUME NEW i \in 1..Len(q.stmts), i > Index(q) PROVE q.effects[i] = 0
    BY <1>1, <1>2, <2>2 DEF Accounted
  <2>3. q.effects \in [1..Len(q.stmts) -> Nat] /\ Len(q.results) <= Len(q.stmts)
    BY <1>1 DEF Accounted
  <2> QED
    BY <1>1, <1>4, <2>1, <2>2, <2>3 DEF Accounted, Uncancelled
<1>6. Untouched(q)
  <2>1. Index(q) \in Nat /\ Index(q) > Index(r) /\ Index(q) >= 1
    BY <1>1, <1>2
  <2>2. Index(q) <= Len(r.stmts) => r.effects[Index(q)] = 0
    BY <1>2, <2>1 DEF Accounted
  <2> QED
    BY <1>1, <2>2 DEF Untouched
<1>7. Located(q)
  BY <1>1, <1>4, <1>6 DEF Located, Begun, Executing, Scanning, Aborting
<1>8. HadError(r) \/ status \in {"compile_error", "execution_error", "indeterminate"} =>
         HadError(q)
  <2>1. ASSUME HadError(r) PROVE HadError(q)
    <3>1. PICK i \in 1..Len(r.results) :
             r.results[i].status \in
                {"compile_error", "analysis_error", "execution_error", "indeterminate",
                 "cancelled"}
      BY <1>2, <2>1 DEF HadError
    <3>2. i \in 1..Index(r) /\ q.results[i] = r.results[i]
      BY <1>1, <3>1
    <3> QED
      BY <1>2, <3>1, <3>2 DEF HadError
  <2>2. Index(r) \in 1..Index(r)
    BY <1>1
  <2> QED
    BY <1>2, <1>3, <2>1, <2>2 DEF HadError
<1>9. ASSUME Blamed(r), status \notin {"skipped", "analysis_only"} PROVE Blamed(q)
  <2>1. CASE r.error \/ HadError(r)
    BY <1>1, <1>8, <2>1 DEF Blamed
  <2>2. CASE ~(r.error \/ HadError(r))
    <3>1. /\ r.allowed
          /\ \A i \in 1..Len(r.results) :
                r.results[i].status \notin {"skipped", "analysis_only"}
      BY <1>9, <2>2 DEF Blamed
    <3>2. ASSUME NEW i \in 1..Len(q.results)
          PROVE  q.results[i].status \notin {"skipped", "analysis_only"}
      <4>1. i = Index(r) \/ i \in 1..Len(r.results)
        BY <1>1
      <4> QED
        BY <1>1, <1>3, <1>9, <3>1, <4>1
    <3> QED
      BY <1>1, <3>1, <3>2 DEF Blamed
  <2> QED
    BY <2>1, <2>2
<1> QED
  BY <1>4, <1>5, <1>6, <1>7, <1>8, <1>9

(* An error is reported, and closes execution. *)
LEMMA FailedSound ==
    ASSUME NEW r, Accounted(r), Uncancelled(r), Index(r) <= Len(r.stmts),
           NEW status \in {"compile_error", "execution_error"}, NEW count \in Nat,
           r.effects[Index(r)] = count, status = "compile_error" => count = 0
    PROVE  /\ ScriptSound(Failed(r, status, count)) /\ ~Failed(r, status, count).allowed
           /\ Failed(r, status, count).pc \in {"statement", "done"}
<1> DEFINE p == Pushed(r, status, count)
           q == [p EXCEPT !.allowed = FALSE]
<1>0. r \in Runs /\ status \in Statuses \ {"cancelled"}
  BY DEF Accounted, Statuses
<1>1. /\ p.results[Index(r)] = Result(status, count) /\ p.stmts = r.stmts
      /\ p.effects = r.effects /\ p \in Runs /\ p.pc = "statement" /\ p.policy = r.policy
      /\ p.hits = 0
  BY <1>0, PushedFields
<1>2. Truthful(p, Index(r))
  BY <1>0, <1>1, ResultTypes DEF Truthful
<1>3. Accounted(p) /\ Uncancelled(p) /\ Untouched(p) /\ HadError(p)
  BY <1>0, <1>2, PushedSound
<1> HIDE DEF p
<1>4. q \in Runs
  BY <1>1 DEF Runs
<1>5. /\ q.stmts = p.stmts /\ q.effects = p.effects /\ q.results = p.results
      /\ q.error = p.error /\ ~q.allowed /\ q.pc = "statement" /\ q.policy = r.policy
      /\ q.hits = 0
  BY <1>1 DEF Runs
<1>6. Failed(r, status, count) = IF r.policy.analyze THEN q ELSE Filled(q, "skipped")
  BY DEF Failed, p
<1> HIDE DEF q
<1>7. Accounted(q) /\ Uncancelled(q) /\ Untouched(q) /\ HadError(q)
  BY <1>3, <1>4, <1>5, MovedSound
<1>8. ScriptSound(q)
  BY <1>5, <1>7 DEF ScriptSound, Blamed, Located, Begun, Executing, Scanning, Aborting
<1>9. /\ ScriptSound(Filled(q, "skipped")) /\ ~Filled(q, "skipped").allowed
      /\ Filled(q, "skipped").pc = "done"
  <2>1. Blamed(q)
    BY <1>7 DEF Blamed
  <2>2. ScriptSound(Filled(q, "skipped"))
    BY <1>7, <2>1, FilledSound DEF ScriptSound
  <2>3. Len(q.results) <= Len(q.stmts) /\ "skipped" \in Statuses
    BY <1>7 DEF Accounted, Statuses
  <2> QED
    BY <1>4, <1>5, <2>2, <2>3, FilledFields
<1> QED
  BY <1>5, <1>6, <1>8, <1>9

(* A broken call ends the script; a statement that it may have left half   *)
(* done is indeterminate.                                                  *)
LEMMA AbortedSound ==
    ASSUME NEW r, Accounted(r), Uncancelled(r), NEW side_effects \in BOOLEAN,
           side_effects => Index(r) <= Len(r.stmts), ~side_effects => Untouched(r)
    PROVE  /\ ScriptSound(Aborted(r, side_effects)) /\ Aborted(r, side_effects).pc = "done"
<1> DEFINE e == [r EXCEPT !.error = TRUE]
           p == IF side_effects THEN Pushed(r, "indeterminate", 0) ELSE r
           b == IF side_effects THEN Pushed(e, "indeterminate", 0) ELSE e
           f == Filled(p, "skipped")
           g == Filled(b, "skipped")
           q == [f EXCEPT !.error = TRUE]
<1>0. r \in Runs /\ "indeterminate" \in Statuses \ {"cancelled"} /\ "skipped" \in Statuses
  BY DEF Accounted, Statuses
<1>1. e \in Runs
  BY <1>0 DEF Runs
<1>2. /\ e.stmts = r.stmts /\ e.effects = r.effects /\ e.results = r.results
      /\ e.error = TRUE
  BY <1>0 DEF Runs
<1> HIDE DEF e
<1>3. /\ Accounted(e) /\ Uncancelled(e) /\ Index(e) = Index(r)
      /\ (Untouched(r) => Untouched(e))
  BY <1>1, <1>2, MovedSound
<1>4. /\ b \in Runs /\ Accounted(b) /\ Uncancelled(b) /\ Untouched(b) /\ b.error = TRUE
      /\ p \in Runs /\ b.stmts = p.stmts /\ b.effects = p.effects /\ b.results = p.results
      /\ Len(p.results) <= Len(p.stmts)
  <2>1. CASE side_effects
    <3>1. /\ b \in Runs /\ b.stmts = r.stmts /\ b.effects = r.effects /\ b.error = TRUE
          /\ b.results[Index(e)] = Result("indeterminate", 0)
      <4>1. "indeterminate" \in Statuses /\ b = Pushed(e, "indeterminate", 0)
        BY <1>0, <2>1
      <4> HIDE DEF b
      <4>2. /\ b \in Runs /\ b.stmts = e.stmts /\ b.effects = e.effects /\ b.error = e.error
            /\ b.results[Index(e)] = Result("indeterminate", 0)
        BY <1>1, <4>1, PushedFields
      <4> QED
        BY <1>2, <4>2
    <3>2. Truthful(b, Index(e))
      BY <1>0, <3>1, ResultTypes DEF Truthful
    <3>3. Accounted(b) /\ Uncancelled(b) /\ Untouched(b)
      BY <1>0, <1>2, <1>3, <2>1, <3>2, PushedSound
    <3>4. p \in Runs /\ p.stmts = r.stmts /\ p.effects = r.effects
      BY <1>0, <2>1, PushedFields
    <3>5. b.results = Append(r.results, Result("indeterminate", 0))
      BY <1>1, <1>2, <2>1 DEF Pushed, Runs
    <3>6. p.results = Append(r.results, Result("indeterminate", 0))
      BY <1>0, <2>1 DEF Pushed, Runs
    <3>7. Len(b.results) <= Len(b.stmts)
      BY <3>3 DEF Accounted
    <3> HIDE DEF b, p
    <3> QED
      BY <3>1, <3>3, <3>4, <3>5, <3>6, <3>7
  <2>2. CASE ~side_effects
    BY <1>0, <1>1, <1>2, <1>3, <2>2 DEF Accounted
  <2> QED
    BY <2>1, <2>2
<1>5. Aborted(r, side_effects) = q
  BY DEF Aborted
<1> HIDE DEF b, p
<1>6. f \in Runs /\ f.pc = "done" /\ f.stmts = p.stmts /\ f.effects = p.effects
  BY <1>0, <1>4, FilledFields
<1>7. /\ g \in Runs /\ g.stmts = p.stmts /\ g.effects = p.effects /\ g.error = TRUE
      /\ Len(g.results) = Len(p.stmts)
  BY <1>0, <1>4, FilledFields
<1>8. f.results = g.results
  <2> DEFINE z == p.results \o [i \in 1..Len(p.stmts) - Len(p.results) |-> Result("skipped", 0)]
  <2>1. f.results = z
    BY <1>4 DEF Filled, Runs
  <2>2. g.results = b.results \o [i \in 1..Len(b.stmts) - Len(b.results) |-> Result("skipped", 0)]
    BY <1>4 DEF Filled, Runs
  <2> QED
    BY <1>4, <2>1, <2>2
<1>9. Accounted(g) /\ Located(g)
  BY <1>4, FilledSound
<1> HIDE DEF f, g
<1>10. q \in Runs
  BY <1>6 DEF Runs
<1>11. /\ q.stmts = f.stmts /\ q.effects = f.effects /\ q.results = f.results
       /\ q.error = TRUE /\ q.pc = "done"
  BY <1>6 DEF Runs
<1> HIDE DEF q
<1>12. Accounted(q) /\ Index(q) = Index(g)
  BY <1>6, <1>7, <1>8, <1>9, <1>10, <1>11, MovedSound
<1>13. Len(q.results) = Len(q.stmts) /\ Untouched(q)
  <2>1. Len(q.results) = Len(q.stmts) /\ Len(q.stmts) \in Nat /\ Index(q) = Len(q.stmts) + 1
    BY <1>6, <1>7, <1>8, <1>10, <1>11, LengthTypes
  <2> QED
    BY <2>1 DEF Untouched
<1>14. ScriptSound(q)
  BY <1>11, <1>12, <1>13 DEF ScriptSound, Blamed, Located, Begun, Executing, Scanning, Aborting
<1> QED
  BY <1>5, <1>11, <1>14

(* The rows that a statement changed are counted for it. *)
LEMMA EffectSound ==
    ASSUME NEW r, Accounted(r), Index(r) <= Len(r.stmts), NEW n \in Nat
    PROVE  /\ Accounted(Effect(r, n)) /\ Effect(r, n).effects[Index(r)] = r.effects[Index(r)] + n
           /\ Effect(r, n).stmts = r.stmts /\ Effect(r, n).pc = r.pc
           /\ Effect(r, n).policy = r.policy /\ Effect(r, n).allowed = r.allowed
           /\ Index(Effect(r, n)) = Index(r)
           /\ Uncancelled(r) => Uncancelled(Effect(r, n))
           /\ Blamed(r) => Blamed(Effect(r, n))
<1> DEFINE q == Effect(r, n)
<1>1. /\ r \in Runs /\ r.effects \in [1..Len(r.stmts) -> Nat] /\ Len(r.results) <= Len(r.stmts)
      /\ \A i \in 1..Len(r.results) : Truthful(r, i)
  BY DEF Accounted
<1>2. /\ Len(r.results) \in Nat /\ Len(r.stmts) \in Nat /\ Index(r) = Len(r.results) + 1
      /\ Index(r) \in 1..Len(r.stmts)
  BY <1>1, LengthTypes
<1>3. /\ q \in Runs /\ q.pc = r.pc /\ q.stmts = r.stmts
      /\ q.results = r.results /\ q.allowed = r.allowed /\ q.error = r.error
      /\ q.policy = r.policy /\ Index(q) = Index(r)
      /\ q.effects \in [1..Len(r.stmts) -> Nat]
      /\ q.effects[Index(r)] = r.effects[Index(r)] + n
      /\ \A i \in 1..Len(r.stmts) : i # Index(r) => q.effects[i] = r.effects[i]
  BY <1>1, <1>2, EffectFields
<1> HIDE DEF q
<1>4. ASSUME NEW i \in 1..Len(q.results) PROVE Truthful(q, i)
  <2>1. i \in 1..Len(r.results) /\ i \in 1..Len(r.stmts) /\ i # Index(r)
    BY <1>1, <1>2, <1>3
  <2> QED
    BY <1>1, <1>3, <2>1, TruthfulSame
<1>5. ASSUME NEW i \in 1..Len(q.stmts), i > Index(q) PROVE q.effects[i] = 0
  BY <1>2, <1>3, <1>5 DEF Accounted
<1>6. Accounted(q)
  BY <1>1, <1>3, <1>4, <1>5 DEF Accounted
<1>7. /\ Uncancelled(r) => Uncancelled(q)
      /\ Blamed(r) => Blamed(q)
  BY <1>3 DEF Uncancelled, Blamed, HadError
<1> QED
  BY <1>3, <1>6, <1>7 DEF q

LEMMA StatementTypes ==
    ASSUME NEW r \in Runs, Index(r) <= Len(r.stmts)
    PROVE  /\ Statement(r) \in Statements /\ Statement(r).kind \in Kinds
           /\ Statement(r).table \in Tables /\ Index(r) \in 1..Len(r.stmts)
<1>1. Index(r) \in 1..Len(r.stmts)
  BY LengthTypes
<1> QED
  BY <1>1, LengthTypes DEF Statement, Statements

-----------------------------------------------------------------------------
(* Steps of the running script *)

(* What is known wherever the script is. *)
LEMMA SessionFacts ==
    ASSUME CliInv
    PROVE  /\ Session \in Handles /\ run \in [Handles -> Runs] /\ run[Session] \in Runs
           /\ ScriptSound(run[Session])
           /\ Accounted(run[Session]) /\ Blamed(run[Session]) /\ Located(run[Session])
           /\ db[Session] \in Impl /\ pc[Session] \in Labels /\ storage \in Disk
           /\ pc \in [Handles -> Labels] /\ db \in [Handles -> Impl]
           /\ Fits(db[Session], pc[Session], storage, abandoned)
           /\ rows \in [Tables -> 0..MaxRows] /\ RowsFit(run[Session])
           /\ (cursor # {} => run[Session].pc \in Scanning \cup Aborting)
           /\ (leaked # {} => storage.open)
           /\ run[Session].pc # "none" =>
                 cli.pc = "executing" /\ RunFits(run[Session], db[Session], pc[Session])
           /\ BatchRows \in Nat /\ MaxRows \in Nat /\ MaxQueryRows \in Nat
<1>1. IInv /\ RunInv /\ CursorInv /\ RowsInv
  BY DEF CliInv
<1>2. NoScript.pc = "none"
  BY DEF NoScript
<1>3. cli.pc # "executing" => run[Session] = NoScript
  BY <1>1 DEF RunInv
<1>4. Session \in Handles /\ run \in [Handles -> Runs] /\ ScriptSound(run[Session])
  BY <1>1, SessionAssumption DEF RunInv
<1>5. run[Session].pc # "none" =>
         cli.pc = "executing" /\ RunFits(run[Session], db[Session], pc[Session])
  BY <1>1, <1>2, <1>3 DEF RunInv
<1>6. /\ db[Session] \in Impl /\ pc[Session] \in Labels /\ storage \in Disk
      /\ pc \in [Handles -> Labels] /\ db \in [Handles -> Impl]
      /\ Fits(db[Session], pc[Session], storage, abandoned)
  BY <1>1, <1>4 DEF IInv, TypeOK, CallsConsistent
<1>7. BatchRows \in Nat /\ MaxRows \in Nat /\ MaxQueryRows \in Nat
  BY ScriptAssumption
<1> QED
  BY <1>1, <1>4, <1>5, <1>6, <1>7 DEF ScriptSound, CursorInv, RowsInv

(* The script goes on as q. *)
LEMMA RunStep ==
    ASSUME CliInv, run[Session].pc # "none", NEW q, ScriptSound(q), Set(Session, q),
           RunFits(q, db'[Session], pc'[Session]), UNCHANGED <<cliVars, cancel>>, IInv',
           cursor' # {} => q.pc \in Scanning \cup Aborting, leaked' # {} => storage'.open,
           rows' \in [Tables -> 0..MaxRows],
           q.pc \in Scanning \cup {"write"} /\ Statement(q).kind # "insert" =>
               q.left + q.hits <= rows'[Statement(q).table]
    PROVE  CliInv'
<1>0. /\ cli' = cli /\ active' = active /\ signalled' = signalled /\ cancel' = cancel
      /\ cli.pc = "executing" /\ Session \in Handles
  BY SessionFacts DEF cliVars
<1>1. run'[Session] = q /\ run' \in [Handles -> Runs]
  <2>1. q \in Runs
    BY DEF ScriptSound, Accounted
  <2> QED
    BY <2>1, SessionFacts DEF Set
<1>2. RunInv'
  <2>1. \A h \in Handles \ {Session} : run'[h] = NoScript
    BY SessionFacts DEF CliInv, RunInv, Set
  <2> QED
    BY <1>0, <1>1, <2>1 DEF RunInv
<1>3. CursorInv' /\ RowsInv'
  BY <1>1 DEF CursorInv, RowsInv, RowsFit
<1>4. CliTypeOK' /\ TokenInv'
  BY <1>0 DEF CliInv, CliTypeOK, TokenInv
<1>5. ExitInv'
  BY <1>0 DEF CliInv, ExitInv
<1> QED
  BY <1>2, <1>3, <1>4, <1>5 DEF CliInv

(* It does so without a storage call that the lifecycle hears of. *)
LEMMA QuietStep ==
    ASSUME CliInv, pc[Session] = "script", run[Session].pc # "none", NEW q, ScriptSound(q),
           Set(Session, q), UNCHANGED <<lifecycle, cancel, cliVars>>,
           q.pc \notin Aborting \cup {"none"},
           q.pc \in Executing \/ (q.pc = "statement" /\ q.allowed) => db[Session].open,
           cursor' # {} => q.pc \in Scanning, leaked' # {} => storage.open,
           rows' \in [Tables -> 0..MaxRows],
           q.pc \in Scanning \cup {"write"} /\ Statement(q).kind # "insert" =>
               q.left + q.hits <= rows'[Statement(q).table]
    PROVE  CliInv'
<1>1. IInv'
  BY NextKeepsIInv DEF CliInv
<1>2. db' = db /\ pc' = pc /\ storage' = storage
  BY DEF lifecycle
<1>3. RunFits(q, db'[Session], pc'[Session])
  BY <1>2 DEF RunFits
<1> QED
  BY <1>1, <1>2, <1>3, RunStep

(* Between two statements. *)
LEMMA AtStatementFacts ==
    ASSUME CliInv, At(Session, "statement")
    PROVE  /\ run[Session].pc # "none" /\ pc[Session] = "script" /\ cursor = {}
           /\ (leaked # {} => storage.open)
           /\ (run[Session].allowed => db[Session].open)
           /\ Uncancelled(run[Session]) /\ Untouched(run[Session]) /\ run[Session].hits = 0
BY SessionFacts DEF At, RunFits, Located, Scanning, Aborting

LEMMA FinishScriptKeeps ==
    ASSUME CliInv, FinishScript(Session), UNCHANGED cliVars PROVE CliInv'
<1> DEFINE r == run[Session]
           q == [r EXCEPT !.pc = "done"]
<1>1. /\ At(Session, "statement") /\ Index(r) > Len(r.stmts) /\ Set(Session, q)
      /\ UNCHANGED <<lifecycle, rows, cursor, leaked, cancel>>
  BY DEF FinishScript
<1>2. r \in Runs /\ Accounted(r) /\ Blamed(r) /\ RowsInv
  BY SessionFacts DEF CliInv
<1>3. q \in Runs
  BY <1>2 DEF Runs
<1>4. /\ q.stmts = r.stmts /\ q.effects = r.effects /\ q.results = r.results
      /\ q.error = r.error /\ q.allowed = r.allowed /\ q.pc = "done"
  BY <1>2 DEF Runs
<1> HIDE DEF q, r
<1>5. Accounted(q) /\ Index(q) = Index(r) /\ Blamed(q)
  BY <1>2, <1>3, <1>4, MovedSound
<1>6. Len(q.results) = Len(q.stmts) /\ Untouched(q)
  <2>1. Len(q.results) \in Nat /\ Len(q.stmts) \in Nat /\ Index(q) = Len(q.results) + 1
    BY <1>3, LengthTypes
  <2>2. Len(q.results) <= Len(q.stmts)
    BY <1>5 DEF Accounted
  <2> QED
    BY <1>1, <1>4, <1>5, <2>1, <2>2 DEF Untouched
<1>7. ScriptSound(q)
  BY <1>4, <1>5, <1>6 DEF ScriptSound, Located, Begun, Executing, Scanning, Aborting
<1> QED
  BY <1>1, <1>2, <1>4, <1>7, AtStatementFacts, QuietStep
     DEF Aborting, Executing, Scanning, RowsInv, r

LEMMA CancelAtStatementKeeps ==
    ASSUME CliInv, CancelAtStatement(Session), UNCHANGED cliVars PROVE CliInv'
<1> DEFINE r == run[Session]
           q == Filled(r, "cancelled")
<1>1. /\ At(Session, "statement") /\ Set(Session, q)
      /\ UNCHANGED <<lifecycle, rows, cursor, leaked, cancel>>
  BY DEF CancelAtStatement, AtStatement
<1>2. r \in Runs /\ Accounted(r) /\ Blamed(r) /\ RowsInv
  BY SessionFacts DEF CliInv
<1>3. Uncancelled(r) /\ Untouched(r)
  BY <1>1, AtStatementFacts
<1>4. ScriptSound(q)
  BY <1>2, <1>3, FilledSound DEF ScriptSound
<1>5. q.pc = "done"
  BY <1>2, FilledFields DEF Accounted, Statuses
<1> HIDE DEF q, r
<1> QED
  BY <1>1, <1>2, <1>4, <1>5, AtStatementFacts, QuietStep
     DEF Aborting, Executing, Scanning, RowsInv

LEMMA CompileErrorKeeps ==
    ASSUME CliInv, CompileError(Session), UNCHANGED cliVars PROVE CliInv'
<1> DEFINE r == run[Session]
           q == Failed(r, "compile_error", 0)
<1>1. /\ At(Session, "statement") /\ Index(r) <= Len(r.stmts) /\ Set(Session, q)
      /\ UNCHANGED <<lifecycle, rows, cursor, leaked, cancel>>
  BY DEF CompileError, AtStatement
<1>2. r \in Runs /\ Accounted(r) /\ RowsInv
  BY SessionFacts DEF CliInv
<1>3. Uncancelled(r) /\ r.effects[Index(r)] = 0
  BY <1>1, AtStatementFacts DEF Untouched
<1>4. ScriptSound(q) /\ ~q.allowed /\ q.pc \in {"statement", "done"}
  BY <1>1, <1>2, <1>3, FailedSound
<1> HIDE DEF q, r
<1> QED
  BY <1>1, <1>2, <1>4, AtStatementFacts, QuietStep
     DEF Aborting, Executing, Scanning, RowsInv

LEMMA CompilerBreaksKeeps ==
    ASSUME CliInv, CompilerBreaks(Session), UNCHANGED cliVars PROVE CliInv'
<1> DEFINE r == run[Session]
           side_effects == r.called \/ db[Session].retry \/ db[Session].forced
           q == Aborted(r, side_effects)
<1>1. /\ At(Session, "statement") /\ Index(r) <= Len(r.stmts) /\ Set(Session, q)
      /\ UNCHANGED <<lifecycle, rows, cursor, leaked, cancel>>
  BY DEF CompilerBreaks, AtStatement
<1>2. r \in Runs /\ Accounted(r) /\ RowsInv
  BY SessionFacts DEF CliInv
<1>3. Uncancelled(r) /\ Untouched(r)
  BY <1>1, AtStatementFacts
<1>4. side_effects \in BOOLEAN
  BY <1>2, SessionFacts DEF Runs, Impl
<1> HIDE DEF side_effects
<1>5. ScriptSound(q) /\ q.pc = "done"
  BY <1>1, <1>2, <1>3, <1>4, AbortedSound
<1> HIDE DEF q, r
<1> QED
  BY <1>1, <1>2, <1>5, AtStatementFacts, QuietStep
     DEF Aborting, Executing, Scanning, RowsInv

LEMMA RenderPlanKeeps ==
    ASSUME CliInv, RenderPlan(Session), UNCHANGED cliVars PROVE CliInv'
<1> DEFINE r == run[Session]
           q == Pushed(r, "plan_only", 0)
<1>1. /\ At(Session, "statement") /\ Index(r) <= Len(r.stmts) /\ Set(Session, q)
      /\ UNCHANGED <<lifecycle, rows, cursor, leaked, cancel>>
  BY DEF RenderPlan, AtStatement
<1>2. r \in Runs /\ Accounted(r) /\ Blamed(r) /\ RowsInv
  BY SessionFacts DEF CliInv
<1>3. Uncancelled(r) /\ r.effects[Index(r)] = 0
  BY <1>1, AtStatementFacts DEF Untouched
<1>4. "plan_only" \in Statuses \ {"cancelled", "skipped", "analysis_only"}
  BY DEF Statuses
<1>5. /\ q.pc = "statement" /\ q.effects = r.effects /\ q.allowed = r.allowed
      /\ q.results[Index(r)] = Result("plan_only", 0)
  BY <1>2, <1>4, PushedFields
<1>6. Truthful(q, Index(r))
  BY <1>3, <1>4, <1>5, ResultTypes DEF Truthful
<1>7. ScriptSound(q)
  BY <1>1, <1>2, <1>3, <1>4, <1>6, PushedSound DEF ScriptSound
<1> HIDE DEF q
<1> QED
  BY <1>1, <1>2, <1>5, <1>7, AtStatementFacts, QuietStep
     DEF Aborting, Executing, Scanning, RowsInv

LEMMA RejectDdlKeeps ==
    ASSUME CliInv, RejectDdl(Session), UNCHANGED cliVars PROVE CliInv'
<1> DEFINE r == run[Session]
           q == Pushed(r, "analysis_error", 0)
<1>1. /\ At(Session, "statement") /\ Index(r) <= Len(r.stmts) /\ Set(Session, q)
      /\ UNCHANGED <<lifecycle, rows, cursor, leaked, cancel>>
  BY DEF RejectDdl, AtStatement
<1>2. r \in Runs /\ Accounted(r) /\ Blamed(r) /\ RowsInv
  BY SessionFacts DEF CliInv
<1>3. Uncancelled(r) /\ r.effects[Index(r)] = 0
  BY <1>1, AtStatementFacts DEF Untouched
<1>4. "analysis_error" \in Statuses \ {"cancelled", "skipped", "analysis_only"}
  BY DEF Statuses
<1>5. /\ q.pc = "statement" /\ q.effects = r.effects /\ q.allowed = r.allowed
      /\ q.results[Index(r)] = Result("analysis_error", 0)
  BY <1>2, <1>4, PushedFields
<1>6. Truthful(q, Index(r))
  BY <1>3, <1>4, <1>5, ResultTypes DEF Truthful
<1>7. ScriptSound(q)
  BY <1>1, <1>2, <1>3, <1>4, <1>6, PushedSound DEF ScriptSound
<1> HIDE DEF q
<1> QED
  BY <1>1, <1>2, <1>5, <1>7, AtStatementFacts, QuietStep
     DEF Aborting, Executing, Scanning, RowsInv

LEMMA AnalyzeKeeps ==
    ASSUME CliInv, Analyze(Session), UNCHANGED cliVars PROVE CliInv'
<1> DEFINE r == run[Session]
           p == Pushed(r, "analysis_only", 0)
           shadow == IF Statement(r).kind = "create" THEN p.shadow \cup {Statement(r).table}
                     ELSE p.shadow
           q == [p EXCEPT !.shadow = shadow]
<1>1. /\ At(Session, "statement") /\ Index(r) <= Len(r.stmts) /\ Set(Session, q) /\ ~r.allowed
      /\ UNCHANGED <<lifecycle, rows, cursor, leaked, cancel>>
  BY DEF Analyze, AtStatement
<1>2. r \in Runs /\ Accounted(r) /\ Blamed(r) /\ RowsInv
  BY SessionFacts DEF CliInv
<1>3. Uncancelled(r) /\ r.effects[Index(r)] = 0
  BY <1>1, AtStatementFacts DEF Untouched
<1>4. "analysis_only" \in Statuses \ {"cancelled"}
  BY DEF Statuses
<1>5. /\ p \in Runs /\ p.pc = "statement" /\ p.effects = r.effects /\ p.allowed = r.allowed
      /\ p.error = r.error /\ p.hits = 0
      /\ p.results[Index(r)] = Result("analysis_only", 0)
  BY <1>2, <1>4, PushedFields, SMTT(40)
<1>6. Truthful(p, Index(r))
  BY <1>3, <1>4, <1>5, ResultTypes DEF Truthful
<1>7. Accounted(p) /\ Uncancelled(p) /\ Untouched(p) /\ (HadError(r) => HadError(p))
  BY <1>1, <1>2, <1>3, <1>4, <1>6, PushedSound
<1>8. Blamed(p)
  BY <1>1, <1>2, <1>5, <1>7 DEF Blamed
<1>9. Statement(r).table \in Tables
  BY <1>1, <1>2, StatementTypes
<1> HIDE DEF p
<1>10. shadow \in SUBSET Tables
  BY <1>5, <1>9 DEF Runs
<1> HIDE DEF shadow
<1>11. q \in Runs
  BY <1>5, <1>10 DEF Runs
<1>12. /\ q.stmts = p.stmts /\ q.effects = p.effects /\ q.results = p.results
       /\ q.error = p.error /\ q.allowed = p.allowed /\ q.pc = "statement" /\ q.hits = 0
  BY <1>5 DEF Runs
<1> HIDE DEF q
<1>13. Accounted(q) /\ Uncancelled(q) /\ Untouched(q) /\ Blamed(q)
  BY <1>7, <1>8, <1>11, <1>12, MovedSound
<1>14. ScriptSound(q)
  BY <1>12, <1>13 DEF ScriptSound, Located, Begun, Executing, Scanning, Aborting
<1> QED
  BY <1>1, <1>2, <1>5, <1>12, <1>14, AtStatementFacts, QuietStep
     DEF Aborting, Executing, Scanning, RowsInv

LEMMA ExecuteKeeps ==
    ASSUME CliInv, Execute(Session), UNCHANGED cliVars PROVE CliInv'
<1> DEFINE r == run[Session]
           first == FirstCall(Statement(r).kind)
           q == [r EXCEPT !.pc = first, !.called = TRUE]
<1>1. /\ At(Session, "statement") /\ Index(r) <= Len(r.stmts) /\ Set(Session, q) /\ r.allowed
      /\ UNCHANGED <<lifecycle, rows, cursor, leaked, cancel>>
      /\ Compiles(View(Session), Statement(r))
  BY DEF Execute, AtStatement
<1>2. r \in Runs /\ Accounted(r) /\ Blamed(r) /\ RowsInv
  BY SessionFacts DEF CliInv
<1>3. Statement(r).kind \in {"create", "insert", "delete", "update", "query"}
  <2>1. Statement(r).kind \in Kinds
    BY <1>1, <1>2, StatementTypes
  <2>2. Statement(r).kind # "bad"
    BY <1>1 DEF Compiles
  <2> QED
    BY <2>1, <2>2 DEF Kinds
<1>4. /\ first \in {"create", "write", "open_table"}
      /\ first = "create" => Statement(r).kind = "create"
      /\ first = "write" => Statement(r).kind = "insert"
      /\ first = "open_table" => Statement(r).kind \in {"delete", "update", "query"}
  BY <1>3 DEF FirstCall
<1> HIDE DEF first
<1>5. q \in Runs
  BY <1>2, <1>4 DEF Runs, Begun, Executing
<1>6. /\ q.stmts = r.stmts /\ q.effects = r.effects /\ q.results = r.results
      /\ q.error = r.error /\ q.allowed = r.allowed /\ q.pc = first /\ q.hits = r.hits
  BY <1>2 DEF Runs
<1> HIDE DEF q
<1>7. Accounted(q) /\ Uncancelled(q) /\ Untouched(q) /\ Blamed(q) /\ Index(q) = Index(r)
  BY <1>1, <1>2, <1>5, <1>6, MovedSound, AtStatementFacts
<1>8. Statement(q) = Statement(r)
  BY <1>6, <1>7 DEF Statement
<1>9. r.hits = 0
  BY <1>1, AtStatementFacts
<1>10. Located(q)
  BY <1>1, <1>4, <1>6, <1>7, <1>8, <1>9 DEF Located, Begun, Executing, Scanning, Aborting
<1>11. db[Session].open
  BY <1>1, AtStatementFacts
<1>12. ScriptSound(q)
  BY <1>7, <1>10 DEF ScriptSound
<1> HIDE DEF r
<1> QED
  BY <1>1, <1>2, <1>4, <1>6, <1>8, <1>11, <1>12, AtStatementFacts, QuietStep
     DEF Aborting, Executing, Scanning, RowsInv

(* In a storage call of a statement: the database is open, and so is the   *)
(* storage layer that may have kept a cursor.                              *)
LEMMA ExecutingFacts ==
    ASSUME CliInv, run[Session].pc \in Executing
    PROVE  /\ run[Session].pc # "none" /\ pc[Session] = "script" /\ db[Session].open
           /\ storage.open /\ Index(run[Session]) <= Len(run[Session].stmts)
           /\ run[Session].allowed /\ Uncancelled(run[Session])
           /\ run[Session].effects[Index(run[Session])] = 0
           /\ Statement(run[Session]).kind \in Kinds /\ Statement(run[Session]).table \in Tables
           /\ Index(run[Session]) \in 1..Len(run[Session].stmts)
           /\ (cursor # {} => run[Session].pc \in Scanning)
<1> DEFINE r == run[Session]
<1>1. r.pc # "none" /\ r.pc # "done" /\ r.pc \notin Aborting /\ r.pc \in Begun
      /\ r.pc # "abort_internal"
  BY DEF Executing, Aborting, Begun
<1>2. RunFits(r, db[Session], pc[Session]) /\ Located(r) /\ r \in Runs
      /\ Fits(db[Session], pc[Session], storage, abandoned)
      /\ (cursor # {} => r.pc \in Scanning \cup Aborting)
  BY <1>1, SessionFacts
<1>3. pc[Session] = "script" /\ db[Session].open
  BY <1>1, <1>2 DEF RunFits
<1>4. storage.open
  BY <1>2, <1>3 DEF Fits
<1>5. Index(r) <= Len(r.stmts) /\ r.allowed /\ Uncancelled(r) /\ Untouched(r)
  BY <1>1, <1>2 DEF Located
<1>6. /\ Statement(r).kind \in Kinds /\ Statement(r).table \in Tables
      /\ Index(r) \in 1..Len(r.stmts)
  BY <1>2, <1>5, StatementTypes
<1> QED
  BY <1>1, <1>2, <1>3, <1>4, <1>5, <1>6 DEF Untouched

(* A storage call is broken: the script, as p, goes on to give it up. *)
LEMMA BrokenStep ==
    ASSUME CliInv, run[Session].pc \in Executing, NEW created \in SUBSET Tables, NEW p,
           NEW then \in Aborting, Accounted(p), Uncancelled(p), Blamed(p),
           Index(p) <= Len(p.stmts), then # "abort_internal" => p.effects[Index(p)] = 0,
           Broken(Session, created, p, then), UNCHANGED <<leaked, cliVars>>,
           IInv', rows' \in [Tables -> 0..MaxRows]
    PROVE  CliInv'
<1> DEFINE q == [p EXCEPT !.pc = then]
<1>1. /\ Set(Session, q) /\ cancel' = cancel /\ StorageException(Session, created)
  BY DEF Broken
<1>2. p \in Runs
  BY DEF Accounted
<1>3. q \in Runs
  BY <1>2 DEF Runs, Begun
<1>4. /\ q.stmts = p.stmts /\ q.effects = p.effects /\ q.results = p.results
      /\ q.error = p.error /\ q.allowed = p.allowed /\ q.pc = then
  BY <1>2 DEF Runs
<1> HIDE DEF q
<1>5. /\ Accounted(q) /\ Uncancelled(q) /\ Blamed(q) /\ Index(q) = Index(p)
      /\ (Untouched(p) => Untouched(q))
  BY <1>2, <1>3, <1>4, MovedSound
<1>6. then # "abort_internal" => Untouched(q)
  BY <1>5 DEF Untouched
<1>7. Located(q)
  BY <1>4, <1>5, <1>6 DEF Located, Begun, Executing, Scanning, Aborting
<1>8. ScriptSound(q)
  BY <1>5, <1>7 DEF ScriptSound
<1>9. pc'[Session] = "abort" /\ storage'.open = storage.open /\ db' = db
  BY <1>1, SessionFacts DEF StorageException, Disk
<1>10. q.pc \in Aborting /\ q.pc \notin Executing /\ q.pc # "none" /\ q.pc # "statement"
       /\ q.pc \notin Scanning \cup {"write"}
  BY <1>4 DEF Aborting, Executing, Scanning
<1>11. RunFits(q, db'[Session], pc'[Session])
  BY <1>9, <1>10 DEF RunFits
<1>12. leaked' # {} => storage'.open
  BY <1>9, SessionFacts
<1>13. run[Session].pc # "none" /\ UNCHANGED <<cliVars, cancel>>
  BY <1>1 DEF Executing
<1> QED
  BY <1>1, <1>8, <1>10, <1>11, <1>12, <1>13, RunStep

(* An error of a storage call is reported. *)
LEMMA FailedStep ==
    ASSUME CliInv, run[Session].pc \in Executing, NEW p, Accounted(p), Uncancelled(p),
           Index(p) <= Len(p.stmts), NEW count \in Nat, p.effects[Index(p)] = count,
           Set(Session, Failed(p, "execution_error", count)),
           UNCHANGED <<lifecycle, cancel, cliVars>>, cursor' = {},
           rows' \in [Tables -> 0..MaxRows]
    PROVE  CliInv'
<1> DEFINE q == Failed(p, "execution_error", count)
<1>1. ScriptSound(q) /\ ~q.allowed /\ q.pc \in {"statement", "done"}
  BY FailedSound
<1> HIDE DEF q
<1>2. /\ run[Session].pc # "none" /\ pc[Session] = "script" /\ db[Session].open /\ storage.open
  BY ExecutingFacts
<1>3. Set(Session, q)
  BY DEF q
<1>4. q.pc \notin Aborting \cup {"none"} /\ q.pc \notin Executing
      /\ q.pc \notin Scanning \cup {"write"}
  BY <1>1 DEF Aborting, Executing, Scanning
<1> QED
  BY <1>1, <1>2, <1>3, <1>4, QuietStep

(* The statement has been executed. *)
LEMMA ExecutedStep ==
    ASSUME CliInv, run[Session].pc \in Executing, NEW p, Accounted(p), Uncancelled(p), Blamed(p),
           Index(p) <= Len(p.stmts), NEW count \in Nat,
           p.allowed, Statement(p).kind = "create" => p.effects[Index(p)] = 1,
           Statement(p).kind = "query" => p.effects[Index(p)] = 0,
           Statement(p).kind \notin {"create", "query"} => p.effects[Index(p)] = count,
           Set(Session, Pushed(p, "executed", count)),
           UNCHANGED <<lifecycle, cancel, cliVars>>, cursor' = {}, leaked' = leaked,
           rows' \in [Tables -> 0..MaxRows]
    PROVE  CliInv'
<1> DEFINE q == Pushed(p, "executed", count)
<1>1. "executed" \in Statuses \ {"cancelled", "skipped", "analysis_only"} /\ p \in Runs
  BY DEF Statuses, Accounted
<1>2. /\ q.pc = "statement" /\ q.effects = p.effects /\ q.stmts = p.stmts
      /\ q.results[Index(p)] = Result("executed", count)
  BY <1>1, PushedFields
<1>3. Truthful(q, Index(p))
  BY <1>1, <1>2, ResultTypes DEF Truthful, Statement
<1>4. ScriptSound(q)
  BY <1>1, <1>3, PushedSound DEF ScriptSound
<1>5. Set(Session, q)
  OBVIOUS
<1> HIDE DEF q
<1>6. /\ run[Session].pc # "none" /\ pc[Session] = "script" /\ db[Session].open /\ storage.open
  BY ExecutingFacts
<1>7. q.pc \notin Aborting \cup {"none"} /\ q.pc \notin Executing
      /\ q.pc \notin Scanning \cup {"write"}
  BY <1>2 DEF Aborting, Executing, Scanning
<1> QED
  BY <1>4, <1>5, <1>6, <1>7, QuietStep

(* The statement goes on, as q. *)
LEMMA ExecutingStep ==
    ASSUME CliInv, run[Session].pc \in Executing, NEW q \in Runs,
           q.stmts = run[Session].stmts, q.effects = run[Session].effects,
           q.results = run[Session].results, q.error = run[Session].error,
           q.allowed = run[Session].allowed, q.pc \in Executing \ {"create", "open_table"},
           q.pc = "write" => Statement(q).kind \in {"insert", "delete", "update"},
           q.pc \in Scanning => Statement(q).kind \in {"delete", "update", "query"},
           q.left + q.hits <= rows[Statement(q).table],
           Set(Session, q), UNCHANGED <<lifecycle, cancel, cliVars, rows, leaked>>,
           cursor' # {} => q.pc \in Scanning
    PROVE  CliInv'
<1> DEFINE r == run[Session]
<1>1. Accounted(r) /\ Blamed(r) /\ rows \in [Tables -> 0..MaxRows]
      /\ (leaked # {} => storage.open)
  BY SessionFacts
<1>2. /\ r.pc # "none" /\ pc[Session] = "script" /\ db[Session].open
      /\ Index(r) <= Len(r.stmts) /\ r.allowed /\ Uncancelled(r) /\ r.effects[Index(r)] = 0
  BY ExecutingFacts
<1>3. Untouched(r)
  BY <1>2 DEF Untouched
<1>4. /\ Accounted(q) /\ Uncancelled(q) /\ Blamed(q) /\ Index(q) = Index(r) /\ Untouched(q)
  BY <1>1, <1>2, <1>3, MovedSound
<1>5. Located(q)
  BY <1>2, <1>4 DEF Located, Begun, Executing, Scanning, Aborting
<1>6. ScriptSound(q)
  BY <1>4, <1>5 DEF ScriptSound
<1>7. q.pc \notin Aborting \cup {"none"}
  BY DEF Executing, Aborting
<1> HIDE DEF r
<1> QED
  BY <1>1, <1>2, <1>6, <1>7, QuietStep DEF r

-----------------------------------------------------------------------------
(* Giving up a broken call *)

LEMMA AbortStatementKeeps ==
    ASSUME CliInv, AbortStatement(Session), UNCHANGED cliVars, IInv' PROVE CliInv'
<1> DEFINE r == run[Session]
<1>1. /\ AbortScript(Session) /\ cursor' = {} /\ rows' = rows /\ cancel' = cancel
      /\ (leaked' # {} => storage'.open)
  BY DEF AbortStatement, Orphaned
<1>2. pc'[Session] = "script"
  BY <1>1, SessionFacts DEF AbortScript
<1>3. r \in Runs /\ Accounted(r) /\ Blamed(r) /\ Located(r) /\ rows \in [Tables -> 0..MaxRows]
  BY SessionFacts
<1>4. PICK q :
         /\ ScriptSound(q) /\ Set(Session, q)
         /\ \/ q.pc \in {"done", "close_late"}
            \/ q.pc = "statement" /\ ~q.allowed
  <2>0. ASSUME r.pc \in Aborting PROVE Index(r) <= Len(r.stmts) /\ Uncancelled(r)
    BY <1>3, <2>0 DEF Located, Begun, Aborting
  <2>1. CASE r.pc = "abort_internal" /\ Set(Session, Aborted(r, TRUE))
    <3>1. Index(r) <= Len(r.stmts) /\ Uncancelled(r)
      BY <2>0, <2>1 DEF Aborting
    <3>2. ScriptSound(Aborted(r, TRUE)) /\ Aborted(r, TRUE).pc = "done"
      BY <1>3, <3>1, AbortedSound
    <3> QED
      BY <2>1, <3>2
  <2>2. CASE r.pc = "abort_error" /\ Set(Session, Failed(r, "execution_error", 0))
    <3>1. Index(r) <= Len(r.stmts) /\ Uncancelled(r)
      BY <2>0, <2>2 DEF Aborting
    <3>2. r.effects[Index(r)] = 0
      BY <1>3, <2>2, <3>1 DEF Located, Untouched
    <3>3. /\ ScriptSound(Failed(r, "execution_error", 0))
          /\ ~Failed(r, "execution_error", 0).allowed
          /\ Failed(r, "execution_error", 0).pc \in {"statement", "done"}
      BY <1>3, <3>1, <3>2, FailedSound
    <3> QED
      BY <2>2, <3>3
  <2>3. CASE r.pc = "abort_malformed" /\ Set(Session, [r EXCEPT !.pc = "close_late"])
    <3> DEFINE q == [r EXCEPT !.pc = "close_late"]
    <3>1. Index(r) <= Len(r.stmts) /\ Uncancelled(r)
      BY <2>0, <2>3 DEF Aborting
    <3>2. Untouched(r)
      BY <1>3, <2>3 DEF Located
    <3>3. q \in Runs
      BY <1>3 DEF Runs, Begun
    <3>4. /\ q.stmts = r.stmts /\ q.effects = r.effects /\ q.results = r.results
          /\ q.error = r.error /\ q.allowed = r.allowed /\ q.pc = "close_late"
      BY <1>3 DEF Runs
    <3> HIDE DEF q
    <3>5. Accounted(q) /\ Uncancelled(q) /\ Blamed(q) /\ Index(q) = Index(r) /\ Untouched(q)
      BY <1>3, <3>1, <3>2, <3>3, <3>4, MovedSound
    <3>6. ScriptSound(q)
      BY <3>1, <3>4, <3>5 DEF ScriptSound, Located, Executing, Scanning, Aborting, Begun
    <3> QED
      BY <2>3, <3>4, <3>6 DEF q
  <2> QED
    BY <2>1, <2>2, <2>3 DEF AbortStatement, At
<1>5. /\ q.pc \notin Aborting \cup Executing \cup Scanning \cup {"none", "write"}
      /\ (q.pc = "statement" => ~q.allowed)
  BY <1>4 DEF Aborting, Executing, Scanning
<1>6. RunFits(q, db'[Session], pc'[Session])
  BY <1>2, <1>5 DEF RunFits
<1>7. r.pc # "none" /\ UNCHANGED <<cliVars, cancel>>
  BY <1>1 DEF AbortStatement, At
<1> QED
  BY <1>1, <1>3, <1>4, <1>5, <1>6, <1>7, RunStep

LEMMA CloseLateKeeps ==
    ASSUME CliInv, CloseLate(Session), UNCHANGED cliVars PROVE CliInv'
<1> DEFINE r == run[Session]
           q == Aborted(r, TRUE)
<1>1. /\ r.pc = "close_late" /\ Set(Session, q)
      /\ UNCHANGED <<lifecycle, rows, cursor, leaked, cancel>>
  BY DEF CloseLate, At
<1>2. /\ Accounted(r) /\ Located(r) /\ RunFits(r, db[Session], pc[Session])
      /\ rows \in [Tables -> 0..MaxRows] /\ (leaked # {} => storage.open)
      /\ (cursor # {} => r.pc \in Scanning \cup Aborting)
  BY <1>1, SessionFacts
<1>3. Index(r) <= Len(r.stmts) /\ Uncancelled(r)
  BY <1>1, <1>2 DEF Located, Begun
<1>4. ScriptSound(q) /\ q.pc = "done"
  BY <1>2, <1>3, AbortedSound
<1>5. pc[Session] = "script" /\ cursor = {}
  BY <1>1, <1>2 DEF RunFits, Aborting, Scanning
<1> HIDE DEF q, r
<1> QED
  BY <1>1, <1>2, <1>4, <1>5, QuietStep DEF r, Aborting, Executing, Scanning

-----------------------------------------------------------------------------
(* CREATE TABLE *)

LEMMA CreatedKeeps ==
    ASSUME CliInv, Created(Session), UNCHANGED cliVars, IInv' PROVE CliInv'
<1> DEFINE r == run[Session]
           e == Effect(r, 1)
           p == Pushed(e, "executed", 0)
           q == IF r.policy.analyze THEN [p EXCEPT !.shadow = db'[Session].catalog] ELSE p
           a == Aborted(p, FALSE)
<1>1. /\ r.pc = "create" /\ CreateTable(Session, Statement(r).table)
      /\ Set(Session, q) \/ Set(Session, a)
      /\ UNCHANGED <<rows, cursor, leaked, cancel>>
  BY DEF Created, At
<1>2. /\ r \in Runs /\ Accounted(r) /\ Blamed(r) /\ Located(r) /\ db' \in [Handles -> Impl]
      /\ rows \in [Tables -> 0..MaxRows] /\ (leaked # {} => storage.open)
      /\ db[Session] \in Impl /\ storage \in Disk /\ db \in [Handles -> Impl]
      /\ Session \in Handles
  BY SessionFacts DEF IInv, TypeOK
<1>3. /\ r.pc # "none" /\ pc[Session] = "script" /\ Index(r) <= Len(r.stmts) /\ r.allowed
      /\ Uncancelled(r) /\ r.effects[Index(r)] = 0 /\ cursor = {} /\ db[Session].open
  BY <1>1, ExecutingFacts DEF Executing, Scanning
<1>4. Statement(r).kind = "create"
  BY <1>1, <1>2 DEF Located
<1>5. /\ Accounted(e) /\ Uncancelled(e) /\ Blamed(e) /\ Index(e) = Index(r)
      /\ e.effects[Index(r)] = 1 /\ e.stmts = r.stmts
  <2>1. e.effects[Index(r)] = r.effects[Index(r)] + 1
    BY <1>2, <1>3, EffectSound
  <2> QED
    BY <1>2, <1>3, <2>1, EffectSound
<1> HIDE DEF e
<1>6. "executed" \in Statuses \ {"cancelled", "skipped", "analysis_only"} /\ e \in Runs
  BY <1>5 DEF Statuses, Accounted
<1>7. /\ p \in Runs /\ p.pc = "statement" /\ p.effects = e.effects /\ p.stmts = e.stmts
      /\ p.results[Index(e)] = Result("executed", 0) /\ p.hits = 0
  BY <1>6, PushedFields
<1>8. Truthful(p, Index(e))
  BY <1>4, <1>5, <1>6, <1>7, ResultTypes DEF Truthful, Statement
<1>9. Accounted(p) /\ Uncancelled(p) /\ Untouched(p) /\ Blamed(p)
  BY <1>3, <1>5, <1>6, <1>8, PushedSound
<1> HIDE DEF p
<1>20. ScriptSound(a) /\ a.pc = "done"
  BY <1>9, AbortedSound
<1> HIDE DEF a
<1>10. /\ q \in Runs /\ q.stmts = p.stmts /\ q.effects = p.effects /\ q.results = p.results
       /\ q.error = p.error /\ q.allowed = p.allowed /\ q.pc = "statement" /\ q.hits = 0
  <2>1. db'[Session].catalog \in SUBSET Tables
    BY <1>2 DEF Impl
  <2>2. [p EXCEPT !.shadow = db'[Session].catalog] \in Runs
    BY <1>7, <2>1 DEF Runs
  <2> QED
    BY <1>7, <2>2 DEF Runs
<1> HIDE DEF q
<1>11. Accounted(q) /\ Uncancelled(q) /\ Untouched(q) /\ Blamed(q)
  BY <1>9, <1>10, MovedSound
<1>12. ScriptSound(q)
  BY <1>10, <1>11 DEF ScriptSound, Located, Begun, Executing, Scanning, Aborting
<1>13. /\ pc' = pc /\ storage'.open = storage.open /\ db'[Session].open
  BY <1>1, <1>2, <1>3 DEF CreateTable, Impl, Disk
<1>14. UNCHANGED <<cliVars, cancel>> /\ cursor' = {} /\ rows' = rows
       /\ (leaked' # {} => storage'.open)
  BY <1>1, <1>2, <1>3, <1>13
<1>15. PICK z \in {q, a} : Set(Session, z)
  BY <1>1
<1>16. ScriptSound(z) /\ z.pc \in {"statement", "done"}
  BY <1>10, <1>12, <1>20
<1> HIDE DEF r
<1>17. z.pc \notin Aborting \cup Executing \cup Scanning \cup {"none", "write"}
  BY <1>16 DEF Aborting, Executing, Scanning
<1>18. RunFits(z, db'[Session], pc'[Session])
  BY <1>3, <1>13, <1>17 DEF RunFits
<1> QED
  BY <1>1, <1>2, <1>3, <1>14, <1>15, <1>16, <1>17, <1>18, RunStep DEF r

LEMMA CreateFailsKeeps ==
    ASSUME CliInv, CreateFails(Session), UNCHANGED cliVars PROVE CliInv'
<1> DEFINE r == run[Session]
<1>1. /\ r.pc = "create" /\ Set(Session, Failed(r, "execution_error", 0))
      /\ UNCHANGED <<lifecycle, rows, cursor, leaked, cancel>>
  BY DEF CreateFails, At
<1>2. Accounted(r) /\ rows \in [Tables -> 0..MaxRows]
  BY SessionFacts
<1>3. /\ Index(r) <= Len(r.stmts) /\ Uncancelled(r) /\ r.effects[Index(r)] = 0 /\ cursor = {}
      /\ r.pc \in Executing
  BY <1>1, ExecutingFacts DEF Executing, Scanning
<1> HIDE DEF r
<1> QED
  BY <1>1, <1>2, <1>3, FailedStep DEF r

LEMMA CreateThrowsKeeps ==
    ASSUME CliInv, CreateThrows(Session), UNCHANGED cliVars, IInv' PROVE CliInv'
<1> DEFINE r == run[Session]
<1>1. /\ r.pc = "create" /\ UNCHANGED <<rows, cursor, leaked>>
  BY DEF CreateThrows, At
<1>2. PICK created \in {{}, {Statement(r).table}} :
         Broken(Session, created, Effect(r, Cardinality(created)), "abort_internal")
  BY DEF CreateThrows
<1>3. Accounted(r) /\ Blamed(r) /\ rows \in [Tables -> 0..MaxRows]
  BY SessionFacts
<1>4. /\ Index(r) <= Len(r.stmts) /\ Uncancelled(r) /\ r.pc \in Executing
      /\ Statement(r).table \in Tables
  BY <1>1, ExecutingFacts DEF Executing
<1>5. Cardinality(created) \in Nat /\ created \in SUBSET Tables
  <2>1. Cardinality({}) = 0 /\ Cardinality({Statement(r).table}) = 1
    BY FS_EmptySet, FS_Singleton
  <2>2. created = {} \/ created = {Statement(r).table}
    OBVIOUS
  <2>3. created \in SUBSET Tables
    BY <1>4
  <2>4. Cardinality(created) = 0 \/ Cardinality(created) = 1
    BY <2>1, <2>2, Zenon
  <2> QED
    BY <2>3, <2>4
<1> DEFINE n == Cardinality(created)
           e == Effect(r, n)
<1>6. /\ Accounted(e) /\ Uncancelled(e) /\ Blamed(e) /\ Index(e) = Index(r)
      /\ e.stmts = r.stmts
  BY <1>3, <1>4, <1>5, EffectSound
<1>7. Broken(Session, created, e, "abort_internal") /\ "abort_internal" \in Aborting
      /\ UNCHANGED <<leaked, cliVars>> /\ rows' = rows
  BY <1>1, <1>2 DEF Aborting
<1>8. Index(e) <= Len(e.stmts)
  BY <1>4, <1>6
<1> HIDE DEF e, r
<1> QED
  BY <1>3, <1>4, <1>5, <1>6, <1>7, <1>8, BrokenStep DEF r

-----------------------------------------------------------------------------
(* The scan *)

(* In a scan no more is found than the table has. *)
LEMMA ScanningFacts ==
    ASSUME CliInv, run[Session].pc \in Scanning
    PROVE  /\ run[Session].pc \in Executing
           /\ Statement(run[Session]).kind \in {"delete", "update", "query"}
           /\ run[Session].left + run[Session].hits <= rows[Statement(run[Session]).table]
<1>1. run[Session].pc \in Executing
  BY DEF Scanning, Executing
<1>2. Statement(run[Session]).kind \in {"delete", "update", "query"}
  BY SessionFacts DEF Located
<1> QED
  BY <1>1, <1>2, SessionFacts DEF RowsFit

(* The scan goes on at p with left records to come. *)
LEMMA ScanStep ==
    ASSUME CliInv, run[Session].pc \in Scanning, NEW p \in Scanning, NEW left \in Nat,
           NEW hits \in Nat, left + hits <= run[Session].left + run[Session].hits,
           Set(Session, [run[Session] EXCEPT !.pc = p, !.left = left, !.hits = hits]),
           UNCHANGED <<lifecycle, rows, cursor, leaked, cancel, cliVars>>
    PROVE  CliInv'
<1> DEFINE r == run[Session]
           q == [r EXCEPT !.pc = p, !.left = left, !.hits = hits]
<1>1. r \in Runs /\ rows \in [Tables -> 0..MaxRows]
  BY SessionFacts
<1>2. /\ r.pc \in Executing /\ Statement(r).kind \in {"delete", "update", "query"}
      /\ r.left + r.hits <= rows[Statement(r).table]
  BY ScanningFacts
<1>3. p \in Executing \ {"create", "open_table", "write"} /\ p \in Begun
  BY DEF Scanning, Executing, Begun
<1>4. q \in Runs
  BY <1>1, <1>3 DEF Runs
<1>5. /\ q.stmts = r.stmts /\ q.effects = r.effects /\ q.results = r.results
      /\ q.error = r.error /\ q.allowed = r.allowed /\ q.pc = p
      /\ q.left = left /\ q.hits = hits
  BY <1>1 DEF Runs
<1>6. Set(Session, q)
  OBVIOUS
<1> HIDE DEF q
<1>7. Statement(q) = Statement(r)
  BY <1>5 DEF Statement, Index
<1>8. q.left + q.hits <= rows[Statement(q).table]
  <2>1. rows[Statement(r).table] \in Nat /\ r.left + r.hits \in Nat
    <3>1. Statement(r).table \in Tables
      BY <1>2, ExecutingFacts
    <3>2. MaxRows \in Nat
      BY SessionFacts
    <3>3. rows[Statement(r).table] \in Nat
      BY <1>1, <3>1, <3>2
    <3>4. r.left \in Nat /\ r.hits \in Nat
      BY <1>1 DEF Runs
    <3> QED
      BY <3>3, <3>4
  <2> QED
    BY <1>2, <1>5, <1>7, <2>1
<1>9. UNCHANGED <<lifecycle, cancel, cliVars, rows, leaked>> /\ cursor' = cursor
  OBVIOUS
<1> HIDE DEF r
<1> QED
  BY <1>2, <1>3, <1>4, <1>5, <1>6, <1>7, <1>8, <1>9, ExecutingStep DEF r

LEMMA OpenTableKeeps ==
    ASSUME CliInv, OpenTable(Session), UNCHANGED cliVars, IInv' PROVE CliInv'
<1> DEFINE r == run[Session]
           t == Statement(r).table
<1>1. r.pc = "open_table" /\ rows' = rows /\ leaked' = leaked
  BY DEF OpenTable, At
<1>2. /\ r \in Runs /\ Accounted(r) /\ Blamed(r) /\ rows \in [Tables -> 0..MaxRows]
      /\ MaxRows \in Nat /\ Located(r)
  BY SessionFacts
<1>3. /\ Index(r) <= Len(r.stmts) /\ Uncancelled(r) /\ r.effects[Index(r)] = 0 /\ cursor = {}
      /\ r.pc \in Executing /\ t \in Tables
  BY <1>1, ExecutingFacts DEF Executing, Scanning
<1>4. Statement(r).kind \in {"delete", "update", "query"} /\ r.hits = 0
  BY <1>1, <1>2 DEF Located
<1>5. CASE /\ cursor' = cursor \cup {t}
           /\ Set(Session, [r EXCEPT !.pc = "scan", !.left = rows[t]])
           /\ UNCHANGED <<lifecycle, cancel>>
  <2> DEFINE q == [r EXCEPT !.pc = "scan", !.left = rows[t]]
  <2>1. rows[t] \in Nat
    BY <1>2, <1>3
  <2>2. q \in Runs
    BY <1>2, <2>1 DEF Runs, Begun, Executing
  <2>3. /\ q.stmts = r.stmts /\ q.effects = r.effects /\ q.results = r.results
        /\ q.error = r.error /\ q.allowed = r.allowed /\ q.pc = "scan"
        /\ q.left = rows[t] /\ q.hits = r.hits
    BY <1>2 DEF Runs
  <2>4. Set(Session, q)
    BY <1>5
  <2> HIDE DEF q
  <2>5. Statement(q) = Statement(r)
    BY <2>3 DEF Statement, Index
  <2>6. q.left + q.hits <= rows[Statement(q).table]
    BY <1>4, <2>1, <2>3, <2>5
  <2>7. "scan" \in Executing \ {"create", "open_table", "write"} /\ "scan" \in Scanning
    BY DEF Executing, Scanning
  <2> QED
    BY <1>1, <1>3, <1>4, <1>5, <2>2, <2>3, <2>4, <2>5, <2>6, <2>7, ExecutingStep
<1>6. CASE /\ Set(Session, Failed(r, "execution_error", 0))
           /\ UNCHANGED <<lifecycle, cursor, cancel>>
  <2> HIDE DEF r
  <2> QED
    BY <1>1, <1>2, <1>3, <1>6, FailedStep DEF r
<1>7. CASE Broken(Session, {}, r, "abort_internal")
  <2>1. {} \in SUBSET Tables /\ "abort_internal" \in Aborting
        /\ UNCHANGED <<leaked, cliVars>>
    BY <1>1 DEF Aborting
  <2> HIDE DEF r
  <2> QED
    BY <1>1, <1>2, <1>3, <1>7, <2>1, BrokenStep DEF r
<1> QED
  BY <1>5, <1>6, <1>7 DEF OpenTable

LEMMA CancelScanKeeps ==
    ASSUME CliInv, CancelScan(Session), UNCHANGED cliVars PROVE CliInv'
<1> DEFINE r == run[Session]
<1>1. /\ r.pc \in Scanning /\ Set(Session, [r EXCEPT !.pc = "close_cancelled"])
      /\ UNCHANGED <<lifecycle, rows, cursor, leaked, cancel, cliVars>>
  BY DEF CancelScan, At, Scanning
<1>2. r \in Runs
  BY SessionFacts
<1>3. [r EXCEPT !.pc = "close_cancelled"] =
         [r EXCEPT !.pc = "close_cancelled", !.left = r.left, !.hits = r.hits]
  BY <1>2 DEF Runs
<1>4. r.left \in Nat /\ r.hits \in Nat /\ r.left + r.hits <= r.left + r.hits
      /\ "close_cancelled" \in Scanning
  BY <1>2 DEF Runs, Scanning
<1> QED
  BY <1>1, <1>3, <1>4, ScanStep

LEMMA ScanRecordKeeps ==
    ASSUME CliInv, ScanRecord(Session), UNCHANGED cliVars PROVE CliInv'
<1> DEFINE r == run[Session]
<1>1. /\ r.pc = "scan" /\ r.pc \in Scanning /\ r.left > 0
      /\ UNCHANGED <<lifecycle, rows, cursor, leaked, cancel, cliVars>>
  BY DEF ScanRecord, At, Scanning
<1>2. r \in Runs
  BY SessionFacts
<1>3. r.left \in Nat /\ r.hits \in Nat
  BY <1>2 DEF Runs
<1>4. r.left - 1 \in Nat /\ r.hits + 1 \in Nat /\ "close_failed" \in Scanning /\ "scan" \in Scanning
      /\ r.left - 1 + r.hits <= r.left + r.hits /\ r.left - 1 + (r.hits + 1) <= r.left + r.hits
      /\ r.left + r.hits <= r.left + r.hits
  BY <1>1, <1>3 DEF Scanning
<1>5. CASE Set(Session, [r EXCEPT !.left = @ - 1])
  <2>1. [r EXCEPT !.left = @ - 1] = [r EXCEPT !.pc = "scan", !.left = r.left - 1, !.hits = r.hits]
    BY <1>1, <1>2 DEF Runs
  <2> QED
    BY <1>1, <1>3, <1>4, <1>5, <2>1, ScanStep
<1>6. CASE Set(Session, [r EXCEPT !.left = @ - 1, !.hits = @ + 1])
  <2>1. [r EXCEPT !.left = @ - 1, !.hits = @ + 1] =
           [r EXCEPT !.pc = "scan", !.left = r.left - 1, !.hits = r.hits + 1]
    BY <1>1, <1>2 DEF Runs
  <2> QED
    BY <1>1, <1>4, <1>6, <2>1, ScanStep
<1>7. CASE Set(Session, [r EXCEPT !.pc = "close_failed"])
  <2>1. [r EXCEPT !.pc = "close_failed"] =
           [r EXCEPT !.pc = "close_failed", !.left = r.left, !.hits = r.hits]
    BY <1>1, <1>2 DEF Runs
  <2> QED
    BY <1>1, <1>3, <1>4, <1>7, <2>1, ScanStep
<1> QED
  BY <1>5, <1>6, <1>7 DEF ScanRecord

LEMMA ScanEndKeeps ==
    ASSUME CliInv, ScanEnd(Session) \/ ScanFails(Session), UNCHANGED cliVars PROVE CliInv'
<1> DEFINE r == run[Session]
<1>1. PICK p \in {"close_cursor", "close_failed", "close_broken"} :
         Set(Session, [r EXCEPT !.pc = p])
  BY DEF ScanEnd, ScanFails
<1>2. /\ r.pc \in Scanning
      /\ UNCHANGED <<lifecycle, rows, cursor, leaked, cancel, cliVars>>
  BY DEF ScanEnd, ScanFails, At, Scanning
<1>3. r \in Runs
  BY SessionFacts
<1>4. [r EXCEPT !.pc = p] = [r EXCEPT !.pc = p, !.left = r.left, !.hits = r.hits]
  BY <1>3 DEF Runs
<1>5. r.left \in Nat /\ r.hits \in Nat /\ r.left + r.hits <= r.left + r.hits
      /\ p \in Scanning
  BY <1>3 DEF Runs, Scanning
<1> QED
  BY <1>1, <1>2, <1>4, <1>5, ScanStep

LEMMA ScanMalformedKeeps ==
    ASSUME CliInv, ScanMalformed(Session), UNCHANGED cliVars, IInv' PROVE CliInv'
<1> DEFINE r == run[Session]
<1>1. /\ r.pc \in Executing /\ UNCHANGED <<leaked, cliVars>> /\ rows' = rows
      /\ Broken(Session, {}, r, "abort_malformed")
  BY DEF ScanMalformed, At, Executing
<1>2. Accounted(r) /\ Blamed(r) /\ rows \in [Tables -> 0..MaxRows]
  BY SessionFacts
<1>3. /\ Index(r) <= Len(r.stmts) /\ Uncancelled(r) /\ r.effects[Index(r)] = 0
  BY <1>1, ExecutingFacts
<1>4. {} \in SUBSET Tables /\ "abort_malformed" \in Aborting
  BY DEF Aborting
<1> HIDE DEF r
<1> QED
  BY <1>1, <1>2, <1>3, <1>4, BrokenStep DEF r

-----------------------------------------------------------------------------
(* Closing the cursor *)

LEMMA CloseCancelledKeeps ==
    ASSUME CliInv, CloseCancelled(Session), UNCHANGED cliVars PROVE CliInv'
<1> DEFINE r == run[Session]
           q == Filled(r, "cancelled")
<1>1. /\ r.pc \in Executing /\ cursor' = {} /\ Set(Session, q)
      /\ UNCHANGED <<lifecycle, cancel, cliVars>> /\ rows' = rows
  BY DEF CloseCancelled, CursorAfterCancel, At, Executing
<1>2. r \in Runs /\ Accounted(r) /\ Blamed(r) /\ rows \in [Tables -> 0..MaxRows]
  BY SessionFacts
<1>3. /\ r.pc # "none" /\ pc[Session] = "script" /\ storage.open /\ Uncancelled(r)
      /\ r.effects[Index(r)] = 0
  BY <1>1, ExecutingFacts
<1>4. ScriptSound(q)
  BY <1>2, <1>3, FilledSound DEF ScriptSound, Untouched
<1>5. q.pc = "done"
  BY <1>2, FilledFields DEF Accounted, Statuses
<1> HIDE DEF q, r
<1> QED
  BY <1>1, <1>2, <1>3, <1>4, <1>5, QuietStep DEF r, Aborting, Executing, Scanning

LEMMA CloseFailedKeeps ==
    ASSUME CliInv, CloseFailed(Session), UNCHANGED cliVars, IInv' PROVE CliInv'
<1> DEFINE r == run[Session]
<1>1. r.pc \in Executing /\ rows' = rows
  BY DEF CloseFailed, At, Executing
<1>2. Accounted(r) /\ Blamed(r) /\ rows \in [Tables -> 0..MaxRows]
  BY SessionFacts
<1>3. Index(r) <= Len(r.stmts) /\ Uncancelled(r) /\ r.effects[Index(r)] = 0
  BY <1>1, ExecutingFacts
<1>4. CASE /\ cursor' = {} /\ Set(Session, Failed(r, "execution_error", 0))
           /\ UNCHANGED <<lifecycle, cancel>>
  <2> HIDE DEF r
  <2> QED
    BY <1>1, <1>2, <1>3, <1>4, FailedStep DEF r
<1>5. CASE Broken(Session, {}, r, "abort_error") /\ UNCHANGED <<cursor, leaked>>
  <2>1. {} \in SUBSET Tables /\ "abort_error" \in Aborting /\ UNCHANGED <<leaked, cliVars>>
    BY <1>5 DEF Aborting
  <2> HIDE DEF r
  <2> QED
    BY <1>1, <1>2, <1>3, <1>5, <2>1, BrokenStep DEF r
<1> QED
  BY <1>4, <1>5 DEF CloseFailed

LEMMA CloseBrokenKeeps ==
    ASSUME CliInv, CloseBroken(Session), UNCHANGED cliVars, IInv' PROVE CliInv'
<1> DEFINE r == run[Session]
<1>1. /\ r.pc \in Executing /\ rows' = rows /\ UNCHANGED <<leaked, cliVars>>
      /\ Broken(Session, {}, r, "abort_internal")
  BY DEF CloseBroken, At, Executing
<1>2. Accounted(r) /\ Blamed(r) /\ rows \in [Tables -> 0..MaxRows]
  BY SessionFacts
<1>3. Index(r) <= Len(r.stmts) /\ Uncancelled(r)
  BY <1>1, ExecutingFacts
<1>4. {} \in SUBSET Tables /\ "abort_internal" \in Aborting
  BY DEF Aborting
<1> HIDE DEF r
<1> QED
  BY <1>1, <1>2, <1>3, <1>4, BrokenStep DEF r

LEMMA CloseCursorKeeps ==
    ASSUME CliInv, CloseCursor(Session), UNCHANGED cliVars, IInv' PROVE CliInv'
<1> DEFINE r == run[Session]
<1>1. r.pc \in Scanning /\ rows' = rows
  BY DEF CloseCursor, At, Scanning
<1>2. /\ r.pc \in Executing /\ Statement(r).kind \in {"delete", "update", "query"}
      /\ r.left + r.hits <= rows[Statement(r).table]
  BY <1>1, ScanningFacts
<1>3. r \in Runs /\ Accounted(r) /\ Blamed(r) /\ rows \in [Tables -> 0..MaxRows]
  BY SessionFacts
<1>4. Index(r) <= Len(r.stmts) /\ Uncancelled(r) /\ r.effects[Index(r)] = 0 /\ r.allowed
  BY <1>2, ExecutingFacts
<1>5. CASE /\ IsQuery(r) /\ Set(Session, Pushed(r, "executed", r.hits))
           /\ cursor' = {} /\ UNCHANGED <<lifecycle, leaked, cancel>>
  <2>1. Statement(r).kind = "query" /\ r.hits \in Nat
    BY <1>3, <1>5 DEF IsQuery, Runs
  <2>2. UNCHANGED <<lifecycle, cancel, cliVars>> /\ leaked' = leaked
    BY <1>5
  <2> HIDE DEF r
  <2> QED
    BY <1>1, <1>2, <1>3, <1>4, <1>5, <2>1, <2>2, ExecutedStep DEF r
<1>6. CASE /\ ~IsQuery(r) /\ Set(Session, [r EXCEPT !.pc = "write"])
           /\ cursor' = {} /\ UNCHANGED <<lifecycle, leaked, cancel>>
  <2> DEFINE q == [r EXCEPT !.pc = "write"]
  <2>1. q \in Runs
    BY <1>3 DEF Runs, Begun, Executing
  <2>2. /\ q.stmts = r.stmts /\ q.effects = r.effects /\ q.results = r.results
        /\ q.error = r.error /\ q.allowed = r.allowed /\ q.pc = "write"
        /\ q.left = r.left /\ q.hits = r.hits
    BY <1>3 DEF Runs
  <2>3. Set(Session, q)
    BY <1>6
  <2> HIDE DEF q
  <2>4. Statement(q) = Statement(r)
    BY <2>2 DEF Statement, Index
  <2>5. Statement(r).kind \in {"delete", "update"}
    BY <1>2, <1>6 DEF IsQuery
  <2>6. "write" \in Executing \ {"create", "open_table"} /\ "write" \notin Scanning
    BY DEF Executing, Scanning
  <2>7. UNCHANGED <<lifecycle, cancel, cliVars, rows, leaked>> /\ cursor' = {}
    BY <1>1, <1>6
  <2> HIDE DEF r
  <2> QED
    BY <1>2, <2>1, <2>2, <2>3, <2>4, <2>5, <2>6, <2>7, ExecutingStep DEF r
<1>7. CASE /\ cursor' = {} /\ Set(Session, Failed(r, "execution_error", 0))
           /\ UNCHANGED <<lifecycle, cancel>>
  <2> HIDE DEF r
  <2> QED
    BY <1>1, <1>2, <1>3, <1>4, <1>7, FailedStep DEF r
<1>8. CASE Broken(Session, {}, r, "abort_internal") /\ UNCHANGED <<cursor, leaked>>
  <2>1. {} \in SUBSET Tables /\ "abort_internal" \in Aborting /\ UNCHANGED <<leaked, cliVars>>
    BY <1>8 DEF Aborting
  <2> HIDE DEF r
  <2> QED
    BY <1>1, <1>2, <1>3, <1>4, <1>8, <2>1, BrokenStep DEF r
<1> QED
  BY <1>5, <1>6, <1>7, <1>8 DEF CloseCursor

-----------------------------------------------------------------------------
(* The write *)

(* Room and hits keep the number of rows in its range. *)
LEMMA WriteFacts ==
    ASSUME CliInv, run[Session].pc = "write", NEW n \in Nat,
           n <= Batch(run[Session]), n <= Room(run[Session])
    PROVE  /\ RowsAfter(run[Session], n) \in [Tables -> 0..MaxRows]
           /\ run[Session].pc \in Executing /\ Batch(run[Session]) \in Nat
           /\ Accounted(Effect(run[Session], n)) /\ Uncancelled(Effect(run[Session], n))
           /\ Blamed(Effect(run[Session], n)) /\ Effect(run[Session], n).allowed
           /\ Index(Effect(run[Session], n)) <= Len(Effect(run[Session], n).stmts)
           /\ Effect(run[Session], n).effects[Index(Effect(run[Session], n))] = n
           /\ Statement(Effect(run[Session], n)).kind \notin {"create", "query"}
           /\ cursor = {}
<1> DEFINE r == run[Session]
           e == Effect(r, n)
           t == Statement(r).table
           kind == Statement(r).kind
<1>1. /\ r \in Runs /\ Accounted(r) /\ Blamed(r) /\ Located(r) /\ rows \in [Tables -> 0..MaxRows]
      /\ RowsFit(r) /\ BatchRows \in Nat /\ MaxRows \in Nat
  BY SessionFacts
<1>2. r.pc \in Executing
  BY DEF Executing
<1>3. /\ Index(r) <= Len(r.stmts) /\ Uncancelled(r) /\ r.effects[Index(r)] = 0 /\ r.allowed
      /\ t \in Tables /\ cursor = {}
  BY <1>2, ExecutingFacts DEF Scanning
<1>4. kind \in {"insert", "delete", "update"}
  BY <1>1 DEF Located
<1>5. r.left \in Nat /\ r.hits \in Nat /\ rows[t] \in 0..MaxRows
  BY <1>1, <1>3 DEF Runs
<1>6. Batch(r) \in Nat
  BY <1>1, <1>5 DEF Batch
<1>7. RowsAfter(r, n) \in [Tables -> 0..MaxRows]
  <2>1. CASE kind = "insert"
    <3>1. n = 0 \/ n <= MaxRows - rows[t]
      BY <1>1, <1>5, <2>1 DEF Room
    <3>2. rows[t] + n \in 0..MaxRows
      BY <1>1, <1>5, <3>1
    <3>3. RowsAfter(r, n) = [rows EXCEPT ![t] = rows[t] + n]
      BY <2>1 DEF RowsAfter
    <3> QED
      BY <1>1, <3>2, <3>3
  <2>2. CASE kind = "delete"
    <3>1. r.left + r.hits <= rows[t] /\ n <= r.hits
      BY <1>1, <2>2 DEF RowsFit, Batch
    <3>2. rows[t] - n \in 0..MaxRows
      BY <1>1, <1>5, <3>1
    <3>3. RowsAfter(r, n) = [rows EXCEPT ![t] = rows[t] - n]
      BY <2>2 DEF RowsAfter
    <3> QED
      BY <1>1, <3>2, <3>3
  <2>3. CASE kind = "update"
    <3>1. RowsAfter(r, n) = [rows EXCEPT ![t] = rows[t]]
      BY <2>3 DEF RowsAfter
    <3> QED
      BY <1>1, <3>1
  <2> QED
    BY <1>4, <2>1, <2>2, <2>3
<1>8. /\ Accounted(e) /\ Uncancelled(e) /\ Blamed(e) /\ e.allowed = r.allowed
      /\ Index(e) = Index(r) /\ e.stmts = r.stmts
      /\ e.effects[Index(r)] = r.effects[Index(r)] + n
  BY <1>1, <1>3, EffectSound
<1> HIDE DEF e
<1>9. Statement(e) = Statement(r) /\ e.effects[Index(e)] = n
  BY <1>3, <1>8 DEF Statement
<1> QED
  BY <1>2, <1>3, <1>4, <1>6, <1>7, <1>8, <1>9 DEF e

LEMMA WrittenKeeps ==
    ASSUME CliInv, Written(Session), UNCHANGED cliVars PROVE CliInv'
<1> DEFINE r == run[Session]
           n == Batch(r)
           e == Effect(r, n)
<1>1. /\ r.pc = "write" /\ n <= Room(r) /\ rows' = RowsAfter(r, n)
      /\ Set(Session, Pushed(e, "executed", n))
      /\ UNCHANGED <<lifecycle, cancel, cliVars>> /\ cursor' = cursor /\ leaked' = leaked
  BY DEF Written, At
<1>2. n \in Nat /\ n <= n
  BY SessionFacts DEF Batch, Runs
<1>3. /\ rows' \in [Tables -> 0..MaxRows] /\ r.pc \in Executing
      /\ Accounted(e) /\ Uncancelled(e) /\ Blamed(e) /\ e.allowed
      /\ Index(e) <= Len(e.stmts) /\ e.effects[Index(e)] = n
      /\ Statement(e).kind \notin {"create", "query"} /\ cursor = {}
  BY <1>1, <1>2, WriteFacts
<1> HIDE DEF e, n, r
<1> QED
  BY <1>1, <1>2, <1>3, ExecutedStep DEF r

LEMMA WriteFailsKeeps ==
    ASSUME CliInv, WriteFails(Session), UNCHANGED cliVars PROVE CliInv'
<1> DEFINE r == run[Session]
<1>1. /\ r.pc = "write"
      /\ UNCHANGED <<lifecycle, cancel, cliVars>> /\ cursor' = cursor /\ leaked' = leaked
  BY DEF WriteFails, At
<1>2. PICK n \in 0..BatchRows + MaxRows :
         /\ n < Batch(r) /\ n <= Room(r) /\ rows' = RowsAfter(r, n)
         /\ Set(Session, Failed(Effect(r, n), "execution_error", n))
  BY DEF WriteFails, Reported
<1>3. n \in Nat /\ n <= Batch(r)
  <2>1. Batch(r) \in Nat /\ BatchRows + MaxRows \in Nat
    BY SessionFacts DEF Batch, Runs
  <2> QED
    BY <1>2, <2>1
<1> DEFINE e == Effect(r, n)
<1>4. /\ rows' \in [Tables -> 0..MaxRows] /\ r.pc \in Executing
      /\ Accounted(e) /\ Uncancelled(e) /\ Index(e) <= Len(e.stmts)
      /\ e.effects[Index(e)] = n /\ cursor = {}
  BY <1>1, <1>2, <1>3, WriteFacts
<1> HIDE DEF e, r
<1>5. Set(Session, Failed(e, "execution_error", n))
  BY <1>2 DEF e
<1> QED
  BY <1>1, <1>3, <1>4, <1>5, FailedStep DEF r

LEMMA WriteThrowsKeeps ==
    ASSUME CliInv, WriteThrows(Session), UNCHANGED cliVars, IInv' PROVE CliInv'
<1> DEFINE r == run[Session]
<1>1. r.pc = "write" /\ UNCHANGED <<leaked, cliVars>>
  BY DEF WriteThrows, At
<1>2. PICK n \in 0..MaxRows :
         /\ n <= Batch(r) /\ n <= Room(r) /\ rows' = RowsAfter(r, n)
         /\ Broken(Session, {}, Effect(r, n), "abort_internal")
  BY DEF WriteThrows
<1>3. n \in Nat
  BY <1>2, SessionFacts
<1> DEFINE e == Effect(r, n)
<1>4. /\ rows' \in [Tables -> 0..MaxRows] /\ r.pc \in Executing
      /\ Accounted(e) /\ Uncancelled(e) /\ Blamed(e) /\ Index(e) <= Len(e.stmts)
  BY <1>1, <1>2, <1>3, WriteFacts
<1>5. {} \in SUBSET Tables /\ "abort_internal" \in Aborting
  BY DEF Aborting
<1> HIDE DEF e, r
<1>6. Broken(Session, {}, e, "abort_internal")
  BY <1>2 DEF e
<1> QED
  BY <1>1, <1>4, <1>5, <1>6, BrokenStep DEF r

-----------------------------------------------------------------------------
(* Every step of the script *)

(* To the lifecycle a step of the script is one of its own, or none. *)
LEMMA ScriptStepIsNext == ASSUME CliInv, ScriptStep(Session) PROVE [Next]_lifecycle
<1>0. Session \in Handles
  BY SessionAssumption
<1>1. ASSUME NEW created \in {{}} \cup {{t} : t \in Tables}, StorageException(Session, created)
      PROVE  Next
  BY <1>0, <1>1 DEF Next
<1>2. ASSUME StorageException(Session, {}) PROVE Next
  BY <1>1, <1>2
<1>3. CASE AbortStatement(Session)
  BY <1>0, <1>3 DEF AbortStatement, Next
<1>4. ASSUME run[Session].pc = "create" PROVE Statement(run[Session]).table \in Tables
  BY <1>4, ExecutingFacts DEF Executing
<1>5. CASE Created(Session)
  <2>1. CreateTable(Session, Statement(run[Session]).table)
    BY <1>5 DEF Created
  <2> QED
    BY <1>0, <1>4, <1>5, <2>1 DEF Next, Created, At
<1>6. CASE CreateThrows(Session)
  <2>1. PICK created \in {{}, {Statement(run[Session]).table}} :
           StorageException(Session, created)
    BY <1>6 DEF CreateThrows, Broken
  <2>2. created \in {{}} \cup {{t} : t \in Tables}
    BY <1>4, <1>6 DEF CreateThrows, At
  <2> QED
    BY <1>1, <2>1, <2>2
<1>7. CASE \/ OpenTable(Session) \/ ScanMalformed(Session) \/ CloseFailed(Session)
           \/ CloseBroken(Session) \/ CloseCursor(Session) \/ WriteThrows(Session)
  <2>1. UNCHANGED lifecycle \/ StorageException(Session, {})
    BY <1>7 DEF OpenTable, ScanMalformed, CloseFailed, CloseBroken, CloseCursor, WriteThrows,
                Broken
  <2> QED
    BY <1>2, <2>1
<1>8. CASE \/ FinishScript(Session) \/ CancelAtStatement(Session) \/ CompileError(Session)
           \/ CompilerBreaks(Session) \/ RenderPlan(Session) \/ Analyze(Session)
           \/ RejectDdl(Session)
           \/ Execute(Session) \/ CloseLate(Session) \/ CreateFails(Session)
           \/ CancelScan(Session) \/ ScanRecord(Session) \/ ScanEnd(Session)
           \/ ScanFails(Session) \/ CloseCancelled(Session) \/ Written(Session)
           \/ WriteFails(Session)
  BY <1>8 DEF FinishScript, CancelAtStatement, CompileError, CompilerBreaks, RenderPlan,
     Analyze, RejectDdl, Execute, CloseLate, CreateFails, CancelScan, ScanRecord, ScanEnd, ScanFails,
     CloseCancelled, Written, WriteFails
<1> QED
  BY <1>3, <1>5, <1>6, <1>7, <1>8 DEF ScriptStep

LEMMA ScriptStepKeeps ==
    ASSUME CliInv, ScriptStep(Session), UNCHANGED cliVars PROVE CliInv'
<1>1. IInv'
  BY ScriptStepIsNext, NextKeepsIInv DEF CliInv
<1>2. CASE \/ FinishScript(Session) \/ CancelAtStatement(Session) \/ CompileError(Session)
           \/ CompilerBreaks(Session) \/ RenderPlan(Session) \/ Analyze(Session)
           \/ RejectDdl(Session)
           \/ Execute(Session) \/ AbortStatement(Session) \/ CloseLate(Session)
  BY <1>1, <1>2, FinishScriptKeeps, CancelAtStatementKeeps, CompileErrorKeeps,
     CompilerBreaksKeeps, RenderPlanKeeps, AnalyzeKeeps, RejectDdlKeeps, ExecuteKeeps,
     AbortStatementKeeps, CloseLateKeeps
<1>3. CASE \/ Created(Session) \/ CreateFails(Session) \/ CreateThrows(Session)
           \/ OpenTable(Session) \/ CancelScan(Session) \/ ScanRecord(Session)
           \/ ScanEnd(Session) \/ ScanFails(Session) \/ ScanMalformed(Session)
  BY <1>1, <1>3, CreatedKeeps, CreateFailsKeeps, CreateThrowsKeeps, OpenTableKeeps,
     CancelScanKeeps, ScanRecordKeeps, ScanEndKeeps, ScanMalformedKeeps
<1>4. CASE \/ CloseCancelled(Session) \/ CloseFailed(Session) \/ CloseBroken(Session)
           \/ CloseCursor(Session) \/ Written(Session) \/ WriteFails(Session)
           \/ WriteThrows(Session)
  BY <1>1, <1>4, CloseCancelledKeeps, CloseFailedKeeps, CloseBrokenKeeps, CloseCursorKeeps,
     WrittenKeeps, WriteFailsKeeps, WriteThrowsKeeps
<1> QED
  BY <1>2, <1>3, <1>4 DEF ScriptStep

-----------------------------------------------------------------------------
(* Steps of the command line *)

(* No script, or one that has just begun. *)
LEMMA BeginningSound ==
    ASSUME NEW r \in Runs, r.results = <<>>, r.effects \in [1..Len(r.stmts) -> Nat],
           \A i \in 1..Len(r.stmts) : r.effects[i] = 0,
           r.pc \in {"none", "statement", "done"}, r.pc = "done" => Len(r.stmts) = 0,
           r.allowed, r.hits = 0
    PROVE  ScriptSound(r)
<1>1. Len(r.results) = 0 /\ Len(r.stmts) \in Nat /\ Index(r) = 1
  BY LengthTypes
<1>2. Uncancelled(r) /\ Untouched(r) /\ Blamed(r)
  BY <1>1 DEF Uncancelled, Untouched, Blamed
<1>3. Accounted(r)
  BY <1>1 DEF Accounted
<1>4. Located(r)
  BY <1>1, <1>2 DEF Located, Begun, Executing, Scanning, Aborting
<1> QED
  BY <1>2, <1>3, <1>4 DEF ScriptSound

LEMMA NoScriptSound == NoScript \in Runs /\ ScriptSound(NoScript) /\ NoScript.pc = "none"
<1>1. /\ NoScript.results = <<>> /\ NoScript.stmts = <<>> /\ NoScript.effects = <<>>
      /\ NoScript.pc = "none" /\ NoScript.allowed /\ NoScript.hits = 0
  BY DEF NoScript
<1>2. <<>> \in Seq(Statements) /\ <<>> \in Seq(Outcomes) /\ Len(<<>>) = 0
  OBVIOUS
<1>3. <<>> \in [1..0 -> Nat]
  OBVIOUS
<1>4. <<>> \in Counts
  BY <1>3 DEF Counts
<1>5. NoScript \in Runs
  BY <1>2, <1>4 DEF NoScript, Runs
<1>6. ScriptSound(NoScript)
  <2>1. Len(NoScript.stmts) = 0
    BY <1>1, <1>2
  <2>2. NoScript.effects \in [1..Len(NoScript.stmts) -> Nat]
    BY <1>1, <1>3, <2>1
  <2>3. \A i \in 1..Len(NoScript.stmts) : NoScript.effects[i] = 0
    BY <2>1
  <2> QED
    BY <1>1, <1>5, <2>2, <2>3, BeginningSound
<1> QED
  BY <1>1, <1>5, <1>6

(* No script before, and none after. *)
LEMMA AwayStep ==
    ASSUME CliInv, cli.pc # "executing", cli'.pc # "executing", IInv', CliTypeOK', ExitInv',
           TokenInv', pc'[Session] \notin {"script", "abort"}, UNCHANGED <<run, rows, cursor>>,
           leaked' # {} => storage'.open
    PROVE  CliInv'
<1>1. RunInv'
  BY DEF CliInv, RunInv
<1>2. CursorInv' /\ RowsInv'
  BY DEF CliInv, CursorInv, RowsInv, RowsFit
<1> QED
  BY <1>1, <1>2 DEF CliInv

LEMMA AwayFacts ==
    ASSUME CliInv, cli.pc # "executing"
    PROVE  /\ run[Session] = NoScript /\ pc[Session] \notin {"script", "abort"}
           /\ cursor = {} /\ (leaked # {} => storage.open) /\ Session \in Handles
<1>1. run[Session] = NoScript /\ pc[Session] \notin {"script", "abort"}
  BY DEF CliInv, RunInv
<1> QED
  BY <1>1, NoScriptSound, SessionFacts DEF Scanning, Aborting

(* What a step of one object's lifecycle is to all of them. *)
LEMMA LifecycleKeepsIInv == ASSUME IInv, NEW h \in Handles, Lifecycle(h) PROVE IInv'
BY NextKeepsIInv DEF Next

LEMMA CliOpenKeeps == ASSUME CliInv, CliOpen PROVE CliInv'
<1>1. /\ cli.pc = "start" /\ UNCHANGED <<run, rows, cursor>> /\ leaked' = leaked
      /\ cancel' = cancel /\ active' = active /\ signalled' = signalled
  BY DEF CliOpen, At_, progress
<1>2. /\ pc[Session] \notin {"script", "abort"} /\ (leaked # {} => storage.open)
      /\ Session \in Handles
  BY <1>1, AwayFacts
<1>3. CliTypeOK /\ ExitInv /\ TokenInv /\ IInv
  BY DEF CliInv
<1>4. CASE open(Session) /\ Goto("opening")
  <2>1. IInv'
    BY <1>2, <1>3, <1>4, LifecycleKeepsIInv DEF Lifecycle
  <2>2. pc'[Session] = "open_storage" /\ storage' = storage
    BY <1>4, SessionFacts DEF open
  <2>3. /\ cli'.pc = "opening" /\ cli'.code = cli.code /\ cli'.whole = cli.whole
        /\ cli'.failed = cli.failed /\ CliTypeOK'
    BY <1>1, <1>3, <1>4 DEF Goto, CliTypeOK, CliPcs
  <2>4. ExitInv' /\ TokenInv'
    BY <1>1, <1>3, <2>3 DEF ExitInv, TokenInv
  <2> QED
    BY <1>1, <1>2, <2>1, <2>2, <2>3, <2>4, AwayStep
<1>5. CASE cli' = [cli EXCEPT !.pc = "discard", !.code = 1] /\ UNCHANGED lifecycle
  <2>1. IInv' /\ pc' = pc /\ storage' = storage
    BY <1>3, <1>5, NextKeepsIInv DEF lifecycle
  <2>2. /\ cli'.pc = "discard" /\ cli'.code = 1 /\ cli'.whole = cli.whole
        /\ cli'.failed = cli.failed /\ CliTypeOK'
    BY <1>1, <1>3, <1>5 DEF CliTypeOK, CliPcs
  <2>3. ExitInv' /\ TokenInv'
    BY <1>1, <1>3, <2>2 DEF ExitInv, TokenInv
  <2> QED
    BY <1>1, <1>2, <2>1, <2>2, <2>3, AwayStep
<1> QED
  BY <1>4, <1>5 DEF CliOpen

(* Steps of run_cli between two calls, to another place outside a script. *)
LEMMA CliLocalStep ==
    ASSUME CliInv, cli.pc # "executing", cli'.pc # "executing", UNCHANGED vars,
           CliTypeOK', ExitInv', TokenInv'
    PROVE  CliInv'
<1>1. /\ UNCHANGED lifecycle /\ UNCHANGED <<run, rows, cursor>> /\ leaked' = leaked
  BY DEF vars, progress
<1>2. IInv' /\ pc' = pc /\ storage' = storage
  BY <1>1, NextKeepsIInv DEF CliInv, lifecycle
<1> QED
  BY <1>1, <1>2, AwayFacts, AwayStep

LEMMA CliOpenedKeeps == ASSUME CliInv, CliOpened PROVE CliInv'
<1>1. /\ cli.pc = "opening" /\ UNCHANGED vars /\ active' = active /\ signalled' = signalled
      /\ cancel' = cancel
  BY DEF CliOpened, At_, vars, progress
<1>2. CliTypeOK /\ ExitInv /\ TokenInv
  BY DEF CliInv
<1>3. /\ cli'.pc \in {"prompt", "discard"} /\ cli'.code # 0 /\ cli'.whole = cli.whole
      /\ cli'.failed = cli.failed /\ CliTypeOK'
  <2>1. cli.code # 0
    BY <1>1, <1>2 DEF ExitInv
  <2>2. \/ cli' = [cli EXCEPT !.pc = "prompt"]
        \/ cli' = [cli EXCEPT !.pc = "discard", !.code = 1]
    BY DEF CliOpened, Goto
  <2>3. CASE cli' = [cli EXCEPT !.pc = "prompt"]
    <3>1. /\ cli'.pc = "prompt" /\ cli'.code = cli.code /\ cli'.whole = cli.whole
          /\ cli'.failed = cli.failed
      BY <1>2, <2>3 DEF CliTypeOK
    <3>2. CliTypeOK'
      BY <1>1, <1>2, <2>3 DEF CliTypeOK, CliPcs
    <3> QED
      BY <2>1, <3>1, <3>2
  <2>4. CASE cli' = [cli EXCEPT !.pc = "discard", !.code = 1]
    <3>1. /\ cli'.pc = "discard" /\ cli'.code = 1 /\ cli'.whole = cli.whole
          /\ cli'.failed = cli.failed
      BY <1>2, <2>4 DEF CliTypeOK
    <3>2. CliTypeOK'
      BY <1>1, <1>2, <2>4 DEF CliTypeOK, CliPcs
    <3> QED
      BY <3>1, <3>2
  <2> QED
    BY <2>2, <2>3, <2>4
<1>4. ExitInv' /\ TokenInv'
  BY <1>1, <1>2, <1>3 DEF ExitInv, TokenInv
<1> QED
  BY <1>1, <1>3, <1>4, CliLocalStep

LEMMA CliLineKeeps == ASSUME CliInv, CliLine PROVE CliInv'
<1>1. /\ cli.pc = "prompt" /\ UNCHANGED lifecycle /\ UNCHANGED <<run, rows, cursor>>
      /\ leaked' = leaked /\ active' = TRUE /\ signalled' = FALSE
      /\ cancel' = [cancel EXCEPT ![Session] = FALSE]
  BY DEF CliLine, At_, FreshToken
<1>2. CliTypeOK /\ ExitInv /\ TokenInv
  BY DEF CliInv
<1>3. /\ cli'.pc = "call" /\ cli'.code = cli.code /\ cli'.whole = cli.whole
      /\ cli'.failed = cli.failed /\ CliTypeOK' /\ ~cancel'[Session]
  <2>1. cancel' \in [Handles -> BOOLEAN] /\ ~cancel'[Session]
    BY <1>1, <1>2, SessionAssumption DEF CliTypeOK
  <2> QED
    BY <1>1, <1>2, <2>1 DEF CliLine, Goto, CliTypeOK, CliPcs
<1>4. ExitInv' /\ TokenInv'
  BY <1>1, <1>2, <1>3 DEF ExitInv, TokenInv
<1>5. IInv' /\ pc' = pc /\ storage' = storage
  BY <1>1, NextKeepsIInv DEF CliInv, lifecycle
<1> QED
  BY <1>1, <1>3, <1>4, <1>5, AwayFacts, AwayStep

LEMMA CliEndOfInputKeeps == ASSUME CliInv, CliEndOfInput PROVE CliInv'
<1>1. /\ cli.pc = "prompt" /\ UNCHANGED vars /\ active' = active /\ signalled' = signalled
      /\ cancel' = cancel
  BY DEF CliEndOfInput, At_, vars, progress
<1>2. CliTypeOK /\ ExitInv /\ TokenInv
  BY DEF CliInv
<1>3. PICK failed \in {cli.failed, TRUE} : cli' = [cli EXCEPT !.pc = "close", !.failed = failed]
  BY DEF CliEndOfInput
<1>4. failed \in BOOLEAN /\ (cli.failed => failed)
  BY <1>2 DEF CliTypeOK
<1>5. /\ cli'.pc = "close" /\ cli'.code = cli.code /\ cli'.whole = cli.whole
      /\ cli'.failed = failed /\ CliTypeOK'
  BY <1>1, <1>2, <1>3, <1>4 DEF CliTypeOK, CliPcs
<1>6. ExitInv' /\ TokenInv'
  BY <1>1, <1>2, <1>4, <1>5 DEF ExitInv, TokenInv
<1> QED
  BY <1>1, <1>5, <1>6, CliLocalStep

LEMMA CliRefusedKeeps == ASSUME CliInv, CliRefused PROVE CliInv'
<1>1. /\ cli.pc = "call" /\ UNCHANGED vars /\ active' = FALSE /\ signalled' = signalled
      /\ cancel' = cancel
  BY DEF CliRefused, At_, vars, progress
<1>2. CliTypeOK /\ ExitInv /\ TokenInv
  BY DEF CliInv
<1>3. /\ cli'.pc = "close" /\ cli'.code = cli.code /\ cli'.failed /\ CliTypeOK'
  BY <1>1, <1>2 DEF CliRefused, CliTypeOK, CliPcs
<1>4. ExitInv' /\ TokenInv'
  BY <1>1, <1>2, <1>3 DEF ExitInv, TokenInv
<1> QED
  BY <1>1, <1>3, <1>4, CliLocalStep

(* The code is 0 only when nothing failed and no close is pending. *)
LEMMA CliClosedKeeps == ASSUME CliInv, CliClosed PROVE CliInv'
<1>1. /\ cli.pc = "closing" /\ UNCHANGED vars /\ active' = active /\ signalled' = signalled
      /\ cancel' = cancel /\ pc[Session] = "idle" /\ pc' = pc /\ db' = db
  BY DEF CliClosed, At_, vars, progress, Idle, lifecycle
<1>2. CliTypeOK /\ ExitInv /\ TokenInv
  BY DEF CliInv
<1>3. ~db[Session].open /\ (db[Session].retry => db[Session].forced)
  BY <1>1, <1>2 DEF ExitInv
<1> DEFINE code == ExitCode(cli.failed, ~db[Session].forced)
<1>4. code \in {0, 1} /\ (code = 0 => ~cli.failed /\ ~db[Session].forced)
  BY DEF ExitCode
<1>5. cli' = [cli EXCEPT !.pc = "discard", !.code = code]
  BY DEF CliClosed
<1> HIDE DEF code
<1>6. /\ cli'.pc = "discard" /\ cli'.code = code /\ cli'.whole = cli.whole
      /\ cli'.failed = cli.failed /\ CliTypeOK'
  BY <1>1, <1>2, <1>4, <1>5 DEF CliTypeOK, CliPcs
<1>7. ExitInv' /\ TokenInv'
  BY <1>1, <1>2, <1>3, <1>4, <1>6 DEF ExitInv, TokenInv
<1> QED
  BY <1>1, <1>6, <1>7, CliLocalStep

LEMMA CliCloseKeeps == ASSUME CliInv, CliClose PROVE CliInv'
<1>1. /\ cli.pc = "close" /\ UNCHANGED <<run, rows, cursor>> /\ leaked' = leaked
      /\ cancel' = cancel /\ active' = active /\ signalled' = signalled
  BY DEF CliClose, At_, progress
<1>2. /\ pc[Session] \notin {"script", "abort"} /\ (leaked # {} => storage.open)
      /\ Session \in Handles
  BY <1>1, AwayFacts
<1>3. CliTypeOK /\ ExitInv /\ TokenInv /\ IInv
  BY DEF CliInv
<1>4. CASE close(Session) /\ Goto("closing")
  <2>1. IInv'
    BY <1>2, <1>3, <1>4, LifecycleKeepsIInv DEF Lifecycle
  <2>2. /\ cli'.pc = "closing" /\ cli'.code = cli.code /\ cli'.whole = cli.whole
        /\ cli'.failed = cli.failed /\ CliTypeOK'
    BY <1>1, <1>3, <1>4 DEF Goto, CliTypeOK, CliPcs
  <2>3. /\ pc'[Session] \in {"close", "retry", "idle"} /\ storage' = storage
        /\ pc'[Session] # "close" => ~db'[Session].open
        /\ db'[Session].retry => db'[Session].forced
    <3>0. /\ pc \in [Handles -> Labels] /\ db \in [Handles -> Impl] /\ pc[Session] = "idle"
          /\ storage' = storage /\ Fits(db[Session], pc[Session], storage, abandoned)
      BY <1>4, SessionFacts DEF close, Idle
    <3>1. CASE db[Session].open /\ pc' = [pc EXCEPT ![Session] = "close"] /\ UNCHANGED db
      BY <1>2, <3>0, <3>1 DEF Fits
    <3>2. CASE /\ ~db[Session].open /\ db[Session].forced
               /\ pc' = [pc EXCEPT ![Session] = "retry"] /\ UNCHANGED db
      BY <1>2, <3>0, <3>2
    <3>3. CASE /\ ~db[Session].open /\ ~db[Session].retry
               /\ db' = [db EXCEPT ![Session].forced = FALSE] /\ UNCHANGED pc
      <4>1. db'[Session].open = db[Session].open /\ db'[Session].retry = db[Session].retry
        BY <1>2, <3>0, <3>3 DEF Impl
      <4> QED
        BY <3>0, <3>3, <4>1
    <3> QED
      BY <1>4, <3>0, <3>1, <3>2, <3>3 DEF close
  <2>4. ExitInv' /\ TokenInv'
    BY <1>1, <1>3, <2>2, <2>3 DEF ExitInv, TokenInv
  <2> QED
    BY <1>1, <1>2, <2>1, <2>2, <2>3, <2>4, AwayStep
<1>5. CASE cli' = [cli EXCEPT !.pc = "discard", !.code = 1] /\ UNCHANGED lifecycle
  <2>1. IInv' /\ pc' = pc /\ storage' = storage
    BY <1>3, <1>5, NextKeepsIInv DEF lifecycle
  <2>2. /\ cli'.pc = "discard" /\ cli'.code = 1 /\ cli'.whole = cli.whole
        /\ cli'.failed = cli.failed /\ CliTypeOK'
    BY <1>1, <1>3, <1>5 DEF CliTypeOK, CliPcs
  <2>3. ExitInv' /\ TokenInv'
    BY <1>1, <1>3, <2>2 DEF ExitInv, TokenInv
  <2> QED
    BY <1>1, <1>2, <2>1, <2>2, <2>3, AwayStep
<1> QED
  BY <1>4, <1>5 DEF CliClose

(* What exit code 0 says stays true: an object that owns nothing goes      *)
(* without a storage call.                                                 *)
LEMMA CliDiscardKeeps == ASSUME CliInv, CliDiscard PROVE CliInv'
<1>1. /\ cli.pc = "discard" /\ UNCHANGED <<run, rows, cursor>> /\ leaked' = leaked
      /\ cancel' = cancel /\ active' = active /\ signalled' = signalled
      /\ destroy(Session) /\ Goto("exit")
  BY DEF CliDiscard, At_, progress
<1>2. (leaked # {} => storage.open) /\ Session \in Handles
  BY <1>1, AwayFacts
<1>3. CliTypeOK /\ ExitInv /\ TokenInv /\ IInv
  BY DEF CliInv
<1>4. IInv'
  BY <1>1, <1>2, <1>3, LifecycleKeepsIInv DEF Lifecycle
<1>5. /\ cli'.pc = "exit" /\ cli'.code = cli.code /\ cli'.whole = cli.whole
      /\ cli'.failed = cli.failed /\ CliTypeOK'
  BY <1>1, <1>3 DEF Goto, CliTypeOK, CliPcs
<1>6. /\ pc'[Session] \in {"idle", "destroy"} /\ storage' = storage
      /\ ~db[Session].open /\ ~db[Session].retry =>
            pc'[Session] = "idle" /\ ~db'[Session].open /\ ~db'[Session].retry
  <2>1. /\ pc[Session] = "idle" /\ storage' = storage /\ pc \in [Handles -> Labels]
        /\ db \in [Handles -> Impl]
    BY <1>1, SessionFacts DEF destroy, Idle
  <2>2. CASE Owns(Session) /\ pc' = [pc EXCEPT ![Session] = "destroy"] /\ UNCHANGED db
    BY <1>2, <2>1, <2>2 DEF Owns
  <2>3. CASE db' = [db EXCEPT ![Session] = MovedFrom] /\ UNCHANGED pc
    BY <1>2, <2>1, <2>3, ImplTypes
  <2> QED
    BY <1>1, <2>2, <2>3 DEF destroy
<1>7. ExitInv' /\ TokenInv'
  BY <1>1, <1>3, <1>5, <1>6 DEF ExitInv, TokenInv
<1> QED
  BY <1>1, <1>2, <1>4, <1>5, <1>6, <1>7, AwayStep

(* The storage calls of the session's own open, close and destruction. *)
LEMMA SessionCallKeeps == ASSUME CliInv, SessionCall PROVE CliInv'
<1>1. /\ UNCHANGED <<run, rows, cursor>> /\ cancel' = cancel /\ cli' = cli /\ active' = active
      /\ signalled' = signalled /\ (leaked' # {} => storage'.open)
  BY DEF SessionCall, cliVars
<1>2. CliTypeOK /\ ExitInv /\ TokenInv /\ IInv /\ Session \in Handles
  BY SessionAssumption DEF CliInv
<1>3. /\ pc[Session] \in {"open_storage", "list_tables", "abort_open", "close", "retry", "destroy"}
      /\ pc \in [Handles -> Labels] /\ db \in [Handles -> Impl]
  BY SessionFacts
     DEF SessionCall, OpenStorage, ListTables, AbortOpen, CloseOpen, RetryClose, DestroyOwner
<1>4. cli.pc # "executing"
  BY <1>3 DEF CliInv, RunInv, RunFits
<1>5. IInv'
  BY <1>2, LifecycleKeepsIInv DEF SessionCall, Lifecycle
<1>6. pc'[Session] \in {"idle", "list_tables", "abort_open"}
  BY <1>2, <1>3
     DEF SessionCall, OpenStorage, ListTables, AbortOpen, CloseOpen, RetryClose, DestroyOwner
<1>7. CliTypeOK' /\ TokenInv'
  BY <1>1, <1>2 DEF CliTypeOK, TokenInv
<1>8. ASSUME cli.pc = "closing"
      PROVE  /\ pc'[Session] = "idle" /\ ~db'[Session].open
             /\ db'[Session].retry => db'[Session].forced
  <2>1. pc[Session] \in {"close", "retry"}
    BY <1>2, <1>3, <1>8 DEF ExitInv
  <2>2. CASE CloseOpen(Session)
    <3>1. PICK d \in {Cleared, Pending(TRUE)} : db' = [db EXCEPT ![Session] = d]
      BY <2>2 DEF CloseOpen
    <3>2. ~d.open /\ (d.retry => d.forced)
      <4>1. ~Cleared.open /\ ~Cleared.retry
        BY DEF Cleared
      <4>2. ~Pending(TRUE).open /\ Pending(TRUE).forced
        BY DEF Cleared, Pending
      <4>3. d = Cleared \/ d = Pending(TRUE)
        OBVIOUS
      <4> QED
        BY <4>1, <4>2, <4>3, Zenon
    <3>3. pc'[Session] = "idle"
      BY <1>2, <1>3, <2>2 DEF CloseOpen
    <3> QED
      BY <1>2, <1>3, <3>1, <3>2, <3>3
  <2>3. CASE RetryClose(Session)
    <3>1. pc[Session] = "retry" /\ pc'[Session] = "idle"
      BY <1>2, <1>3, <2>3 DEF RetryClose
    <3>2. ~db[Session].open /\ (db[Session].retry => db[Session].forced)
      BY <1>2, <1>8, <3>1 DEF ExitInv
    <3>3. \/ db' = [db EXCEPT ![Session].retry = FALSE, ![Session].forced = FALSE]
          \/ db' = db
      BY <2>3 DEF RetryClose
    <3> QED
      BY <1>2, <1>3, <3>1, <3>2, <3>3 DEF Impl
  <2> QED
    BY <2>1, <2>2, <2>3 DEF SessionCall, OpenStorage, ListTables, AbortOpen, DestroyOwner
<1>9. cli.code # 0
  BY <1>2, <1>3 DEF ExitInv
<1>10. ExitInv'
  BY <1>1, <1>2, <1>8, <1>9 DEF ExitInv
<1> QED
  BY <1>1, <1>4, <1>5, <1>6, <1>7, <1>10, AwayStep

(* A script begins. *)
LEMMA CliExecuteKeeps == ASSUME CliInv, CliExecute PROVE CliInv'
<1>1. /\ cli.pc = "call" /\ Goto("executing") /\ cancel' = cancel /\ active' = active
      /\ signalled' = signalled /\ UNCHANGED <<rows, cursor, leaked>> /\ BeginScript(Session)
      /\ db[Session].open
  BY DEF CliExecute, At_, execute_script, RefuseScript
<1>2. CliTypeOK /\ ExitInv /\ TokenInv /\ IInv /\ Session \in Handles
  BY SessionAssumption DEF CliInv
<1>3. cursor = {} /\ (leaked # {} => storage.open) /\ rows \in [Tables -> 0..MaxRows]
  BY <1>1, AwayFacts, SessionFacts
<1>4. IInv'
  BY <1>1, <1>2, NextKeepsIInv DEF Next
<1>5. pc'[Session] = "script" /\ db' = db /\ storage' = storage
  BY <1>1, SessionFacts DEF BeginScript
<1>6. /\ cli'.pc = "executing" /\ cli'.code = cli.code /\ cli'.whole = cli.whole
      /\ cli'.failed = cli.failed /\ CliTypeOK'
  BY <1>1, <1>2 DEF Goto, CliTypeOK, CliPcs
<1>7. ExitInv' /\ TokenInv'
  BY <1>1, <1>2, <1>6 DEF ExitInv, TokenInv
<1>8. PICK q : ScriptSound(q) /\ Set(Session, q) /\ q.pc \in {"statement", "done"}
  <2>1. ASSUME NEW stmts \in Scripts, NEW policy \in Policies,
               execute_script(Session, stmts, policy)
        PROVE  \E q : ScriptSound(q) /\ Set(Session, q) /\ q.pc \in {"statement", "done"}
    <3> DEFINE effects == [i \in DOMAIN stmts |-> 0]
               shadow == IF policy.analyze THEN db[Session].catalog ELSE {}
               q == [NoScript EXCEPT !.pc = "statement", !.stmts = stmts, !.policy = policy,
                                     !.effects = effects, !.shadow = shadow]
    <3>1. /\ stmts \in Seq(Statements)
          /\ policy \in [analyze : BOOLEAN, plan_only : BOOLEAN]
      BY ScriptAssumption DEF Statements
    <3>2. Len(stmts) \in Nat /\ DOMAIN stmts = 1..Len(stmts)
      BY <3>1, LenProperties
    <3>3. /\ effects \in [1..Len(stmts) -> Nat] /\ effects \in Counts
          /\ \A i \in 1..Len(stmts) : effects[i] = 0
      <4>1. effects \in [1..Len(stmts) -> Nat] /\ \A i \in 1..Len(stmts) : effects[i] = 0
        BY <3>2
      <4> HIDE DEF effects
      <4> QED
        BY <3>2, <4>1 DEF Counts
    <3>4. shadow \in SUBSET Tables
      BY SessionFacts DEF Impl
    <3>5. Set(Session, q)
      BY <2>1 DEF execute_script
    <3> HIDE DEF effects, shadow
    <3>6. q \in Runs
      BY <3>1, <3>3, <3>4, NoScriptSound DEF Runs
    <3>7. /\ q.pc = "statement" /\ q.stmts = stmts /\ q.effects = effects
          /\ q.results = <<>> /\ q.allowed /\ q.hits = 0
      BY DEF NoScript
    <3> HIDE DEF q
    <3>8. ScriptSound(q)
      BY <3>3, <3>6, <3>7, BeginningSound
    <3> QED
      BY <3>5, <3>7, <3>8
  <2>2. ASSUME RefuseScript(Session)
        PROVE  \E q : ScriptSound(q) /\ Set(Session, q) /\ q.pc \in {"statement", "done"}
    <3> DEFINE q == [NoScript EXCEPT !.pc = "done", !.error = TRUE]
    <3>1. Set(Session, q)
      BY <2>2 DEF RefuseScript
    <3>2. q \in Runs
      BY NoScriptSound DEF Runs
    <3>3. /\ q.pc = "done" /\ q.stmts = <<>> /\ q.effects = NoScript.effects
          /\ NoScript.stmts = <<>> /\ q.results = <<>> /\ q.allowed /\ q.hits = 0
      BY DEF NoScript
    <3> HIDE DEF q
    <3>4. Len(q.stmts) = 0 /\ Len(NoScript.stmts) = 0
      BY <3>3
    <3>5. q.effects \in [1..Len(q.stmts) -> Nat]
      BY <3>3, <3>4, NoScriptSound DEF ScriptSound, Accounted
    <3>6. \A i \in 1..Len(q.stmts) : q.effects[i] = 0
      BY <3>4
    <3>7. ScriptSound(q)
      BY <3>2, <3>3, <3>4, <3>5, <3>6, BeginningSound
    <3> QED
      BY <3>1, <3>3, <3>7
  <2> QED
    BY <2>1, <2>2 DEF CliExecute
<1>9. run'[Session] = q /\ run' \in [Handles -> Runs]
  <2>1. q \in Runs
    BY <1>8 DEF ScriptSound, Accounted
  <2> QED
    BY <1>8, <2>1, SessionFacts DEF Set
<1>10. q.pc \notin Aborting \cup Executing \cup Scanning \cup {"none", "write"}
  BY <1>8 DEF Aborting, Executing, Scanning
<1>11. RunInv'
  <2>1. \A h \in Handles \ {Session} : run'[h] = NoScript
    BY <1>8, SessionFacts DEF CliInv, RunInv, Set
  <2>2. RunFits(q, db'[Session], pc'[Session])
    BY <1>1, <1>5, <1>10 DEF RunFits
  <2> QED
    BY <1>6, <1>8, <1>9, <2>1, <2>2 DEF RunInv
<1>12. CursorInv' /\ RowsInv'
  BY <1>1, <1>3, <1>5, <1>9, <1>10 DEF CursorInv, RowsInv, RowsFit
<1> QED
  BY <1>4, <1>6, <1>7, <1>11, <1>12 DEF CliInv

(* It returns: what was not carried out has been reported as an error. *)
LEMMA CliReturnKeeps == ASSUME CliInv, CliReturn PROVE CliInv'
<1> DEFINE r == run[Session]
<1>1. /\ cli.pc = "executing" /\ r.pc = "done" /\ EndScript(Session) /\ Set(Session, NoScript)
      /\ active' = FALSE /\ signalled' = signalled
      /\ UNCHANGED <<rows, cursor, leaked, cancel>>
  BY DEF CliReturn, At_, At
<1>2. CliTypeOK /\ ExitInv /\ TokenInv /\ IInv /\ Session \in Handles
  BY SessionAssumption DEF CliInv
<1>3. /\ r \in Runs /\ Blamed(r) /\ rows \in [Tables -> 0..MaxRows] /\ (leaked # {} => storage.open)
      /\ (cursor # {} => r.pc \in Scanning \cup Aborting)
  BY SessionFacts
<1>4. cursor = {}
  BY <1>1, <1>3 DEF Scanning, Aborting
<1>5. IInv'
  BY <1>1, <1>2, NextKeepsIInv DEF Next
<1>6. pc'[Session] = "idle" /\ storage' = storage
  BY <1>1, SessionFacts DEF EndScript
<1>7. Carried(r) \/ HadError(r) \/ r.error
  <2> SUFFICES ASSUME ~r.error, ~HadError(r) PROVE Carried(r)
    OBVIOUS
  <2>1. DOMAIN r.results = 1..Len(r.results)
    BY <1>3, LengthTypes
  <2>2. \A i \in 1..Len(r.results) : r.results[i].status \notin {"skipped", "analysis_only"}
    BY <1>3 DEF Blamed
  <2>3. \A i \in 1..Len(r.results) : r.results[i].status \in Statuses
    BY <1>3, LengthTypes DEF Outcomes
  <2> QED
    BY <2>1, <2>2, <2>3 DEF Carried, HadError, Statuses
<1>8. PICK output_ok \in BOOLEAN :
         cli' = [cli EXCEPT
                    !.pc = IF cli.interactive /\ output_ok /\ ~r.error THEN "prompt" ELSE "close",
                    !.failed = @ \/ HadError(r) \/ r.error \/ ~output_ok,
                    !.whole = @ /\ Carried(r)]
  BY DEF CliReturn
<1>9. /\ cli'.pc \in {"prompt", "close"} /\ cli'.code = cli.code
      /\ cli'.failed = (cli.failed \/ HadError(r) \/ r.error \/ ~output_ok)
      /\ cli'.whole = (cli.whole /\ Carried(r)) /\ CliTypeOK'
  <2> HIDE DEF r
  <2> DEFINE l == IF cli.interactive /\ output_ok /\ ~r.error THEN "prompt" ELSE "close"
             f == cli.failed \/ HadError(r) \/ r.error \/ ~output_ok
             w == cli.whole /\ Carried(r)
  <2>1. l \in {"prompt", "close"} /\ f \in BOOLEAN /\ w \in BOOLEAN
    OBVIOUS
  <2>2. cli' = [cli EXCEPT !.pc = l, !.failed = f, !.whole = w]
    BY <1>8
  <2> HIDE DEF l, f, w
  <2>3. cli'.pc = l /\ cli'.code = cli.code /\ cli'.failed = f /\ cli'.whole = w
    BY <1>2, <2>2 DEF CliTypeOK
  <2>4. CliTypeOK'
    BY <1>1, <1>2, <2>1, <2>2 DEF CliTypeOK, CliPcs
  <2> QED
    BY <2>1, <2>3, <2>4 DEF f, w
<1>10. ExitInv'
  <2>1. cli'.whole \/ cli'.failed
    BY <1>2, <1>7, <1>9 DEF ExitInv
  <2> QED
    BY <1>1, <1>2, <1>9, <2>1 DEF ExitInv
<1>11. TokenInv'
  BY <1>1, <1>9 DEF TokenInv
<1>12. RunInv'
  <2>1. run'[Session] = NoScript /\ run' \in [Handles -> Runs]
        /\ \A h \in Handles \ {Session} : run'[h] = NoScript
    BY <1>1, SessionFacts, NoScriptSound DEF CliInv, RunInv, Set
  <2> QED
    BY <1>6, <1>9, <2>1, NoScriptSound DEF RunInv
<1>13. CursorInv' /\ RowsInv'
  <2>1. run'[Session] = NoScript
    BY <1>1, SessionFacts DEF Set
  <2>2. NoScript.pc \notin Scanning \cup {"write"}
    BY NoScriptSound DEF Scanning
  <2> QED
    BY <1>1, <1>3, <1>4, <1>6, <2>1, <2>2 DEF CursorInv, RowsInv, RowsFit
<1> QED
  BY <1>5, <1>9, <1>10, <1>11, <1>12, <1>13 DEF CliInv

(* Another object's step leaves the call of this one where it is. *)
LEMMA OtherStepKeeps ==
    ASSUME CliInv, NEW h \in Handles \ {Session}, OtherStep(h) PROVE CliInv'
<1>1. /\ Lifecycle(h) /\ db'[Session] = db[Session] /\ cli' = cli /\ active' = active
      /\ signalled' = signalled /\ (leaked' # {} => storage'.open)
      /\ UNCHANGED <<run, rows, cursor, cancel>>
  BY DEF OtherStep, LifecycleStep, cliVars
<1>2. IInv'
  BY <1>1, LifecycleKeepsIInv DEF CliInv
<1>3. pc'[Session] = pc[Session]
  <2>1. pc' = pc \/ \E p \in Labels : pc' = [pc EXCEPT ![h] = p]
    BY <1>1 DEF Lifecycle, open, OpenStorage, ListTables, AbortOpen, close, CloseOpen,
       RetryClose, destroy, DestroyOwner, construct, move_assign, Labels, Calls
  <2> QED
    BY <2>1, SessionFacts
<1>4. RunInv'
  BY <1>1, <1>3 DEF CliInv, RunInv, RunFits
<1>5. CursorInv' /\ RowsInv'
  BY <1>1 DEF CliInv, CursorInv, RowsInv, RowsFit
<1>6. CliTypeOK' /\ ExitInv' /\ TokenInv'
  BY <1>1, <1>3 DEF CliInv, CliTypeOK, ExitInv, TokenInv
<1> QED
  BY <1>2, <1>4, <1>5, <1>6 DEF CliInv

LEMMA CtrlCKeeps == ASSUME CliInv, CtrlC PROVE CliInv'
<1>1. /\ UNCHANGED lifecycle /\ UNCHANGED <<run, rows, cursor, leaked>> /\ cli' = cli
      /\ active' = active /\ signalled' = TRUE /\ cancel' = [cancel EXCEPT ![Session] = TRUE]
  BY DEF CtrlC
<1>2. IInv' /\ db' = db /\ pc' = pc /\ storage' = storage
  BY <1>1, NextKeepsIInv DEF CliInv, lifecycle
<1>3. RunInv'
  BY <1>1, <1>2 DEF CliInv, RunInv, RunFits
<1>4. CursorInv' /\ RowsInv'
  BY <1>1, <1>2 DEF CliInv, CursorInv, RowsInv, RowsFit
<1>5. CliTypeOK' /\ TokenInv'
  BY <1>1 DEF CliInv, CliTypeOK, TokenInv
<1>6. ExitInv'
  BY <1>1, <1>2 DEF CliInv, ExitInv
<1> QED
  BY <1>2, <1>3, <1>4, <1>5, <1>6 DEF CliInv

(* The process ends: no object, no slot and no storage layer are left. *)
LEMMA CtrlCKillsKeeps == ASSUME CliInv, CtrlCKills PROVE CliInv'
<1>1. /\ cli.pc \notin {"discard", "exit"} /\ cli' = [cli EXCEPT !.pc = "killed"]
      /\ slot' = FALSE /\ abandoned' = FALSE /\ db' = [h \in Handles |-> Cleared]
      /\ pc' = [h \in Handles |-> "idle"] /\ storage' = [storage EXCEPT !.open = FALSE]
      /\ run' = [h \in Handles |-> NoScript] /\ cursor' = {} /\ leaked' = {}
      /\ cancel' = [h \in Handles |-> FALSE] /\ active' = FALSE /\ signalled' = FALSE
      /\ rows' = rows
  BY DEF CtrlCKills, Goto
<1>2. CliTypeOK /\ ExitInv /\ IInv /\ Session \in Handles /\ storage \in Disk
      /\ rows \in [Tables -> 0..MaxRows]
  BY SessionFacts DEF CliInv
<1>3. IInv'
  <2>1. TypeOK'
    <3>1. storage' \in Disk
      BY <1>1, <1>2 DEF Disk
    <3> QED
      BY <1>1, <3>1, ImplTypes DEF TypeOK, Labels
  <2>2. ~storage'.open
    BY <1>1, <1>2 DEF Disk
  <2>3. \A h \in Handles : db'[h] = Cleared /\ pc'[h] = "idle"
    BY <1>1
  <2>4. \A h \in Handles : ~Owns(h)' /\ ~db'[h].open /\ ~db'[h].retry
    BY <2>3, ImplTypes DEF Owns
  <2> QED
    BY <1>1, <2>1, <2>2, <2>3, <2>4
       DEF IInv, CallsConsistent, Fits, OneOwner, SlotTaken, StorageHeld, OpeningAt
<1>4. cli'.pc = "killed" /\ cli'.code = cli.code /\ cli'.whole = cli.whole
      /\ cli'.failed = cli.failed
  BY <1>1, <1>2 DEF CliTypeOK
<1>5. CliTypeOK'
  BY <1>1, <1>2 DEF CliTypeOK, CliPcs
<1>6. ExitInv' /\ TokenInv'
  BY <1>1, <1>2, <1>4 DEF ExitInv, TokenInv
<1>7. RunInv'
  <2>1. run' \in [Handles -> Runs] /\ \A h \in Handles : run'[h] = NoScript
    BY <1>1, NoScriptSound
  <2> QED
    BY <1>1, <1>2, <1>4, <2>1, NoScriptSound DEF RunInv
<1>8. CursorInv' /\ RowsInv'
  <2>1. run'[Session].pc \notin Scanning \cup {"write"}
    BY <1>1, <1>2, NoScriptSound DEF Scanning
  <2> QED
    BY <1>1, <1>2, <2>1 DEF CursorInv, RowsInv, RowsFit
<1> QED
  BY <1>3, <1>5, <1>6, <1>7, <1>8 DEF CliInv

-----------------------------------------------------------------------------
(* The invariant *)

LEMMA InitCliInv == CliInit => CliInv
<1> SUFFICES ASSUME CliInit PROVE CliInv
  OBVIOUS
<1>1. /\ Init /\ run = [h \in Handles |-> NoScript] /\ rows = [t \in Tables |-> 0]
      /\ cursor = {} /\ leaked = {} /\ cancel = [h \in Handles |-> FALSE]
      /\ active = FALSE /\ signalled = FALSE
  BY DEF CliInit, ScriptInit
<1>2. PICK interactive \in BOOLEAN :
         cli = [pc |-> "start", interactive |-> interactive, failed |-> FALSE, whole |-> TRUE,
                code |-> 9]
  BY DEF CliInit
<1>3. Session \in Handles /\ MaxRows \in Nat
  BY SessionAssumption, ScriptAssumption
<1>4. IInv
  BY <1>1, InitIInv
<1>5. CliTypeOK /\ ExitInv /\ TokenInv
  <2>1. CliTypeOK
    BY <1>1, <1>2 DEF CliTypeOK, CliPcs
  <2>2. cli.pc = "start" /\ cli.whole /\ cli.code = 9
    BY <1>2
  <2> QED
    BY <1>1, <2>1, <2>2 DEF ExitInv, TokenInv
<1>6. RunInv
  <2>1. run \in [Handles -> Runs] /\ \A h \in Handles : run[h] = NoScript
    BY <1>1, NoScriptSound
  <2>2. pc[Session] = "idle"
    BY <1>1, <1>3 DEF Init
  <2>3. cli.pc = "start"
    BY <1>2
  <2> QED
    BY <1>3, <2>1, <2>2, <2>3, NoScriptSound DEF RunInv
<1>7. CursorInv /\ RowsInv
  <2>1. run[Session].pc \notin Scanning \cup {"write"}
    BY <1>1, <1>3, NoScriptSound DEF Scanning
  <2>2. rows \in [Tables -> 0..MaxRows]
    BY <1>1, <1>3
  <2> QED
    BY <1>1, <2>1, <2>2 DEF CursorInv, RowsInv, RowsFit
<1> QED
  BY <1>4, <1>5, <1>6, <1>7 DEF CliInv

LEMMA NextKeepsCliInv == CliInv /\ [CliNext]_allVars => CliInv'
<1> SUFFICES ASSUME CliInv, [CliNext]_allVars PROVE CliInv'
  OBVIOUS
<1>1. CASE UNCHANGED allVars
  <2>1. /\ UNCHANGED lifecycle /\ UNCHANGED <<run, rows, cursor, leaked, cancel>>
        /\ UNCHANGED cliVars
    BY <1>1 DEF allVars, vars, progress
  <2>2. /\ db' = db /\ pc' = pc /\ storage' = storage /\ cli' = cli /\ active' = active
        /\ signalled' = signalled
    BY <2>1 DEF lifecycle, cliVars
  <2>3. IInv'
    BY <2>1, NextKeepsIInv DEF CliInv
  <2>4. RunInv'
    BY <2>1, <2>2 DEF CliInv, RunInv, RunFits
  <2>5. CursorInv' /\ RowsInv'
    BY <2>1, <2>2 DEF CliInv, CursorInv, RowsInv, RowsFit
  <2>6. CliTypeOK' /\ ExitInv' /\ TokenInv'
    BY <2>1, <2>2 DEF CliInv, CliTypeOK, ExitInv, TokenInv
  <2> QED
    BY <2>3, <2>4, <2>5, <2>6 DEF CliInv
<1>2. CASE CliStep
  BY <1>2, CliOpenKeeps, CliOpenedKeeps, CliLineKeeps, CliEndOfInputKeeps, CliExecuteKeeps,
     CliRefusedKeeps, CliReturnKeeps, CliCloseKeeps, CliClosedKeeps, CliDiscardKeeps,
     SessionCallKeeps, ScriptStepKeeps DEF CliStep
<1>3. CASE CtrlC \/ CtrlCKills
  BY <1>3, CtrlCKeeps, CtrlCKillsKeeps
<1>4. CASE \E h \in Handles \ {Session} : OtherStep(h)
  BY <1>4, OtherStepKeeps
<1> QED
  BY <1>1, <1>2, <1>3, <1>4 DEF CliNext

LEMMA CliInvariant == CliSpec => []CliInv
BY InitCliInv, NextKeepsCliInv, PTL DEF CliSpec

(* The invariant gives the properties. *)
LEMMA CliInvImplies ==
    ASSUME CliInv
    PROVE  OutcomesTruthful /\ CursorsReleased /\ ExitTruthful /\ CtrlCLocal
<1>1. OutcomesTruthful
  <2> SUFFICES ASSUME NEW h \in Handles
               PROVE  LET r == run[h] IN
                      /\ \A i \in DOMAIN r.results : Truthful(r, i)
                      /\ \A i \in DOMAIN r.stmts : i > Index(r) => r.effects[i] = 0
                      /\ r.pc = "done" => Len(r.results) = Len(r.stmts)
                      /\ \A i, j \in DOMAIN r.results :
                            i < j /\ r.results[i].status = "cancelled" =>
                                r.results[j].status = "cancelled"
    BY DEF OutcomesTruthful
  <2> DEFINE r == run[h]
  <2>1. ScriptSound(r)
    BY SessionFacts, NoScriptSound DEF CliInv, RunInv
  <2>2. r \in Runs /\ Accounted(r) /\ Located(r)
    BY <2>1 DEF ScriptSound, Accounted
  <2>3. DOMAIN r.results = 1..Len(r.results) /\ DOMAIN r.stmts = 1..Len(r.stmts)
    BY <2>2, LengthTypes
  <2>4. r.pc = "done" => Len(r.results) = Len(r.stmts)
    BY <2>2 DEF Located
  <2> QED
    BY <2>2, <2>3, <2>4 DEF Accounted
<1>2. CursorsReleased
  <2>1. ASSUME cursor # {}
        PROVE  \E h \in Handles : pc[h] \in {"script", "abort"} /\ run[h].pc # "done"
    <3>1. run[Session].pc \in Scanning \cup Aborting
      BY <2>1, SessionFacts
    <3>2. run[Session].pc # "none" /\ run[Session].pc # "done"
      BY <3>1 DEF Scanning, Aborting
    <3>3. RunFits(run[Session], db[Session], pc[Session]) /\ Session \in Handles
      BY <3>2, SessionFacts
    <3>4. pc[Session] \in {"script", "abort"}
      BY <3>3 DEF RunFits
    <3> QED
      BY <3>2, <3>3, <3>4
  <2> QED
    BY <2>1, SessionFacts DEF CursorsReleased
<1>3. ExitTruthful
  BY DEF CliInv, ExitInv, ExitTruthful
<1>4. CtrlCLocal
  BY DEF CliInv, TokenInv, CtrlCLocal
<1> QED
  BY <1>1, <1>2, <1>3, <1>4

-----------------------------------------------------------------------------
(* Theorems *)

(* execute_script reports what happened, for any script, policy, number of *)
(* rows and limits: one result per statement, in order; the counts are the *)
(* rows that were changed, and a statement that is skipped, cancelled,     *)
(* analyzed or rejected has changed nothing, whichever storage call fails  *)
(* or throws and whenever Ctrl+C comes.                                    *)
THEOREM ReportsAreTruthful == CliSpec => []OutcomesTruthful
<1>1. CliInv => OutcomesTruthful
  BY CliInvImplies
<1> QED
  BY <1>1, CliInvariant, PTL

(* scan_records and the drivers behind it leave no cursor behind, however  *)
(* the scan ends, and a cursor that storage could not close is gone with   *)
(* the storage layer.                                                      *)
THEOREM CursorsAreReleased == CliSpec => []CursorsReleased
<1>1. CliInv => CursorsReleased
  BY CliInvImplies
<1> QED
  BY <1>1, CliInvariant, PTL

(* run_cli answers 0 only when every statement of every line was carried   *)
(* out and the database was closed.                                        *)
THEOREM ExitCodeIsTruthful == CliSpec => []ExitTruthful
<1>1. CliInv => ExitTruthful
  BY CliInvImplies
<1> QED
  BY <1>1, CliInvariant, PTL

(* The SIGINT handler finds a token only while a line runs or is about to, *)
(* and a line is cancelled only by a Ctrl+C of its own.                    *)
THEOREM CtrlCIsLocal == CliSpec => []CtrlCLocal
<1>1. CliInv => CtrlCLocal
  BY CliInvImplies
<1> QED
  BY <1>1, CliInvariant, PTL

(* What Database promises holds with the command line as one of its        *)
(* clients, the end of the process included: one owner of the slot, and a  *)
(* catalog that is the one of storage.                                     *)
THEOREM CliKeepsDatabase == CliSpec => [](SlotOwned /\ CatalogMatchesStorage)
<1>1. CliInv => SlotOwned /\ CatalogMatchesStorage
  BY IInvImplies DEF CliInv
<1> QED
  BY <1>1, CliInvariant, PTL

-----------------------------------------------------------------------------
(* The GUI session. *)

Window ==
    [state : {"closed", "open", "reopen"}, busy : BOOLEAN, cancel_pending : BOOLEAN,
     closing : BOOLEAN, cleanup : BOOLEAN, pending : BOOLEAN, schema_snapshot : Nat,
     executed : Nat, token : Nat, counter : Nat, window : {"shown", "gone"}]

Browser ==
    [tables : SUBSET Tables, status : {"empty", "read", "failed", "cancelled"}]

Requests ==
    [kind : {"open", "close", "execute", "schema"}, snapshot : Nat, token : Nat]

Scripted == {"execute", "schema"}

LifecycleAnswers ==
    [kind : {"opened", "open_failed", "closed", "close_failed"}, snapshot : {0}]

ScriptAnswers ==
    [kind : {"script"}, snapshot : Nat, error : {"none", "compile", "internal", "execute"},
     cut : BOOLEAN, failed : BOOLEAN, commands : BOOLEAN, tables : SUBSET Tables]

Answers == LifecycleAnswers \cup ScriptAnswers

Workers ==
    [task : Requests \cup {NoTask}, running : BOOLEAN, created : BOOLEAN, broken : BOOLEAN,
     open_reported : BOOLEAN]

GuiTypeOK ==
    /\ ui \in Window
    /\ schema \in Browser
    /\ inbox \in Seq(Requests) /\ outbox \in Seq(Answers)
    /\ worker \in Workers

-----------------------------------------------------------------------------
(* The inductive invariant *)

(* Nothing is left of a session. *)
NoSession(d) == ~d.open /\ ~d.forced

(* A session that is open, or was until its last script lost the storage   *)
(* layer.                                                                  *)
HasSession(d) == d.open \/ d.forced

(* A schema that was read is the catalog. *)
Fresh(s, d) == s.status = "read" /\ d.open => s.tables = d.catalog

(* The snapshot that window u expects an answer for. *)
Expected(u) == IF u.schema_snapshot # 0 THEN u.schema_snapshot ELSE u.executed

(* What is known of a script, from the signal to its answer: the window    *)
(* shows an open session, the snapshot is the one it waits for, and only a *)
(* refresh has the snapshot of the schema browser.                         *)
ScriptKnown(u, r) ==
    /\ u.state = "open"
    /\ r.snapshot = Expected(u)
    /\ r.kind = "schema" <=> u.schema_snapshot # 0

(* What is known of request r until the worker begins it. *)
Sent(u, s, d, r) ==
    /\ r.kind = "open" => NoSession(d)
    /\ r.kind \in {"open", "close"} => u.schema_snapshot = 0
    /\ r.kind \in Scripted => ScriptKnown(u, r) /\ HasSession(d)
    /\ r.kind = "execute" => Fresh(s, d)

(* And afterwards, of the worker w with its call at p. *)
Running(u, s, d, w, p) ==
    /\ w.task.kind = "open" => p \in OpeningAt \cup {"idle"}
    /\ w.task.kind = "close" => p \in {"close", "retry", "idle"} /\ (p # "close" => ~d.open)
    /\ w.task.kind \in {"open", "close"} => u.schema_snapshot = 0
    /\ w.task.kind \in Scripted =>
          p \in {"script", "abort"} /\ ScriptKnown(u, w.task) /\ HasSession(d)
    /\ w.task.kind = "execute" => w.created \/ Fresh(s, d)

(* What an answer says: a Database that "opened" is open and one that is   *)
(* "closed" is closed; a script that does not end the session has left it  *)
(* open, or lost the storage layer; one that read the tables read the      *)
(* catalog, and one that may have changed them says so.                    *)
Told(u, s, d, r) ==
    /\ r.kind = "opened" => d.open
    /\ r.kind = "closed" => NoSession(d)
    /\ r.kind # "script" => u.schema_snapshot = 0
    /\ r.kind = "script" =>
          /\ u.state = "open" /\ r.snapshot = Expected(u) /\ r.tables = d.catalog
          /\ r.error \in {"none", "compile"} => HasSession(d)
          /\ r.error \in {"none", "compile"} /\ u.schema_snapshot = 0 =>
                r.commands \/ Fresh(s, d)

(* Between two requests. *)
Rest(u, s, d, p) ==
    /\ u.schema_snapshot = 0
    /\ u.window = "shown" =>
          /\ p = "idle"
          /\ u.state = "closed" /\ ~u.cleanup => NoSession(d)
    /\ u.state = "open" => u.window = "shown" /\ HasSession(d) /\ Fresh(s, d)
    /\ p \in {"idle", "destroy"}

(* The four places of a request: nowhere, on its way to the worker, at the *)
(* worker, or its answer on the way back.                                  *)
Quiet ==
    /\ ~ui.busy /\ inbox = <<>> /\ outbox = <<>> /\ worker.task = NoTask
    /\ Rest(ui, schema, db[Main], pc[Main])

Requested ==
    /\ ui.busy /\ Shown /\ Len(inbox) = 1 /\ outbox = <<>> /\ worker.task = NoTask
    /\ pc[Main] = "idle" /\ Sent(ui, schema, db[Main], inbox[1])

Served ==
    /\ ui.busy /\ Shown /\ inbox = <<>> /\ outbox = <<>> /\ worker.task # NoTask
    /\ IF worker.running
       THEN Running(ui, schema, db[Main], worker, pc[Main])
       ELSE pc[Main] = "idle" /\ Sent(ui, schema, db[Main], worker.task) /\ ~worker.created

Replied ==
    /\ ui.busy /\ Shown /\ inbox = <<>> /\ Len(outbox) = 1 /\ worker.task = NoTask
    /\ pc[Main] = "idle" /\ Told(ui, schema, db[Main], outbox[1])

Placed == Quiet \/ Requested \/ Served \/ Replied

GuiInv == IInv /\ GuiTypeOK /\ Placed

-----------------------------------------------------------------------------
(* The window and the worker use the Database as its objects may be used *)

LEMMA GuiNextIsNext == [GuiNext]_sessionVars => [Next]_lifecycle
<1> SUFFICES ASSUME [GuiNext]_sessionVars PROVE [Next]_lifecycle
  OBVIOUS
<1>0. Main \in Handles
  BY GuiAssumption
<1>1. CASE UNCHANGED sessionVars
  BY <1>1 DEF sessionVars
<1>2. CASE User
  BY <1>2 DEF User, open_directory, execute_editor_text, refresh_schema_browser, request_cancel,
     edit, apply_fix, closeEvent
<1>3. CASE WorkerStep
  <2>1. CASE Take \/ OpenReturns \/ CloseReturns \/ ScriptRefused \/ Raises
    BY <2>1 DEF Take, OpenReturns, CloseReturns, ScriptRefused, Raises
  <2>2. CASE Begin \/ Continue
    BY <2>2, <1>0 DEF Begin, Continue, Next, Lifecycle
  <2>3. CASE ScriptCreates \/ ScriptReturns \/ (AbortScript(Main) /\ UNCHANGED guiVars)
    BY <2>3, <1>0 DEF ScriptCreates, ScriptReturns, Next
  <2>4. CASE ScriptBreaks
    BY <2>4, <1>0 DEF ScriptBreaks, Next
  <2> QED
    BY <1>3, <2>1, <2>2, <2>3, <2>4 DEF WorkerStep
<1>4. CASE Handler
  BY <1>4 DEF Handler, on_opened, on_open_failed, on_closed, on_close_failed,
     on_refresh_finished, on_script_finished
<1>5. CASE Quit
  BY <1>5, <1>0 DEF Quit, Next, Lifecycle
<1> QED
  BY <1>1, <1>2, <1>3, <1>4, <1>5 DEF GuiNext

-----------------------------------------------------------------------------
(* Steps between the four places *)

LEMMA MainFacts ==
    ASSUME GuiInv
    PROVE  /\ Main \in Handles /\ db \in [Handles -> Impl] /\ pc \in [Handles -> Labels]
           /\ db[Main] \in Impl /\ Fits(db[Main], pc[Main], storage, abandoned)
BY GuiAssumption, ObjectFacts DEF GuiInv, IInv, TypeOK

LEMMA OfOneElement ==
    ASSUME NEW S, NEW s \in Seq(S), Len(s) = 1
    PROVE  Head(s) = s[1] /\ Tail(s) = <<>>
<1>1. s # <<>>
  OBVIOUS
<1>2. Tail(s) \in Seq(S) /\ Len(Tail(s)) = 0
  BY <1>1, HeadTailProperties
<1>3. Tail(s) = <<>>
  BY <1>2, EmptySeq, Zenon
<1>4. Head(s) = s[1]
  OBVIOUS
<1> QED
  BY <1>3, <1>4

(* A window that is not busy has no request under way, one that has an     *)
(* answer nothing else, and so on: where the request is decides the rest.  *)
LEMMA PlaceOfRequest ==
    ASSUME GuiInv
    PROVE  /\ ~ui.busy => Quiet
           /\ ui.window # "shown" => Quiet
           /\ inbox # <<>> => Requested /\ inbox[1] \in Requests
           /\ worker.task # NoTask => Served /\ worker.task \in Requests
           /\ outbox # <<>> => Replied /\ outbox[1] \in Answers
BY DEF GuiInv, GuiTypeOK, Placed, Quiet, Requested, Served, Replied, Shown, Workers

(* The request r leaves the window. *)
LEMMA RequestSent ==
    ASSUME NEW r \in Requests, inbox' = <<r>>, outbox' = <<>>, worker' \in Workers,
           worker'.task = NoTask, ui' \in Window, ui'.busy, ui'.window = "shown",
           schema' \in Browser, pc'[Main] = "idle", Sent(ui', schema', db'[Main], r)
    PROVE  GuiTypeOK' /\ Placed'
<1>1. inbox' \in Seq(Requests) /\ Len(inbox') = 1 /\ inbox'[1] = r
  OBVIOUS
<1>2. outbox' \in Seq(Answers)
  OBVIOUS
<1> QED
  BY <1>1, <1>2 DEF GuiTypeOK, Placed, Requested, Shown

(* The answer r leaves the worker. *)
LEMMA AnswerSent ==
    ASSUME NEW r \in Answers, GuiTypeOK, ui.busy, Shown, inbox = <<>>, outbox' = <<r>>,
           UNCHANGED <<ui, schema, inbox>>, worker' \in Workers, worker'.task = NoTask,
           pc'[Main] = "idle", Told(ui, schema, db'[Main], r)
    PROVE  GuiTypeOK' /\ Placed'
<1>1. outbox' \in Seq(Answers) /\ Len(outbox') = 1 /\ outbox'[1] = r
  OBVIOUS
<1> QED
  BY <1>1 DEF GuiTypeOK, Placed, Replied, Shown

(* Nothing is under way. *)
LEMMA RestReached ==
    ASSUME ui' \in Window, ~ui'.busy, schema' \in Browser, inbox' = <<>>, outbox' = <<>>,
           worker' \in Workers, worker'.task = NoTask, Rest(ui', schema', db'[Main], pc'[Main])
    PROVE  GuiTypeOK' /\ Placed'
BY DEF GuiTypeOK, Placed, Quiet

(* An answer in the outbox is the only thing under way. *)
LEMMA AnswerAlone ==
    ASSUME GuiInv, NEW kind, Answer(kind)
    PROVE  /\ Replied /\ inbox = <<>> /\ worker \in Workers /\ worker.task = NoTask
           /\ Head(outbox) = outbox[1] /\ Tail(outbox) = <<>>
           /\ outbox[1] \in Answers /\ outbox[1].kind = kind
           /\ pc[Main] = "idle" /\ Told(ui, schema, db[Main], outbox[1])
<1>1. Replied /\ outbox[1] \in Answers
  BY PlaceOfRequest DEF Answer
<1>2. outbox \in Seq(Answers) /\ Len(outbox) = 1
  BY <1>1 DEF Replied, GuiInv, GuiTypeOK
<1>3. Head(outbox) = outbox[1] /\ Tail(outbox) = <<>>
  BY <1>2, OfOneElement
<1> QED
  BY <1>1, <1>3 DEF Replied, Answer, GuiInv, GuiTypeOK

-----------------------------------------------------------------------------
(* What the user does *)

(* A quiet window has nothing in its queues. *)
LEMMA QuietFacts ==
    ASSUME GuiInv, ~ui.busy
    PROVE  /\ Quiet /\ inbox = <<>> /\ outbox = <<>> /\ worker \in Workers /\ worker.task = NoTask
           /\ ui \in Window /\ schema \in Browser
           /\ Rest(ui, schema, db[Main], pc[Main])
BY PlaceOfRequest DEF Quiet, GuiInv, GuiTypeOK

LEMMA RequestTypes ==
    /\ Request("open", 0, 0) \in Requests /\ Request("close", 0, 0) \in Requests
    /\ \A n \in Nat, t \in Nat :
          Request("execute", n, t) \in Requests /\ Request("schema", n, t) \in Requests
    /\ \A k, n, t : Request(k, n, t).kind = k /\ Request(k, n, t).snapshot = n
    /\ ClearedSchema \in Browser /\ ClearedSchema.status = "empty"
BY DEF Request, Requests, ClearedSchema, Browser

(* The first signal of an open, from a window without a request. *)
LEMMA OpeningSends ==
    ASSUME NEW u \in Window, NEW s \in Browser, u.schema_snapshot = 0, u.window = "shown",
           u.state = "closed" /\ ~u.cleanup => NoSession(db[Main])
    PROVE  /\ Opening(u).ui \in Window /\ Opening(u).ui.busy /\ Opening(u).ui.window = "shown"
           /\ Opening(u).signal \in Requests
           /\ Sent(Opening(u).ui, s, db[Main], Opening(u).signal)
<1>1. CASE CloseFirst(u)
  <2> DEFINE v == [u EXCEPT !.busy = TRUE, !.pending = TRUE]
             r == Request("close", 0, 0)
  <2>1. Opening(u).ui = v /\ Opening(u).signal = r
    BY <1>1 DEF Opening
  <2>2. v \in Window /\ v.busy /\ v.window = "shown" /\ v.schema_snapshot = 0
    BY DEF Window
  <2>3. r \in Requests /\ r.kind = "close"
    BY RequestTypes
  <2> HIDE DEF v, r
  <2> QED
    BY <2>1, <2>2, <2>3 DEF Sent, Scripted
<1>2. CASE ~CloseFirst(u)
  <2> DEFINE v == [u EXCEPT !.busy = TRUE]
             r == Request("open", 0, 0)
  <2>1. Opening(u).ui = v /\ Opening(u).signal = r
    BY <1>2 DEF Opening
  <2>2. v \in Window /\ v.busy /\ v.window = "shown" /\ v.schema_snapshot = 0
    BY DEF Window
  <2>3. r \in Requests /\ r.kind = "open"
    BY RequestTypes
  <2>4. NoSession(db[Main])
    BY <1>2 DEF CloseFirst, Window
  <2> HIDE DEF v, r
  <2> QED
    BY <2>1, <2>2, <2>3, <2>4 DEF Sent, Scripted
<1> QED
  BY <1>1, <1>2

LEMMA open_directory_Keeps == ASSUME GuiInv, open_directory PROVE GuiTypeOK' /\ Placed'
<1>1. ~ui.busy /\ Shown /\ ui' = Opening(ui).ui /\ inbox' = Append(inbox, Opening(ui).signal)
      /\ UNCHANGED <<lifecycle, schema, outbox, worker>>
  BY DEF open_directory
<1>2. Rest(ui, schema, db[Main], pc[Main]) /\ inbox = <<>> /\ outbox = <<>>
      /\ worker \in Workers /\ worker.task = NoTask /\ ui \in Window /\ schema \in Browser
  BY <1>1, QuietFacts
<1>3. /\ ui.schema_snapshot = 0 /\ ui.window = "shown" /\ pc[Main] = "idle"
      /\ ui.state = "closed" /\ ~ui.cleanup => NoSession(db[Main])
  BY <1>1, <1>2 DEF Rest, Shown
<1>4. inbox' = <<Opening(ui).signal>>
  BY <1>1, <1>2
<1>5. db' = db /\ pc' = pc
  BY <1>1 DEF lifecycle
<1> QED
  BY <1>1, <1>2, <1>3, <1>4, <1>5, OpeningSends, RequestSent

LEMMA execute_editor_text_Keeps ==
    ASSUME GuiInv, execute_editor_text PROVE GuiTypeOK' /\ Placed'
<1> DEFINE n == ui.counter + 1
           r == Request("execute", n, n)
<1>1. ~ui.busy /\ Shown /\ ui.state = "open"
      /\ ui' = [ui EXCEPT !.counter = n, !.executed = n, !.busy = TRUE,
                          !.token = n, !.cancel_pending = FALSE]
      /\ inbox' = Append(inbox, r) /\ UNCHANGED <<lifecycle, schema, outbox, worker>>
  BY DEF execute_editor_text, NewToken
<1>2. Rest(ui, schema, db[Main], pc[Main]) /\ inbox = <<>> /\ outbox = <<>>
      /\ worker \in Workers /\ worker.task = NoTask /\ ui \in Window /\ schema \in Browser
  BY <1>1, QuietFacts
<1>3. /\ ui.schema_snapshot = 0 /\ ui.window = "shown" /\ pc[Main] = "idle"
      /\ HasSession(db[Main]) /\ Fresh(schema, db[Main])
  BY <1>1, <1>2 DEF Rest, Shown
<1>4. n \in Nat /\ r \in Requests /\ r.kind = "execute" /\ r.snapshot = n
  BY <1>2, RequestTypes DEF Window
<1>5. inbox' = <<r>>
  BY <1>1, <1>2
<1> HIDE DEF n, r
<1>6. /\ ui' \in Window /\ ui'.busy /\ ui'.window = "shown" /\ ui'.state = "open"
      /\ ui'.schema_snapshot = 0 /\ ui'.executed = n
  BY <1>1, <1>2, <1>3, <1>4 DEF Window
<1>7. Sent(ui', schema, db[Main], r)
  BY <1>3, <1>4, <1>6 DEF Sent, Scripted, ScriptKnown, Expected
<1> QED
  BY <1>1, <1>2, <1>3, <1>4, <1>5, <1>6, <1>7, RequestSent DEF lifecycle

(* A refresh, from a window u that shows an open session. *)
LEMMA RefreshSends ==
    ASSUME NEW u \in Window, NEW s \in Browser, u.state = "open", ~u.busy, u.window = "shown",
           HasSession(db[Main])
    PROVE  /\ Refreshing(u) \in Window /\ Refreshing(u).busy /\ Refreshing(u).window = "shown"
           /\ \E r \in Requests :
                 RefreshSignals(u) = <<r>> /\ Sent(Refreshing(u), s, db[Main], r)
<1> DEFINE n == u.counter + 1
           r == Request("schema", n, n)
           v == [u EXCEPT !.counter = n, !.schema_snapshot = n, !.busy = TRUE,
                          !.token = n, !.cancel_pending = FALSE]
<1>1. Refreshing(u) = v /\ RefreshSignals(u) = <<r>>
  BY DEF Refreshing, RefreshSignals, NewToken
<1>2. n \in Nat /\ n # 0 /\ r \in Requests /\ r.kind = "schema" /\ r.snapshot = n
  BY RequestTypes DEF Window
<1>3. v \in Window /\ v.busy /\ v.window = "shown" /\ v.state = "open" /\ v.schema_snapshot = n
  BY <1>2 DEF Window
<1>4. Sent(v, s, db[Main], r)
  BY <1>2, <1>3 DEF Sent, Scripted, ScriptKnown, Expected
<1> QED
  BY <1>1, <1>2, <1>3, <1>4

LEMMA refresh_schema_browser_Keeps ==
    ASSUME GuiInv, refresh_schema_browser PROVE GuiTypeOK' /\ Placed'
<1>1. ~ui.busy /\ Shown /\ ui.state = "open" /\ ui' = Refreshing(ui)
      /\ inbox' = inbox \o RefreshSignals(ui) /\ UNCHANGED <<lifecycle, schema, outbox, worker>>
  BY DEF refresh_schema_browser
<1>2. Rest(ui, schema, db[Main], pc[Main]) /\ inbox = <<>> /\ outbox = <<>>
      /\ worker \in Workers /\ worker.task = NoTask /\ ui \in Window /\ schema \in Browser
  BY <1>1, QuietFacts
<1>3. ui.window = "shown" /\ pc[Main] = "idle" /\ HasSession(db[Main])
  BY <1>1, <1>2 DEF Rest, Shown
<1>4. PICK r \in Requests :
         RefreshSignals(ui) = <<r>> /\ Sent(Refreshing(ui), schema, db[Main], r)
  BY <1>1, <1>2, <1>3, RefreshSends
<1>5. inbox' = <<r>>
  BY <1>1, <1>2, <1>4
<1>6. Refreshing(ui) \in Window /\ Refreshing(ui).busy /\ Refreshing(ui).window = "shown"
  BY <1>1, <1>2, <1>3, RefreshSends
<1> QED
  BY <1>1, <1>2, <1>3, <1>4, <1>5, <1>6, RequestSent DEF lifecycle

(* The window's flags that no request depends on. *)
LEMMA request_cancel_Keeps == ASSUME GuiInv, request_cancel PROVE GuiTypeOK' /\ Placed'
<1>1. /\ ui \in Window /\ ui' = [ui EXCEPT !.cancel_pending = TRUE]
      /\ UNCHANGED <<lifecycle, schema, inbox, outbox, worker>>
  BY DEF request_cancel, GuiInv, GuiTypeOK
<1>2. /\ ui' \in Window /\ ui'.busy = ui.busy /\ ui'.state = ui.state /\ ui'.window = ui.window
      /\ ui'.cleanup = ui.cleanup
      /\ ui'.schema_snapshot = ui.schema_snapshot /\ ui'.executed = ui.executed
  BY <1>1 DEF Window
<1>3. GuiTypeOK'
  BY <1>1, <1>2 DEF GuiInv, GuiTypeOK
<1>4. Placed'
  BY <1>1, <1>2 DEF GuiInv, Placed, Quiet, Requested, Served, Replied, Shown, Rest, Sent, Running,
     Told, ScriptKnown, Expected, lifecycle
<1> QED
  BY <1>3, <1>4

LEMMA EditorKeeps ==
    ASSUME GuiInv, UNCHANGED <<lifecycle, ui, schema, inbox, outbox, worker>>
    PROVE  GuiTypeOK' /\ Placed'
BY DEF GuiInv, GuiTypeOK, Placed, Quiet, Requested, Served, Replied, Shown, lifecycle

LEMMA closeEvent_Keeps == ASSUME GuiInv, closeEvent PROVE GuiTypeOK' /\ Placed'
<1>1. ~ui.busy /\ Shown /\ UNCHANGED <<lifecycle, schema, outbox, worker>>
  BY DEF closeEvent, MayLeave
<1>2. Rest(ui, schema, db[Main], pc[Main]) /\ inbox = <<>> /\ outbox = <<>>
      /\ worker \in Workers /\ worker.task = NoTask /\ ui \in Window /\ schema \in Browser
  BY <1>1, QuietFacts
<1>3. ui.schema_snapshot = 0 /\ ui.window = "shown" /\ pc[Main] = "idle"
  BY <1>1, <1>2 DEF Rest, Shown
<1>4. CASE MayLeave(ui) /\ ui' = [ui EXCEPT !.window = "gone"] /\ UNCHANGED inbox
  <2>1. /\ ui' \in Window /\ ~ui'.busy /\ ui'.schema_snapshot = 0 /\ ui'.window = "gone"
        /\ ui'.state = "closed"
    BY <1>1, <1>2, <1>3, <1>4 DEF Window, MayLeave
  <2>2. Rest(ui', schema', db'[Main], pc'[Main])
    BY <1>1, <1>3, <2>1 DEF Rest, lifecycle
  <2> QED
    BY <1>1, <1>2, <1>4, <2>1, <2>2, RestReached
<1>5. CASE /\ ui' = [ui EXCEPT !.busy = TRUE, !.closing = TRUE]
           /\ inbox' = Append(inbox, Request("close", 0, 0))
  <2>1. ui' \in Window /\ ui'.busy /\ ui'.schema_snapshot = 0 /\ ui'.window = "shown"
    BY <1>1, <1>2, <1>3, <1>5 DEF Window
  <2>2. inbox' = <<Request("close", 0, 0)>>
    BY <1>2, <1>5
  <2>3. Sent(ui', schema', db'[Main], Request("close", 0, 0))
    BY <2>1, RequestTypes DEF Sent, Scripted
  <2> QED
    BY <1>1, <1>2, <1>3, <2>1, <2>2, <2>3, RequestTypes, RequestSent DEF lifecycle
<1> QED
  BY <1>4, <1>5 DEF closeEvent

-----------------------------------------------------------------------------
(* What the worker does *)

LEMMA ServedFacts ==
    ASSUME GuiInv, worker.task # NoTask
    PROVE  /\ Served /\ ui.busy /\ Shown /\ inbox = <<>> /\ outbox = <<>>
           /\ ui \in Window /\ schema \in Browser
           /\ worker \in Workers /\ worker.task \in Requests
           /\ worker.running => Running(ui, schema, db[Main], worker, pc[Main])
           /\ ~worker.running =>
                 pc[Main] = "idle" /\ Sent(ui, schema, db[Main], worker.task) /\ ~worker.created
BY PlaceOfRequest DEF Served, GuiInv, GuiTypeOK

(* A call that is neither idle nor the destructor's is the worker's. *)
LEMMA CallServed ==
    ASSUME GuiInv, pc[Main] \notin {"idle", "destroy"}
    PROVE  /\ worker.task # NoTask /\ worker.running
           /\ pc[Main] \in OpeningAt => worker.task.kind = "open"
           /\ pc[Main] \in {"close", "retry"} => worker.task.kind = "close"
           /\ pc[Main] \in {"script", "abort"} => worker.task.kind \in Scripted
<1>1. worker.task # NoTask
  BY DEF GuiInv, Placed, Quiet, Requested, Served, Replied, Rest
<1>2. worker.running /\ Running(ui, schema, db[Main], worker, pc[Main])
  BY <1>1, ServedFacts
<1>3. worker.task.kind \in {"open", "close", "execute", "schema"}
  BY <1>1, ServedFacts DEF Requests
<1> QED
  BY <1>1, <1>2, <1>3 DEF Running, OpeningAt, Scripted

(* The worker goes on with a request. *)
LEMMA ServingKeeps ==
    ASSUME GuiInv, worker.task # NoTask, UNCHANGED <<ui, schema, inbox, outbox>>,
           worker' \in Workers, worker'.task # NoTask, worker'.running,
           Running(ui, schema, db'[Main], worker', pc'[Main])
    PROVE  GuiTypeOK' /\ Placed'
BY ServedFacts DEF GuiInv, GuiTypeOK, Placed, Served, Shown

LEMMA TakeKeeps == ASSUME GuiInv, Take PROVE GuiTypeOK' /\ Placed'
<1>1. /\ inbox # <<>> /\ inbox' = Tail(inbox) /\ UNCHANGED <<lifecycle, ui, schema, outbox>>
      /\ worker' = [worker EXCEPT !.task = Head(inbox), !.running = FALSE,
                                  !.created = FALSE, !.broken = FALSE]
  BY DEF Take
<1>2. Requested /\ inbox[1] \in Requests
  BY <1>1, PlaceOfRequest
<1>3. Head(inbox) = inbox[1] /\ Tail(inbox) = <<>>
  BY <1>2, OfOneElement DEF Requested, GuiInv, GuiTypeOK
<1>4. inbox[1] # NoTask
  BY <1>2 DEF Requests, NoTask
<1>5. worker' \in Workers /\ worker'.task = inbox[1] /\ ~worker'.running /\ ~worker'.created
  BY <1>1, <1>2, <1>3 DEF GuiInv, GuiTypeOK, Workers
<1>6. GuiTypeOK'
  BY <1>1, <1>3, <1>5 DEF GuiInv, GuiTypeOK
<1>7. Served'
  BY <1>1, <1>2, <1>3, <1>4, <1>5 DEF Requested, Served, Shown, lifecycle
<1> QED
  BY <1>6, <1>7 DEF Placed

LEMMA BeginKeeps == ASSUME GuiInv, Begin PROVE GuiTypeOK' /\ Placed'
<1>1. /\ worker.task # NoTask /\ ~worker.running /\ UNCHANGED <<ui, schema, inbox, outbox>>
      /\ worker' = [worker EXCEPT !.running = TRUE]
  BY DEF Begin
<1>2. /\ worker \in Workers /\ worker.task \in Requests /\ ~worker.created
      /\ Sent(ui, schema, db[Main], worker.task) /\ pc[Main] = "idle"
  BY <1>1, ServedFacts
<1>3. /\ worker' \in Workers /\ worker'.task = worker.task /\ worker'.running
      /\ worker'.created = worker.created
  BY <1>1, <1>2 DEF Workers
<1>4. CASE Serving("open") /\ open(Main)
  <2>1. pc'[Main] = "open_storage" /\ worker.task.kind = "open"
    BY <1>4, MainFacts DEF open, Serving
  <2> QED
    BY <1>1, <1>2, <1>3, <2>1, ServingKeeps DEF Running, Sent, OpeningAt, Scripted
<1>5. CASE Serving("close") /\ close(Main)
  <2>1. worker.task.kind = "close"
    BY <1>5 DEF Serving
  <2>2. pc'[Main] \in {"close", "retry", "idle"} /\ (pc'[Main] # "close" => ~db'[Main].open)
    BY <1>2, <1>5, MainFacts DEF close, Impl
  <2> QED
    BY <1>1, <1>2, <1>3, <2>1, <2>2, ServingKeeps DEF Running, Sent, Scripted
<1>6. CASE worker.task.kind \in Scripted /\ BeginScript(Main)
  <2>1. pc'[Main] = "script" /\ db' = db
    BY <1>6, MainFacts DEF BeginScript
  <2> QED
    BY <1>1, <1>2, <1>3, <1>6, <2>1, ServingKeeps DEF Running, Sent, Scripted
<1> QED
  BY <1>4, <1>5, <1>6 DEF Begin, Scripted

(* What Cleared and Pending leave of a session. *)
LEMMA SessionLeft ==
    /\ NoSession(Cleared) /\ ~Cleared.open
    /\ \A b \in BOOLEAN : ~Pending(b).open /\ HasSession(Pending(b))
BY DEF NoSession, HasSession, Cleared, Pending

LEMMA ContinueKeeps == ASSUME GuiInv, Continue PROVE GuiTypeOK' /\ Placed'
<1>1. UNCHANGED <<ui, schema, inbox, outbox, worker>>
  BY DEF Continue, guiVars
<1>2. Main \in Handles /\ db \in [Handles -> Impl] /\ pc \in [Handles -> Labels]
  BY MainFacts
<1>3. CASE OpenStorage(Main) \/ ListTables(Main) \/ AbortOpen(Main)
  <2>1. pc[Main] \in OpeningAt
    BY <1>3 DEF OpenStorage, ListTables, AbortOpen, OpeningAt
  <2>2. worker.task # NoTask /\ worker.running /\ worker.task.kind = "open"
    BY <2>1, CallServed DEF OpeningAt
  <2>3. pc'[Main] \in OpeningAt \cup {"idle"}
    BY <1>2, <1>3 DEF OpenStorage, ListTables, AbortOpen, OpeningAt
  <2> QED
    BY <1>1, <2>2, <2>3, ServedFacts, ServingKeeps DEF Running, Scripted
<1>4. CASE CloseOpen(Main) \/ RetryClose(Main)
  <2>1. pc[Main] \in {"close", "retry"}
    BY <1>4 DEF CloseOpen, RetryClose
  <2>2. worker.task # NoTask /\ worker.running /\ worker.task.kind = "close"
    BY <2>1, CallServed
  <2>3. pc'[Main] = "idle"
    BY <1>2, <1>4 DEF CloseOpen, RetryClose
  <2>4. ~db'[Main].open
    <3>1. CASE CloseOpen(Main)
      BY <1>2, <3>1, SessionLeft DEF CloseOpen
    <3>2. CASE RetryClose(Main)
      <4>1. ~db[Main].open
        BY <3>2, <2>2, ServedFacts DEF RetryClose, Running
      <4> QED
        BY <1>2, <3>2, <4>1 DEF RetryClose, Impl
    <3> QED
      BY <1>4, <3>1, <3>2
  <2> QED
    BY <1>1, <2>2, <2>3, <2>4, ServedFacts, ServingKeeps DEF Running, Scripted
<1> QED
  BY <1>3, <1>4 DEF Continue

LEMMA AnswerTypes ==
    /\ \A k \in {"opened", "open_failed", "closed", "close_failed"} :
          Lifecycle_(k) \in Answers /\ Lifecycle_(k).kind = k
    /\ NoTask.kind = "none" /\ NoTask \notin Requests
BY DEF Lifecycle_, Answers, LifecycleAnswers, NoTask, Requests

(* An open or a close is answered. *)
LEMMA LifecycleAnswered ==
    ASSUME GuiInv, worker.task.kind \in {"open", "close"},
           NEW k \in {"opened", "open_failed", "closed", "close_failed"},
           outbox' = Append(outbox, Lifecycle_(k)), UNCHANGED <<lifecycle, ui, schema, inbox>>,
           pc[Main] = "idle", worker' \in Workers, worker'.task = NoTask,
           k = "opened" => db[Main].open, k = "closed" => NoSession(db[Main])
    PROVE  GuiTypeOK' /\ Placed'
<1>1. worker.task # NoTask
  BY AnswerTypes
<1>2. outbox' = <<Lifecycle_(k)>>
  BY <1>1, ServedFacts
<1>3. ui.schema_snapshot = 0
  BY <1>1, ServedFacts DEF Running, Sent
<1>4. Told(ui, schema, db'[Main], Lifecycle_(k))
  BY <1>3, AnswerTypes DEF Told, lifecycle
<1> QED
  BY <1>1, <1>2, <1>4, AnswerTypes, ServedFacts, AnswerSent DEF GuiInv, lifecycle

LEMMA OpenReturnsKeeps == ASSUME GuiInv, OpenReturns PROVE GuiTypeOK' /\ Placed'
<1>1. /\ worker.task.kind = "open" /\ pc[Main] = "idle"
      /\ worker' = [worker EXCEPT !.task = NoTask, !.open_reported = db[Main].open]
      /\ outbox' = Append(outbox, Lifecycle_(IF db[Main].open THEN "opened" ELSE "open_failed"))
      /\ UNCHANGED <<lifecycle, ui, schema, inbox>>
  BY DEF OpenReturns, Serving, Idle, Emit
<1>2. worker' \in Workers /\ worker'.task = NoTask
  BY <1>1, MainFacts DEF GuiInv, GuiTypeOK, Workers, Impl
<1> QED
  BY <1>1, <1>2, LifecycleAnswered

LEMMA CloseReturnsKeeps == ASSUME GuiInv, CloseReturns PROVE GuiTypeOK' /\ Placed'
<1> DEFINE error == IF worker.running THEN IF db[Main].forced THEN "storage" ELSE "none"
                    ELSE "execute"
           ok == close_succeeded(worker.open_reported, error)
<1>1. /\ worker.task.kind = "close" /\ pc[Main] = "idle"
      /\ worker.running \/ ~(db[Main].open \/ db[Main].forced)
      /\ worker' = [worker EXCEPT !.task = NoTask, !.open_reported = FALSE]
      /\ outbox' = Append(outbox, Lifecycle_(IF ok THEN "closed" ELSE "close_failed"))
      /\ UNCHANGED <<lifecycle, ui, schema, inbox>>
  BY DEF CloseReturns, Serving, Idle, Emit
<1>2. worker' \in Workers /\ worker'.task = NoTask
  BY <1>1 DEF GuiInv, GuiTypeOK, Workers
<1>3. worker.task # NoTask
  BY <1>1, AnswerTypes
<1>4. ok => NoSession(db[Main])
  <2>1. CASE worker.running
    BY <1>1, <1>3, <2>1, ServedFacts, MainFacts DEF Running, close_succeeded, NoSession
  <2>2. CASE ~worker.running
    BY <1>1, <2>2 DEF NoSession
  <2> QED
    BY <2>1, <2>2
<1> HIDE DEF ok
<1> QED
  BY <1>1, <1>2, <1>4, LifecycleAnswered

(* A script at work: its call, and what is known of it. *)
LEMMA ScriptFacts ==
    ASSUME GuiInv, pc[Main] \in {"script", "abort"}
    PROVE  /\ worker.task # NoTask /\ worker.running /\ worker.task.kind \in Scripted
           /\ worker \in Workers /\ ScriptKnown(ui, worker.task) /\ HasSession(db[Main])
           /\ worker.task.kind = "execute" => worker.created \/ Fresh(schema, db[Main])
<1>1. worker.task # NoTask /\ worker.running /\ worker.task.kind \in Scripted
  BY CallServed
<1> QED
  BY <1>1, ServedFacts DEF Running

LEMMA ScriptCreatesKeeps == ASSUME GuiInv, ScriptCreates PROVE GuiTypeOK' /\ Placed'
<1>1. PICK t \in Tables : CreateTable(Main, t)
  BY DEF ScriptCreates
<1>2. /\ worker' = [worker EXCEPT !.created = TRUE] /\ UNCHANGED <<ui, schema, inbox, outbox>>
  BY DEF ScriptCreates
<1>3. pc[Main] = "script" /\ pc'[Main] = "script" /\ db'[Main].open
  BY <1>1, MainFacts DEF CreateTable, Impl
<1>4. /\ worker' \in Workers /\ worker'.task = worker.task /\ worker'.running /\ worker'.created
  BY <1>2, <1>3, ScriptFacts DEF Workers
<1>5. Running(ui, schema, db'[Main], worker', pc'[Main])
  BY <1>3, <1>4, ScriptFacts DEF Running, Scripted, HasSession
<1> QED
  BY <1>2, <1>3, <1>4, <1>5, ScriptFacts, ServingKeeps

LEMMA ScriptBreaksKeeps == ASSUME GuiInv, ScriptBreaks PROVE GuiTypeOK' /\ Placed'
<1>1. PICK created : StorageException(Main, created)
  BY DEF ScriptBreaks
<1>2. worker' = [worker EXCEPT !.broken = TRUE] /\ UNCHANGED <<ui, schema, inbox, outbox>>
  BY DEF ScriptBreaks
<1>3. pc[Main] = "script" /\ pc'[Main] = "abort" /\ db' = db
  BY <1>1, MainFacts DEF StorageException
<1>4. /\ worker' \in Workers /\ worker'.task = worker.task /\ worker'.running
      /\ worker'.created = worker.created
  BY <1>2, <1>3, ScriptFacts DEF Workers
<1>5. Running(ui, schema, db'[Main], worker', pc'[Main])
  BY <1>3, <1>4, ScriptFacts DEF Running, Scripted
<1> QED
  BY <1>2, <1>3, <1>4, <1>5, ScriptFacts, ServingKeeps

LEMMA AbortScriptServed ==
    ASSUME GuiInv, AbortScript(Main), UNCHANGED guiVars PROVE GuiTypeOK' /\ Placed'
<1>1. PICK result : db' = [db EXCEPT ![Main] = Pending(~Clean(result))]
  BY DEF AbortScript
<1>2. pc[Main] = "abort" /\ pc'[Main] = "script"
  BY MainFacts DEF AbortScript
<1>3. ~db'[Main].open /\ HasSession(db'[Main])
  BY <1>1, MainFacts, SessionLeft DEF Clean
<1>4. UNCHANGED <<ui, schema, inbox, outbox, worker>>
  BY DEF guiVars
<1>5. Running(ui, schema, db'[Main], worker', pc'[Main])
  BY <1>2, <1>3, <1>4, ScriptFacts DEF Running, Scripted, Fresh
<1> QED
  BY <1>2, <1>4, <1>5, ScriptFacts, ServingKeeps

(* A script is answered: with the catalog, and honestly. *)
LEMMA ScriptAnswered ==
    ASSUME GuiInv, worker.task # NoTask, worker.task.kind \in Scripted,
           NEW error \in {"none", "compile", "internal", "execute"},
           NEW cut \in BOOLEAN, NEW failed \in BOOLEAN, NEW commands \in BOOLEAN,
           outbox' = Append(outbox, Outcome(error, cut, failed, commands)),
           UNCHANGED <<db, ui, schema, inbox>>, pc'[Main] = "idle",
           worker' \in Workers, worker'.task = NoTask,
           error \in {"none", "compile"} =>
               worker.running /\ (worker.created => commands)
    PROVE  GuiTypeOK' /\ Placed'
<1> DEFINE r == Outcome(error, cut, failed, commands)
<1>1. /\ ui.busy /\ Shown /\ inbox = <<>> /\ outbox = <<>> /\ ui \in Window
      /\ worker.task \in Requests /\ ScriptKnown(ui, worker.task) /\ HasSession(db[Main])
  BY ServedFacts DEF Running, Sent
<1>2. error \in {"none", "compile"} /\ worker.task.kind = "execute" =>
         commands \/ Fresh(schema, db[Main])
  BY ServedFacts DEF Running
<1>3. /\ r.kind = "script" /\ r.snapshot = worker.task.snapshot /\ r.error = error
      /\ r.commands = commands /\ r.tables = db[Main].catalog
  BY DEF Outcome
<1>4. r \in Answers
  BY <1>1, MainFacts DEF Outcome, Answers, ScriptAnswers, Requests, Impl
<1>5. outbox' = <<r>>
  BY <1>1
<1> HIDE DEF r
<1>6. Told(ui, schema, db'[Main], r)
  BY <1>1, <1>2, <1>3 DEF Told, ScriptKnown, Scripted
<1> QED
  BY <1>1, <1>4, <1>5, <1>6, AnswerSent DEF GuiInv

LEMMA ScriptReturnsKeeps == ASSUME GuiInv, ScriptReturns PROVE GuiTypeOK' /\ Placed'
<1>1. PICK error \in {"none", "compile", "internal"}, cut \in BOOLEAN, failed \in BOOLEAN,
           commands \in BOOLEAN :
         /\ worker.created => commands
         /\ Emit(Outcome(error, cut, failed, commands))
  BY DEF ScriptReturns
<1>2. /\ worker.running /\ pc[Main] = "script" /\ pc'[Main] = "idle" /\ db' = db
      /\ worker' = [worker EXCEPT !.task = NoTask]
  BY MainFacts DEF ScriptReturns, EndScript
<1>3. worker' \in Workers /\ worker'.task = NoTask
  BY <1>2, ScriptFacts DEF Workers
<1> QED
  BY <1>1, <1>2, <1>3, ScriptFacts, ScriptAnswered DEF Emit

LEMMA ScriptRefusedKeeps == ASSUME GuiInv, ScriptRefused PROVE GuiTypeOK' /\ Placed'
<1>1. /\ worker.task.kind \in Scripted /\ ~worker.running /\ UNCHANGED lifecycle
      /\ Emit(Outcome("execute", FALSE, FALSE, FALSE))
      /\ worker' = [worker EXCEPT !.task = NoTask]
  BY DEF ScriptRefused, Scripted
<1>2. worker.task # NoTask
  BY <1>1, AnswerTypes DEF Scripted
<1>3. worker' \in Workers /\ worker'.task = NoTask /\ pc'[Main] = "idle" /\ db' = db
  BY <1>1, <1>2, ServedFacts DEF Workers, lifecycle
<1> QED
  BY <1>1, <1>2, <1>3, ScriptAnswered DEF Emit

LEMMA RaisesKeeps == ASSUME GuiInv, Raises PROVE GuiTypeOK' /\ Placed'
<1>1. /\ worker.task # NoTask /\ ~worker.running
      /\ worker' = [worker EXCEPT !.task = NoTask]
      /\ UNCHANGED <<lifecycle, ui, schema, inbox>>
  BY DEF Raises
<1>2. worker.task.kind \in {"open", "close", "execute", "schema"} /\ pc[Main] = "idle"
      /\ worker' \in Workers /\ worker'.task = NoTask
  BY <1>1, ServedFacts DEF Requests, Workers
<1>3. CASE worker.task.kind = "open"
  <2>1. outbox' = Append(outbox, Lifecycle_("open_failed"))
    BY <1>3 DEF Raises, Caught, Serving
  <2> QED
    BY <1>1, <1>2, <1>3, <2>1, LifecycleAnswered
<1>4. CASE worker.task.kind = "close"
  <2>1. outbox' = Append(outbox, Lifecycle_("close_failed"))
    BY <1>4 DEF Raises, Caught, Serving
  <2> QED
    BY <1>1, <1>2, <1>4, <2>1, LifecycleAnswered
<1>5. CASE worker.task.kind \in Scripted
  <2>1. outbox' = Append(outbox, Outcome("internal", FALSE, FALSE, FALSE))
    BY <1>5 DEF Raises, Caught, Serving, Scripted
  <2> QED
    BY <1>1, <1>2, <1>5, <2>1, ScriptAnswered DEF lifecycle
<1> QED
  BY <1>2, <1>3, <1>4, <1>5 DEF Scripted

(* The Database ends after the window, which has no request under way. *)
LEMMA QuitKeeps == ASSUME GuiInv, Quit PROVE GuiTypeOK' /\ Placed'
<1>1. ui.window = "gone" /\ UNCHANGED guiVars
  BY DEF Quit
<1>2. Quiet
  BY <1>1, PlaceOfRequest
<1>3. pc'[Main] \in {"idle", "destroy"}
  BY <1>2, MainFacts DEF Quit, destroy, DestroyOwner, Quiet, Rest
<1>4. Quiet'
  BY <1>1, <1>2, <1>3 DEF Quiet, Rest, guiVars
<1>5. GuiTypeOK'
  BY <1>1 DEF GuiInv, GuiTypeOK, guiVars
<1> QED
  BY <1>4, <1>5 DEF Placed

-----------------------------------------------------------------------------
(* What the window does with an answer *)

(* The window after an answer, and the schema browser after a refresh. *)
LEMMA on_opened_Keeps == ASSUME GuiInv, on_opened PROVE GuiTypeOK' /\ Placed'
<1> DEFINE u == [Answered EXCEPT !.state = "open"]
<1>1. /\ Answer("opened") /\ ui' = Refreshing(u) /\ inbox' = inbox \o RefreshSignals(u)
      /\ schema' = ClearedSchema /\ outbox' = Tail(outbox) /\ UNCHANGED <<lifecycle, worker>>
  BY DEF on_opened
<1>2. /\ inbox = <<>> /\ worker \in Workers /\ worker.task = NoTask /\ Tail(outbox) = <<>>
      /\ pc[Main] = "idle" /\ Told(ui, schema, db[Main], outbox[1]) /\ outbox[1].kind = "opened"
  BY <1>1, AnswerAlone
<1>3. HasSession(db[Main])
  BY <1>2 DEF Told, HasSession
<1>4. u \in Window /\ u.state = "open" /\ ~u.busy /\ u.window = "shown"
  BY <1>1 DEF GuiInv, GuiTypeOK, Window, Answered, Answer, Shown
<1> HIDE DEF u
<1>5. PICK r \in Requests :
         RefreshSignals(u) = <<r>> /\ Sent(Refreshing(u), ClearedSchema, db[Main], r)
  BY <1>3, <1>4, RefreshSends, RequestTypes
<1>6. Refreshing(u) \in Window /\ Refreshing(u).busy /\ Refreshing(u).window = "shown"
  BY <1>3, <1>4, RefreshSends, RequestTypes
<1>7. inbox' = <<r>>
  BY <1>1, <1>2, <1>5
<1> QED
  BY <1>1, <1>2, <1>5, <1>6, <1>7, RequestTypes, RequestSent DEF lifecycle

LEMMA on_open_failed_Keeps == ASSUME GuiInv, on_open_failed PROVE GuiTypeOK' /\ Placed'
<1>1. /\ Answer("open_failed") /\ ui' = [Answered EXCEPT !.cleanup = TRUE, !.state = "closed"]
      /\ outbox' = Tail(outbox) /\ UNCHANGED <<lifecycle, schema, inbox, worker>>
  BY DEF on_open_failed
<1>2. /\ inbox = <<>> /\ worker \in Workers /\ worker.task = NoTask /\ Tail(outbox) = <<>>
      /\ pc[Main] = "idle" /\ Told(ui, schema, db[Main], outbox[1])
      /\ outbox[1].kind = "open_failed"
  BY <1>1, AnswerAlone
<1>3. ui.schema_snapshot = 0
  BY <1>2 DEF Told
<1>4. /\ ui' \in Window /\ ~ui'.busy /\ ui'.state = "closed" /\ ui'.cleanup
      /\ ui'.schema_snapshot = 0
  BY <1>1, <1>3 DEF GuiInv, GuiTypeOK, Window, Answered
<1>5. Rest(ui', schema', db'[Main], pc'[Main])
  BY <1>1, <1>2, <1>4 DEF Rest, lifecycle
<1> QED
  BY <1>1, <1>2, <1>4, <1>5, RestReached DEF GuiInv, GuiTypeOK

LEMMA on_closed_Keeps == ASSUME GuiInv, on_closed PROVE GuiTypeOK' /\ Placed'
<1> DEFINE u == [Answered EXCEPT !.cleanup = FALSE, !.state = "closed"]
           v == [u EXCEPT !.pending = FALSE]
<1>1. /\ Answer("closed") /\ schema' = ClearedSchema /\ outbox' = Tail(outbox)
      /\ UNCHANGED <<lifecycle, worker>>
  BY DEF on_closed
<1>2. /\ inbox = <<>> /\ worker \in Workers /\ worker.task = NoTask /\ Tail(outbox) = <<>>
      /\ pc[Main] = "idle" /\ Told(ui, schema, db[Main], outbox[1]) /\ outbox[1].kind = "closed"
  BY <1>1, AnswerAlone
<1>3. ui.schema_snapshot = 0 /\ NoSession(db[Main])
  BY <1>2 DEF Told
<1>4. /\ u \in Window /\ ~u.busy /\ u.state = "closed" /\ u.schema_snapshot = 0
      /\ u.window = "shown"
  BY <1>1, <1>3 DEF GuiInv, GuiTypeOK, Window, Answered, Answer, Shown
<1>5. CASE ui' = Opening(v).ui /\ inbox' = Append(inbox, Opening(v).signal)
  <2>1. v \in Window /\ v.schema_snapshot = 0 /\ v.window = "shown"
    BY <1>4 DEF Window
  <2>2. inbox' = <<Opening(v).signal>>
    BY <1>2, <1>5
  <2> HIDE DEF v
  <2> QED
    BY <1>1, <1>2, <1>3, <1>5, <2>1, <2>2, OpeningSends, RequestTypes, RequestSent DEF lifecycle
<1>6. CASE /\ ui' = [u EXCEPT !.window = IF u.closing THEN "gone" ELSE "shown"]
           /\ UNCHANGED inbox
  <2>1. ui' \in Window /\ ~ui'.busy /\ ui'.state = "closed" /\ ui'.schema_snapshot = 0
    BY <1>4, <1>6 DEF Window
  <2>2. Rest(ui', schema', db'[Main], pc'[Main])
    BY <1>1, <1>2, <1>3, <2>1 DEF Rest, lifecycle
  <2> QED
    BY <1>1, <1>2, <1>6, <2>1, <2>2, RestReached, RequestTypes
<1> QED
  BY <1>5, <1>6 DEF on_closed

LEMMA on_close_failed_Keeps == ASSUME GuiInv, on_close_failed PROVE GuiTypeOK' /\ Placed'
<1>1. /\ Answer("close_failed")
      /\ ui' = [Answered EXCEPT !.pending = FALSE, !.state = "reopen", !.closing = FALSE,
                                !.window = IF ui.closing THEN "gone" ELSE "shown"]
      /\ schema' = ClearedSchema /\ outbox' = Tail(outbox) /\ UNCHANGED <<lifecycle, inbox, worker>>
  BY DEF on_close_failed, AfterCloseFailed
<1>2. /\ inbox = <<>> /\ worker \in Workers /\ worker.task = NoTask /\ Tail(outbox) = <<>>
      /\ pc[Main] = "idle" /\ Told(ui, schema, db[Main], outbox[1])
      /\ outbox[1].kind = "close_failed"
  BY <1>1, AnswerAlone
<1>3. ui.schema_snapshot = 0
  BY <1>2 DEF Told
<1>4. ui' \in Window /\ ~ui'.busy /\ ui'.state = "reopen" /\ ui'.schema_snapshot = 0
  BY <1>1, <1>3 DEF GuiInv, GuiTypeOK, Window, Answered
<1>5. Rest(ui', schema', db'[Main], pc'[Main])
  BY <1>1, <1>2, <1>4 DEF Rest, lifecycle
<1> QED
  BY <1>1, <1>2, <1>4, <1>5, RestReached, RequestTypes

(* Whether an answer to a script ends the session. *)
LEMMA FinishedFacts ==
    ASSUME GuiInv, NEW error \in {"none", "compile", "internal", "execute"}, Answer("script")
    PROVE  /\ Finished(error) \in Window /\ ~Finished(error).busy
           /\ Finished(error).window = "shown"
           /\ Finished(error).schema_snapshot = ui.schema_snapshot
           /\ Finished(error).state = next_session_state(ui.state, error)
           /\ error \in {"none", "compile"} => Finished(error).state = ui.state
           /\ error \notin {"none", "compile"} => Finished(error).state = "reopen"
BY DEF GuiInv, GuiTypeOK, Window, Finished, Answered, Answer, Shown, next_session_state

LEMMA on_refresh_finished_Keeps ==
    ASSUME GuiInv, on_refresh_finished PROVE GuiTypeOK' /\ Placed'
<1> DEFINE r == outbox[1]
           u == [Finished(r.error) EXCEPT !.schema_snapshot = 0]
<1>1. Answer("script")
  BY DEF on_refresh_finished
<1>2. /\ inbox = <<>> /\ worker \in Workers /\ worker.task = NoTask /\ Tail(outbox) = <<>>
      /\ Head(outbox) = r /\ r \in Answers /\ r.kind = "script"
      /\ pc[Main] = "idle" /\ Told(ui, schema, db[Main], r)
  BY <1>1, AnswerAlone
<1>3. /\ ui' = u /\ schema' = SchemaAfter(r) /\ outbox' = Tail(outbox)
      /\ UNCHANGED <<lifecycle, inbox, worker>>
  BY <1>2 DEF on_refresh_finished
<1>4. r \in ScriptAnswers
  BY <1>2 DEF Answers, LifecycleAnswers
<1> HIDE DEF r
<1>5. /\ ui.state = "open" /\ r.tables = db[Main].catalog
      /\ r.error \in {"none", "compile"} => HasSession(db[Main])
  BY <1>2 DEF Told
<1>6. /\ u \in Window /\ ~u.busy /\ u.schema_snapshot = 0 /\ u.window = "shown"
      /\ u.state = next_session_state(ui.state, r.error) /\ u.state \in {"open", "reopen"}
      /\ u.state = "open" => r.error \in {"none", "compile"}
  BY <1>1, <1>4, <1>5, FinishedFacts DEF ScriptAnswers, Window
<1> HIDE DEF u
<1>7. schema' \in Browser /\ Fresh(schema', db[Main])
  BY <1>3, <1>4, <1>5, RequestTypes
     DEF SchemaAfter, Browser, Fresh, ScriptAnswers, GuiInv, GuiTypeOK
<1>8. Rest(ui', schema', db'[Main], pc'[Main])
  BY <1>2, <1>3, <1>5, <1>6, <1>7 DEF Rest, lifecycle
<1> QED
  BY <1>2, <1>3, <1>6, <1>7, <1>8, RestReached

LEMMA on_script_finished_Keeps ==
    ASSUME GuiInv, on_script_finished PROVE GuiTypeOK' /\ Placed'
<1> DEFINE r == outbox[1]
           u == Finished(r.error)
<1>1. Answer("script")
  BY DEF on_script_finished
<1>2. /\ inbox = <<>> /\ worker \in Workers /\ worker.task = NoTask /\ Tail(outbox) = <<>>
      /\ Head(outbox) = r /\ r \in Answers /\ r.kind = "script"
      /\ pc[Main] = "idle" /\ Told(ui, schema, db[Main], r)
  BY <1>1, AnswerAlone
<1>3. /\ ~IsRefresh(r) /\ schema' = (IF u.state = "reopen" THEN ClearedSchema ELSE schema)
      /\ IF NeedsRefresh(r)
         THEN ui' = Refreshing(u) /\ inbox' = inbox \o RefreshSignals(u)
         ELSE ui' = u /\ UNCHANGED inbox
      /\ outbox' = Tail(outbox) /\ UNCHANGED <<lifecycle, worker>>
  BY <1>2 DEF on_script_finished
<1>4. r \in ScriptAnswers
  BY <1>2 DEF Answers, LifecycleAnswers
<1> HIDE DEF r
<1>5. /\ ui.state = "open" /\ ui.schema_snapshot = 0
      /\ r.error \in {"none", "compile"} =>
            HasSession(db[Main]) /\ (r.commands \/ Fresh(schema, db[Main]))
  BY <1>2, <1>3 DEF Told, Expected, IsRefresh
<1>6. /\ u \in Window /\ ~u.busy /\ u.schema_snapshot = 0 /\ u.window = "shown"
      /\ u.state \in {"open", "reopen"}
      /\ u.state = "open" => r.error \in {"none", "compile"}
  BY <1>1, <1>4, <1>5, FinishedFacts DEF ScriptAnswers
<1> HIDE DEF u
<1>7. schema' \in Browser
  BY <1>3, RequestTypes DEF GuiInv, GuiTypeOK
<1>8. CASE NeedsRefresh(r) /\ u.state = "open"
  <2>1. PICK q \in Requests :
           RefreshSignals(u) = <<q>> /\ Sent(Refreshing(u), schema', db[Main], q)
    BY <1>5, <1>6, <1>7, <1>8, RefreshSends
  <2>2. Refreshing(u) \in Window /\ Refreshing(u).busy /\ Refreshing(u).window = "shown"
    BY <1>5, <1>6, <1>7, <1>8, RefreshSends
  <2>3. inbox' = <<q>>
    BY <1>2, <1>3, <1>8, <2>1
  <2> QED
    BY <1>2, <1>3, <1>7, <1>8, <2>1, <2>2, <2>3, RequestSent DEF lifecycle
<1>9. CASE ~(NeedsRefresh(r) /\ u.state = "open")
  <2>1. ui' = u /\ inbox' = <<>>
    BY <1>2, <1>3, <1>9 DEF Refreshing, RefreshSignals
  <2>2. u.state = "open" => HasSession(db[Main]) /\ Fresh(schema', db[Main])
    BY <1>3, <1>5, <1>6, <1>9 DEF NeedsRefresh
  <2>3. Rest(ui', schema', db'[Main], pc'[Main])
    BY <1>2, <1>3, <1>6, <2>1, <2>2 DEF Rest, lifecycle
  <2> QED
    BY <1>2, <1>3, <1>6, <1>7, <2>1, <2>3, RestReached
<1> QED
  BY <1>8, <1>9

-----------------------------------------------------------------------------
(* Every step *)

LEMMA GuiInitInv == GuiInit => GuiInv
<1> SUFFICES ASSUME GuiInit PROVE GuiInv OBVIOUS
<1>1. IInv
  BY InitIInv DEF GuiInit
<1>2. Main \in Handles /\ db[Main] = Cleared /\ pc[Main] = "idle"
  BY GuiAssumption DEF GuiInit, Init
<1>3. /\ ui \in Window /\ ~ui.busy /\ ui.schema_snapshot = 0 /\ ui.state = "closed"
  BY DEF GuiInit, Window
<1>4. schema \in Browser /\ worker \in Workers /\ worker.task = NoTask
  BY DEF GuiInit, Browser, Workers
<1>5. inbox = <<>> /\ outbox = <<>> /\ inbox \in Seq(Requests) /\ outbox \in Seq(Answers)
  BY DEF GuiInit
<1>6. Rest(ui, schema, db[Main], pc[Main])
  BY <1>2, <1>3, SessionLeft DEF Rest
<1> QED
  BY <1>1, <1>3, <1>4, <1>5, <1>6 DEF GuiInv, GuiTypeOK, Placed, Quiet

LEMMA GuiNextKeepsInv == GuiInv /\ [GuiNext]_sessionVars => GuiInv'
<1> SUFFICES ASSUME GuiInv, [GuiNext]_sessionVars PROVE GuiInv' OBVIOUS
<1>1. IInv'
  BY GuiNextIsNext, NextKeepsIInv DEF GuiInv
<1>2. GuiTypeOK' /\ Placed'
  <2>1. CASE UNCHANGED sessionVars
    BY <2>1, EditorKeeps DEF sessionVars, guiVars
  <2>2. CASE User
    <3>1. CASE \E text \in Texts : edit(text) \/ apply_fix(text)
      BY <3>1, EditorKeeps DEF edit, apply_fix
    <3> QED
      BY <2>2, <3>1, open_directory_Keeps, execute_editor_text_Keeps,
         refresh_schema_browser_Keeps, request_cancel_Keeps, closeEvent_Keeps DEF User
  <2>3. CASE WorkerStep
    BY <2>3, TakeKeeps, BeginKeeps, ContinueKeeps, OpenReturnsKeeps, CloseReturnsKeeps,
       ScriptCreatesKeeps, ScriptBreaksKeeps, AbortScriptServed, ScriptReturnsKeeps,
       ScriptRefusedKeeps, RaisesKeeps DEF WorkerStep
  <2>4. CASE Handler
    BY <2>4, on_opened_Keeps, on_open_failed_Keeps, on_closed_Keeps, on_close_failed_Keeps,
       on_refresh_finished_Keeps, on_script_finished_Keeps DEF Handler
  <2>5. CASE Quit
    BY <2>5, QuitKeeps
  <2> QED
    BY <2>1, <2>2, <2>3, <2>4, <2>5 DEF GuiNext
<1> QED
  BY <1>1, <1>2 DEF GuiInv

LEMMA GuiInvAlways == GuiSpec => []GuiInv
BY GuiInitInv, GuiNextKeepsInv, PTL DEF GuiSpec

-----------------------------------------------------------------------------
(* What the invariant says *)

LEMMA GuiInvImplies ==
    GuiInv => OneInFlight /\ CleanBeforeOpen /\ SessionHonest /\ SchemaFresh
<1> SUFFICES ASSUME GuiInv PROVE OneInFlight /\ CleanBeforeOpen /\ SessionHonest /\ SchemaFresh
  OBVIOUS
<1>1. OneInFlight
  <2>1. Len(inbox) = (IF Requested THEN 1 ELSE 0) /\ Len(outbox) = (IF Replied THEN 1 ELSE 0)
    BY DEF GuiInv, Placed, Quiet, Requested, Served, Replied
  <2>2. CASE Quiet
    BY <2>1, <2>2 DEF OneInFlight, InFlight, Quiet, Requested, Replied
  <2>3. CASE Requested
    BY <2>1, <2>3 DEF OneInFlight, InFlight, Requested, Replied, Shown
  <2>4. CASE Served
    BY <2>1, <2>4 DEF OneInFlight, InFlight, Requested, Replied, Served, Shown
  <2>5. CASE Replied
    BY <2>1, <2>5 DEF OneInFlight, InFlight, Requested, Replied, Shown
  <2> QED
    BY <2>2, <2>3, <2>4, <2>5 DEF GuiInv, Placed
<1>2. CleanBeforeOpen
  <2>1. ASSUME NEW i \in DOMAIN inbox, inbox[i].kind = "open" PROVE NoSession(db[Main])
    <3>1. inbox # <<>>
      BY <2>1
    <3>2. Requested
      BY <3>1, PlaceOfRequest
    <3>3. i = 1
      BY <2>1, <3>2 DEF Requested, GuiInv, GuiTypeOK
    <3> QED
      BY <2>1, <3>2, <3>3 DEF Requested, Sent
  <2>2. ASSUME worker.task.kind = "open", ~worker.running PROVE NoSession(db[Main])
    BY <2>2, AnswerTypes, ServedFacts DEF Sent
  <2> QED
    BY <2>1, <2>2 DEF CleanBeforeOpen, NoSession, Serving
<1>3. SessionHonest /\ SchemaFresh
  <2>1. CASE ui.busy
    BY <2>1 DEF SessionHonest, SchemaFresh
  <2>2. CASE ~ui.busy
    <3>1. Rest(ui, schema, db[Main], pc[Main])
      BY <2>2, QuietFacts
    <3> QED
      BY <3>1 DEF Rest, SessionHonest, SchemaFresh, Shown, NoSession, HasSession, Fresh
  <2> QED
    BY <2>1, <2>2
<1> QED
  BY <1>1, <1>2, <1>3

-----------------------------------------------------------------------------
(* Tokens *)

(* Of script r on its way or at work: its token is the window's, and set   *)
(* only by a cancel that the window still knows of.                        *)
OwnToken(u, c, r) == r.token = u.token /\ (u.token \in c => u.cancel_pending)

(* A token that was ever set is an old one. *)
GuiTokenInv ==
    /\ \A token \in cancelled : token \in Nat /\ token <= ui.counter
    /\ ui.token <= ui.counter
    /\ \A i \in DOMAIN inbox : inbox[i].kind \in Scripted => OwnToken(ui, cancelled, inbox[i])
    /\ worker.task.kind \in Scripted => OwnToken(ui, cancelled, worker.task)

(* A new token, for the script that is sent with it. *)
LEMMA NewTokenSent ==
    ASSUME GuiInv, GuiTokenInv, NEW k \in Scripted, UNCHANGED <<cancelled, worker>>,
           inbox' = <<Request(k, ui.counter + 1, ui.counter + 1)>>,
           ui'.token = ui.counter + 1, ui'.counter = ui.counter + 1, worker.task = NoTask
    PROVE  GuiTokenInv'
<1> DEFINE n == ui.counter + 1
<1>1. ui.counter \in Nat
  BY DEF GuiInv, GuiTypeOK, Window
<1>2. n \notin cancelled /\ \A token \in cancelled : token \in Nat /\ token <= n
  BY <1>1 DEF GuiTokenInv
<1>3. Request(k, n, n).token = n
  BY DEF Request
<1>4. DOMAIN inbox' = {1} /\ inbox'[1] = Request(k, n, n)
  OBVIOUS
<1>5. worker'.task.kind \notin Scripted
  BY AnswerTypes DEF Scripted
<1>6. n <= n
  BY <1>1
<1> QED
  BY <1>2, <1>3, <1>4, <1>5, <1>6 DEF GuiTokenInv, OwnToken

(* Steps that leave tokens alone and send no script. *)
LEMMA NoTokenSent ==
    ASSUME GuiTokenInv, UNCHANGED cancelled, ui'.token = ui.token, ui'.counter = ui.counter,
           \/ inbox' = inbox /\ ui'.cancel_pending = ui.cancel_pending
           \/ inbox' = <<>>
           \/ \E r \in Requests : inbox' = <<r>> /\ r.kind \notin Scripted,
           \/ worker'.task = worker.task /\ ui'.cancel_pending = ui.cancel_pending
           \/ worker'.task = NoTask
    PROVE  GuiTokenInv'
<1>1. \A i \in DOMAIN inbox' : inbox'[i].kind \in Scripted => OwnToken(ui', cancelled', inbox'[i])
  <2>1. CASE inbox' = inbox /\ ui'.cancel_pending = ui.cancel_pending
    BY <2>1 DEF GuiTokenInv, OwnToken
  <2>2. CASE inbox' = <<>>
    BY <2>2
  <2>3. CASE \E r \in Requests : inbox' = <<r>> /\ r.kind \notin Scripted
    BY <2>3
  <2> QED
    BY <2>1, <2>2, <2>3
<1>2. worker'.task.kind \in Scripted => OwnToken(ui', cancelled', worker'.task)
  <2>1. CASE worker'.task = worker.task /\ ui'.cancel_pending = ui.cancel_pending
    BY <2>1 DEF GuiTokenInv, OwnToken
  <2>2. CASE worker'.task = NoTask
    BY <2>2, AnswerTypes DEF Scripted
  <2> QED
    BY <2>1, <2>2
<1> QED
  BY <1>1, <1>2 DEF GuiTokenInv

LEMMA RefreshToken ==
    ASSUME NEW u \in Window, u.state = "open", ~u.busy
    PROVE  /\ RefreshSignals(u) = <<Request("schema", u.counter + 1, u.counter + 1)>>
           /\ Refreshing(u).token = u.counter + 1 /\ Refreshing(u).counter = u.counter + 1
BY DEF Refreshing, RefreshSignals, NewToken, Window

LEMMA OpeningToken ==
    ASSUME NEW u \in Window
    PROVE  /\ Opening(u).ui.token = u.token /\ Opening(u).ui.counter = u.counter
           /\ Opening(u).signal \in Requests /\ Opening(u).signal.kind \notin Scripted
BY RequestTypes DEF Opening, Window, Scripted

LEMMA UserKeepsTokens == ASSUME GuiInv, GuiTokenInv, User PROVE GuiTokenInv'
<1>0. ui \in Window
  BY DEF GuiInv, GuiTypeOK
<1>1. CASE open_directory
  <2>1. inbox = <<>> /\ worker.task = NoTask
    BY <1>1, QuietFacts DEF open_directory
  <2>2. ui' = Opening(ui).ui /\ inbox' = <<Opening(ui).signal>> /\ UNCHANGED <<cancelled, worker>>
    BY <1>1, <2>1 DEF open_directory
  <2> QED
    BY <1>0, <2>1, <2>2, OpeningToken, NoTokenSent
<1>2. CASE execute_editor_text
  <2>1. inbox = <<>> /\ worker.task = NoTask
    BY <1>2, QuietFacts DEF execute_editor_text
  <2>2. inbox' = <<Request("execute", ui.counter + 1, ui.counter + 1)>>
    BY <1>2, <2>1 DEF execute_editor_text, NewToken
  <2>3. ui'.token = ui.counter + 1 /\ ui'.counter = ui.counter + 1 /\ UNCHANGED <<cancelled, worker>>
    BY <1>0, <1>2 DEF execute_editor_text, NewToken, Window
  <2> QED
    BY <2>1, <2>2, <2>3, NewTokenSent DEF Scripted
<1>3. CASE refresh_schema_browser
  <2>1. inbox = <<>> /\ worker.task = NoTask /\ ui.state = "open" /\ ~ui.busy
    BY <1>3, QuietFacts DEF refresh_schema_browser
  <2>2. /\ ui' = Refreshing(ui) /\ UNCHANGED <<cancelled, worker>>
        /\ inbox' = <<Request("schema", ui.counter + 1, ui.counter + 1)>>
    BY <1>0, <1>3, <2>1, RefreshToken DEF refresh_schema_browser
  <2> QED
    BY <1>0, <2>1, <2>2, RefreshToken, NewTokenSent DEF Scripted
<1>4. CASE request_cancel
  <2>1. /\ cancelled' = cancelled \cup {ui.token} /\ UNCHANGED <<inbox, worker>>
        /\ ui'.token = ui.token /\ ui'.counter = ui.counter /\ ui'.cancel_pending
        /\ ui.token \in Nat
    BY <1>0, <1>4 DEF request_cancel, Window
  <2> QED
    BY <2>1 DEF GuiTokenInv, OwnToken
<1>5. CASE \E text \in Texts : edit(text) \/ apply_fix(text)
  BY <1>5, NoTokenSent DEF edit, apply_fix
<1>6. CASE closeEvent
  <2>1. inbox = <<>> /\ worker.task = NoTask
    BY <1>6, QuietFacts DEF closeEvent, MayLeave
  <2>2. ui'.token = ui.token /\ ui'.counter = ui.counter /\ UNCHANGED <<cancelled, worker>>
    BY <1>0, <1>6 DEF closeEvent, Window
  <2>3. CASE UNCHANGED inbox
    BY <2>1, <2>2, <2>3, NoTokenSent
  <2>4. CASE inbox' = Append(inbox, Request("close", 0, 0))
    <3>1. inbox' = <<Request("close", 0, 0)>>
      BY <2>1, <2>4
    <3>2. Request("close", 0, 0) \in Requests /\ Request("close", 0, 0).kind \notin Scripted
      BY RequestTypes DEF Scripted
    <3> QED
      BY <2>1, <2>2, <3>1, <3>2, NoTokenSent
  <2> QED
    BY <1>6, <2>3, <2>4 DEF closeEvent
<1> QED
  BY <1>1, <1>2, <1>3, <1>4, <1>5, <1>6 DEF User

LEMMA WorkerKeepsTokens == ASSUME GuiInv, GuiTokenInv, WorkerStep \/ Quit PROVE GuiTokenInv'
<1>0. worker \in Workers
  BY DEF GuiInv, GuiTypeOK
<1>1. CASE Take
  <2>1. /\ inbox # <<>> /\ inbox' = Tail(inbox) /\ UNCHANGED <<ui, cancelled>>
        /\ worker'.task = Head(inbox)
    BY <1>0, <1>1 DEF Take, Workers
  <2>2. Len(inbox) = 1 /\ inbox \in Seq(Requests)
    BY <2>1, PlaceOfRequest DEF Requested, GuiInv, GuiTypeOK
  <2>3. Head(inbox) = inbox[1] /\ Tail(inbox) = <<>>
    BY <2>2, OfOneElement
  <2>4. 1 \in DOMAIN inbox
    BY <2>2
  <2> QED
    BY <2>1, <2>3, <2>4 DEF GuiTokenInv, OwnToken
<1>2. CASE Begin \/ Continue \/ ScriptCreates \/ ScriptBreaks
           \/ (AbortScript(Main) /\ UNCHANGED guiVars) \/ Quit
  <2>1. UNCHANGED <<ui, cancelled, inbox>> /\ worker'.task = worker.task
    BY <1>0, <1>2 DEF Begin, Continue, ScriptCreates, ScriptBreaks, Quit, guiVars, Workers
  <2> QED
    BY <2>1, NoTokenSent
<1>3. CASE OpenReturns \/ CloseReturns \/ ScriptReturns \/ ScriptRefused \/ Raises
  <2>1. UNCHANGED <<ui, cancelled, inbox>> /\ worker'.task = NoTask
    BY <1>0, <1>3 DEF OpenReturns, CloseReturns, ScriptReturns, ScriptRefused, Raises, Emit, Workers
  <2> QED
    BY <2>1, NoTokenSent
<1> QED
  BY <1>1, <1>2, <1>3 DEF WorkerStep

LEMMA HandlerKeepsTokens == ASSUME GuiInv, GuiTokenInv, Handler PROVE GuiTokenInv'
<1>0. ui \in Window
  BY DEF GuiInv, GuiTypeOK
<1>1. CASE on_opened
  <2> DEFINE u == [Answered EXCEPT !.state = "open"]
  <2>1. u \in Window /\ u.state = "open" /\ ~u.busy /\ u.counter = ui.counter
    BY <1>0 DEF Answered, Window
  <2>2. inbox = <<>> /\ worker.task = NoTask
    BY <1>1, AnswerAlone DEF on_opened
  <2>3. ui' = Refreshing(u) /\ inbox' = inbox \o RefreshSignals(u) /\ UNCHANGED <<cancelled, worker>>
    BY <1>1 DEF on_opened
  <2> HIDE DEF u
  <2>4. inbox' = <<Request("schema", ui.counter + 1, ui.counter + 1)>>
    BY <2>1, <2>2, <2>3, RefreshToken
  <2> QED
    BY <2>1, <2>2, <2>3, <2>4, RefreshToken, NewTokenSent DEF Scripted
<1>2. CASE on_open_failed \/ on_close_failed \/ on_refresh_finished
  <2>1. worker.task = NoTask /\ inbox = <<>>
    BY <1>2, AnswerAlone DEF on_open_failed, on_close_failed, on_refresh_finished
  <2>2. /\ UNCHANGED <<cancelled, inbox, worker>>
        /\ ui'.token = ui.token /\ ui'.counter = ui.counter
    BY <1>0, <1>2 DEF on_open_failed, on_close_failed, on_refresh_finished, Finished, Answered, Window
  <2> QED
    BY <2>1, <2>2, NoTokenSent
<1>3. CASE on_closed
  <2> DEFINE u == [Answered EXCEPT !.cleanup = FALSE, !.state = "closed"]
             v == [u EXCEPT !.pending = FALSE]
  <2>1. worker.task = NoTask /\ inbox = <<>> /\ UNCHANGED <<cancelled, worker>>
    BY <1>3, AnswerAlone DEF on_closed
  <2>2. u \in Window /\ u.token = ui.token /\ u.counter = ui.counter
    BY <1>0 DEF Answered, Window
  <2>3. v \in Window /\ v.token = ui.token /\ v.counter = ui.counter
    BY <2>2 DEF Window
  <2>4. CASE ui' = Opening(v).ui /\ inbox' = Append(inbox, Opening(v).signal)
    <3> HIDE DEF v
    <3>1. inbox' = <<Opening(v).signal>>
      BY <2>1, <2>4
    <3> QED
      BY <2>1, <2>3, <2>4, <3>1, OpeningToken, NoTokenSent
  <2>5. CASE /\ ui' = [u EXCEPT !.window = IF u.closing THEN "gone" ELSE "shown"]
             /\ UNCHANGED inbox
    <3>1. ui'.token = ui.token /\ ui'.counter = ui.counter
      BY <2>2, <2>5 DEF Window
    <3> QED
      BY <2>1, <2>5, <3>1, NoTokenSent
  <2> QED
    BY <1>3, <2>4, <2>5 DEF on_closed
<1>4. CASE on_script_finished
  <2> DEFINE r == Head(outbox)
             u == Finished(r.error)
  <2>1. worker.task = NoTask /\ inbox = <<>> /\ UNCHANGED <<cancelled, worker>>
    BY <1>4, AnswerAlone DEF on_script_finished
  <2>2. r \in ScriptAnswers
    BY <1>4, AnswerAlone DEF on_script_finished, Answers, LifecycleAnswers
  <2>3. u \in Window /\ ~u.busy /\ u.token = ui.token /\ u.counter = ui.counter
    BY <1>0, <1>4, <2>2, FinishedFacts, ZenonT(40)
       DEF on_script_finished, ScriptAnswers, Finished, Answered, Window
  <2>4. \/ ui' = Refreshing(u) /\ inbox' = inbox \o RefreshSignals(u)
        \/ ui' = u /\ UNCHANGED inbox
    BY <1>4 DEF on_script_finished
  <2> HIDE DEF u
  <2>5. CASE ui' = Refreshing(u) /\ inbox' = inbox \o RefreshSignals(u) /\ u.state = "open"
    <3>1. inbox' = <<Request("schema", ui.counter + 1, ui.counter + 1)>>
      BY <2>1, <2>3, <2>5, RefreshToken
    <3> QED
      BY <2>1, <2>3, <2>5, <3>1, RefreshToken, NewTokenSent DEF Scripted
  <2>6. CASE ui' = u /\ inbox' = <<>>
    BY <2>1, <2>3, <2>6, NoTokenSent
  <2>7. u.state # "open" => Refreshing(u) = u /\ RefreshSignals(u) = <<>>
    BY DEF Refreshing, RefreshSignals
  <2> QED
    BY <2>1, <2>4, <2>5, <2>6, <2>7
<1> QED
  BY <1>1, <1>2, <1>3, <1>4 DEF Handler

LEMMA TokenInvAlways == GuiSpec => []GuiTokenInv
<1>1. GuiInit => GuiTokenInv
  BY DEF GuiInit, GuiTokenInv, NoTask, Scripted
<1>2. GuiInv /\ GuiTokenInv /\ [GuiNext]_sessionVars => GuiTokenInv'
  <2>1. UNCHANGED sessionVars /\ GuiTokenInv => GuiTokenInv'
    BY DEF sessionVars, guiVars, GuiTokenInv, OwnToken
  <2> QED
    BY <2>1, UserKeepsTokens, WorkerKeepsTokens, HandlerKeepsTokens DEF GuiNext
<1> QED
  BY <1>1, <1>2, GuiInvAlways, PTL DEF GuiSpec

-----------------------------------------------------------------------------
(* The window and its worker use their Database as its callers may: one    *)
(* call at a time, none after the destructor has begun.  All that holds of *)
(* Database objects holds of the one of the GUI.                           *)
THEOREM GuiUsesDatabase == GuiSpec => Spec
<1>1. GuiInit => Init
  BY DEF GuiInit
<1> QED
  BY <1>1, GuiNextIsNext, PTL DEF GuiSpec, Spec

(* MainWindow sends a request only when it has the answer to the last one, *)
(* whatever the user clicks and however requests end: a window that goes   *)
(* leaves no call behind, and every answer is that of the last request.    *)
THEOREM RequestsAreAlone == GuiSpec => []OneInFlight
BY GuiInvAlways, GuiInvImplies, PTL

(* A script that is answered is the refresh or the script that the window  *)
(* waits for.                                                              *)
AnswerExpected ==
    outbox # <<>> /\ Head(outbox).kind = "script" =>
        IsRefresh(Head(outbox)) \/ Head(outbox).snapshot = ui.executed

(* on_script_finished never drops a result as that of an older snapshot.   *)
THEOREM AnswersAreExpected == GuiSpec => []AnswerExpected
<1>1. GuiInv => AnswerExpected
  <2> SUFFICES ASSUME GuiInv, outbox # <<>>, Head(outbox).kind = "script"
               PROVE  IsRefresh(Head(outbox)) \/ Head(outbox).snapshot = ui.executed
    BY DEF AnswerExpected
  <2>1. Answer("script")
    BY PlaceOfRequest DEF Answer, Replied
  <2>2. Told(ui, schema, db[Main], outbox[1]) /\ Head(outbox) = outbox[1]
    BY <2>1, AnswerAlone
  <2> QED
    BY <2>2 DEF Told, Expected, IsRefresh
<1> QED
  BY <1>1, GuiInvAlways, PTL

(* open_directory, on_closed and the close-first flags of MainWindow: no   *)
(* open reaches a Database whose last close failed, whatever storage       *)
(* reported and whichever exceptions came out of the worker's calls.       *)
THEOREM OpensAreClean == GuiSpec => []CleanBeforeOpen
BY GuiInvAlways, GuiInvImplies, PTL

(* An idle window that shows a closed session has none, unless it knows    *)
(* that a cleanup is due; one that shows an open session has one.          *)
THEOREM SessionShownIsTrue == GuiSpec => []SessionHonest
BY GuiInvAlways, GuiInvImplies, PTL

(* What the schema browser has read is the catalog as soon as the window   *)
(* is idle: on_script_finished refreshes after every script that may have  *)
(* created a table, failed or cancelled ones as well.                      *)
THEOREM SchemaShownIsCatalog == GuiSpec => []SchemaFresh
BY GuiInvAlways, GuiInvImplies, PTL

(* request_cancel sets the token of the script under way: the script that  *)
(* follows has a token of its own and is not cancelled by a late click.    *)
THEOREM CancelsAreOwn == GuiSpec => []CancelHitsOwn
<1>1. GuiTokenInv => CancelHitsOwn
  BY DEF GuiTokenInv, OwnToken, CancelHitsOwn, Scripted
<1> QED
  BY <1>1, TokenInvAlways, PTL

(* The editor's texts, and what its fix-it button is about. *)
EditorInv ==
    /\ editor \in [text : Texts, snapshot : Texts, last : Texts, fix : BOOLEAN]
    /\ FixesFit

(* on_fix_requested is reachable only while the editor's text is the one   *)
(* that the shown result was computed from, however it was edited while    *)
(* the script ran.                                                         *)
THEOREM FixesAreForTheText == GuiSpec => []FixesFit
<1>1. GuiInit => EditorInv
  BY DEF GuiInit, EditorInv, FixesFit
<1>2. EditorInv /\ [GuiNext]_sessionVars => EditorInv'
  <2> SUFFICES ASSUME EditorInv, [GuiNext]_sessionVars PROVE EditorInv'
    OBVIOUS
  <2>1. CASE UNCHANGED editor
    BY <2>1 DEF EditorInv, FixesFit
  <2>2. CASE execute_editor_text
    BY <2>2 DEF execute_editor_text, EditorInv, FixesFit
  <2>3. CASE \E text \in Texts : edit(text) \/ apply_fix(text)
    BY <2>3 DEF edit, apply_fix, EditorInv, FixesFit
  <2>4. CASE on_script_finished
    <3>1. editor' = [editor EXCEPT !.last = editor.snapshot, !.fix = MatchesSnapshot]
      BY <2>4 DEF on_script_finished
    <3> QED
      BY <3>1 DEF MatchesSnapshot, EditorInv, FixesFit
  <2> QED
    BY <2>1, <2>2, <2>3, <2>4
       DEF sessionVars, guiVars, GuiNext, User, WorkerStep, Handler, open_directory,
           refresh_schema_browser, request_cancel, closeEvent, Take, Begin, Continue, OpenReturns,
           CloseReturns, ScriptCreates, ScriptBreaks, ScriptReturns, ScriptRefused, Raises, Emit,
           on_opened, on_open_failed, on_closed, on_close_failed, on_refresh_finished, Quit
<1>3. EditorInv => FixesFit
  BY DEF EditorInv
<1> QED
  BY <1>1, <1>2, <1>3, PTL DEF GuiSpec
=============================================================================
