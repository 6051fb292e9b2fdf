-------------------------- MODULE BufferPoolProofs --------------------------
(***************************************************************************)
(* The safety invariants of BufferPool, proved for any number of clients,  *)
(* frames, pages, tables and tickets, either replacement policy, with and  *)
(* without prefetching, and also when flushes overlap writebacks.          *)
(***************************************************************************)
EXTENDS BufferPool, FiniteSetTheorems, TLAPS

(* The inductive invariant. *)
IInv ==
  /\ TypeOK
  /\ LocalsOK
  /\ ControlOK
  /\ MappingConsistent
  /\ PinsAccounted
  /\ LoadsExclusive
  /\ WaitersHaveLoader

(***************************************************************************)
(* Facts about the constants and the helpers                               *)
(***************************************************************************)
(* None is none of the things it stands beside, and the worker no client. *)
LEMMA Distinct ==
  /\ \A c \in Clients : c # Worker /\ c \in Threads
  /\ Worker \in Threads
  /\ \A t \in Threads : t # Worker => t \in Clients
  /\ None \notin Threads /\ None \notin Keys /\ None \notin Values
  /\ None \notin Frames /\ None \notin Tables /\ None \notin 0..MaxTicket
BY ConstantsAssumption DEF Threads

(* record_load moves a frame to the end of the list, or appends it. *)
LEMMA RecordLoad ==
  ASSUME NEW r \in SUBSET (Frames \X Frames), NEW f \in Frames, IsList(r)
  PROVE  /\ record_load(r, f) \in SUBSET (Frames \X Frames)
         /\ Queued(record_load(r, f)) = Queued(r) \cup {f}
         /\ IsList(record_load(r, f))
<1> DEFINE rest == fifo_remove(r, {f})
           new == record_load(r, f)
<1>1. \A a, b \in Frames : <<a, b>> \in rest <=> <<a, b>> \in r /\ a # f /\ b # f
  BY DEF fifo_remove
<1>2. Queued(rest) = Queued(r) \ {f}
  BY <1>1 DEF Queued
<1>3. \A a, b \in Frames : <<a, b>> \in new <=>
         \/ <<a, b>> \in r /\ a # f /\ b # f
         \/ b = f /\ (a \in Queued(r) \/ a = f)
  BY <1>1, <1>2 DEF record_load
<1>4. new \in SUBSET (Frames \X Frames)
  <2>1. ASSUME NEW p \in new PROVE p \in Frames \X Frames
    <3>1. CASE p \in rest
      BY <3>1 DEF fifo_remove
    <3>2. CASE \E g \in Queued(rest) \cup {f} : p = <<g, f>>
      BY <3>2 DEF Queued
    <3> QED BY <2>1, <3>1, <3>2 DEF record_load
  <2> QED BY <2>1
<1>5. Queued(new) = Queued(r) \cup {f}
  <2> HIDE DEF new
  <2> QED BY <1>3 DEF Queued
<1>6. IsList(new)
  <2> HIDE DEF new
  <2>1. Queued(r) \subseteq Frames BY DEF Queued
  <2>2. ASSUME NEW a \in Queued(new), NEW b \in Queued(new), NEW c \in Queued(new)
        PROVE  /\ <<a, b>> \in new \/ <<b, a>> \in new
               /\ <<a, b>> \in new /\ <<b, a>> \in new => a = b
               /\ <<a, b>> \in new /\ <<b, c>> \in new => <<a, c>> \in new
    <3>1. a \in Frames /\ b \in Frames /\ c \in Frames
      BY <1>5, <2>1
    <3>2. /\ a # f => a \in Queued(r)
          /\ b # f => b \in Queued(r)
          /\ c # f => c \in Queued(r)
      BY <1>5
    <3> QED BY <1>3, <1>5, <3>1, <3>2 DEF IsList
  <2> QED BY <2>2 DEF IsList
<1> QED BY <1>4, <1>5, <1>6

(* An access to a resident frame keeps the frames of the list. *)
LEMMA Accessed ==
  ASSUME NEW r \in SUBSET (Frames \X Frames), NEW f \in Queued(r), IsList(r)
  PROVE  /\ accessed(r, f) \in SUBSET (Frames \X Frames)
         /\ Queued(accessed(r, f)) = Queued(r)
         /\ IsList(accessed(r, f))
<1>1. f \in Frames BY DEF Queued
<1>2. Queued(r) \cup {f} = Queued(r) OBVIOUS
<1> QED BY <1>1, <1>2, RecordLoad DEF accessed

(* Removing frames keeps the others in the list. *)
LEMMA FifoRemove ==
  ASSUME NEW r \in SUBSET (Frames \X Frames), NEW S, IsList(r)
  PROVE  /\ fifo_remove(r, S) \in SUBSET (Frames \X Frames)
         /\ Queued(fifo_remove(r, S)) = Queued(r) \ S
         /\ IsList(fifo_remove(r, S))
<1>1. \A a, b \in Frames : <<a, b>> \in fifo_remove(r, S)
                             <=> <<a, b>> \in r /\ a \notin S /\ b \notin S
  BY DEF fifo_remove
<1>2. fifo_remove(r, S) \in SUBSET (Frames \X Frames)
  BY DEF fifo_remove
<1>3. Queued(fifo_remove(r, S)) = Queued(r) \ S
  BY <1>1 DEF Queued
<1>4. IsList(fifo_remove(r, S))
  <2>1. Queued(r) \subseteq Frames BY DEF Queued
  <2> QED BY <1>1, <1>3, <2>1 DEF IsList
<1> QED BY <1>2, <1>3, <1>4

(* A hit keeps the bookkeeping of accesses in its type. *)
LEMMA TouchType ==
  ASSUME touched \in [Frames -> BOOLEAN], NEW f \in Frames
  PROVE  Touch(f) \in [Frames -> BOOLEAN]
BY DEF Touch

(* The holders of guards are finitely many. *)
LEMMA GuardingFinite ==
  \A f : IsFiniteSet(Guarding(f)) /\ Cardinality(Guarding(f)) \in Nat
BY ConstantsAssumption, FS_Subset, FS_CardinalityType DEF Guarding

(* An unpinned frame is guarded by nobody and not being loaded. *)
LEMMA Unpinned ==
  ASSUME PinsAccounted, NEW f \in Frames, pin[f] = 0
  PROVE  Guarding(f) = {} /\ state[f] # "loading"
<1>1. Cardinality(Guarding(f)) \in Nat /\ IsFiniteSet(Guarding(f))
  BY GuardingFinite
<1>2. Cardinality(Guarding(f)) = 0 /\ state[f] # "loading"
  BY <1>1 DEF PinsAccounted
<1> QED BY <1>1, <1>2, FS_EmptySet

(***************************************************************************)
(* Initial states                                                          *)
(***************************************************************************)
LEMMA InitIInv == Init => IInv
<1> SUFFICES ASSUME Init PROVE IInv
  OBVIOUS
<1> USE ConstantsAssumption, Distinct DEF Init
<1>1. TypeOK
  BY DEF TypeOK, FrameTypes, PoolTypes, ThreadTypes, Opt, ClientPc, WorkerPc,
         Rest, FreePc, VictimPc
<1>2. LocalsOK /\ ControlOK /\ LoadsExclusive /\ WaitersHaveLoader
  BY DEF LocalsOK, ControlOK, LoadsExclusive, WaitersHaveLoader, FreePc,
         VictimPc, JoinPc
<1>3. MappingConsistent
  BY DEF MappingConsistent, Queued, IsList
<1>4. PinsAccounted
  <2>1. \A f \in Frames : Guarding(f) = {}
    BY DEF Guarding
  <2>2. \A f \in Frames : Cardinality(Guarding(f)) = 0
    BY <2>1, FS_EmptySet
  <2> QED
    BY <2>1, <2>2 DEF PinsAccounted
<1> QED
  BY <1>1, <1>2, <1>3, <1>4 DEF IInv

(***************************************************************************)
(* How the pins follow the guards                                          *)
(***************************************************************************)
(* The frames that gain, lose or keep a holder keep their pins accounted.  *)
LEMMA GuardAdded ==
  ASSUME PinsAccounted, NEW c \in Clients, NEW f \in Frames,
         pin \in [Frames -> Nat],
         state[f] = "ready",
         c \notin Guarding(f),
         Guarding(f)' = Guarding(f) \cup {c},
         \A g \in Frames : g # f => Guarding(g)' = Guarding(g),
         pin' = [pin EXCEPT ![f] = @ + 1], state' = state
  PROVE  PinsAccounted'
<1>1. Cardinality(Guarding(f)') = Cardinality(Guarding(f)) + 1
  BY GuardingFinite, FS_AddElement
<1>2. Cardinality(Guarding(f)) \in Nat
  BY GuardingFinite
<1>3. \A g \in Frames : g # f => Cardinality(Guarding(g)') = Cardinality(Guarding(g))
  OBVIOUS
<1>4. ASSUME NEW g \in Frames
      PROVE  /\ pin'[g] = Cardinality(Guarding(g)')
                             + (IF state'[g] = "loading" THEN 1 ELSE 0)
             /\ Guarding(g)' # {} => state'[g] = "ready"
  <2>1. CASE g = f
    <3>1. pin[f] = Cardinality(Guarding(f)) BY <1>2 DEF PinsAccounted
    <3>2. pin'[f] = pin[f] + 1 OBVIOUS
    <3> QED BY <1>1, <1>2, <2>1, <3>1, <3>2
  <2>2. CASE g # f
    BY <1>3, <2>2 DEF PinsAccounted
  <2> QED BY <2>1, <2>2
<1> QED BY <1>4 DEF PinsAccounted

(* A step that changes no pin and no guard keeps PinsAccounted. *)
LEMMA PinsKept ==
  ASSUME PinsAccounted,
         \A g \in Frames : Guarding(g)' = Guarding(g),
         pin' = pin, state' = state
  PROVE  PinsAccounted'
<1>1. \A g \in Frames : Cardinality(Guarding(g)') = Cardinality(Guarding(g))
  OBVIOUS
<1> QED BY <1>1 DEF PinsAccounted

(* Releasing a guard takes one pin off its frame and one guard off the count. *)
LEMMA GuardReleased ==
  ASSUME PinsAccounted, NEW c \in Clients, NEW f \in Frames,
         pin \in [Frames -> Nat],
         c \in Guarding(f),
         Guarding(f)' = Guarding(f) \ {c},
         \A g \in Frames : g # f => Guarding(g)' = Guarding(g),
         pin' = [pin EXCEPT ![f] = @ - 1], state' = state
  PROVE  PinsAccounted' /\ pin' \in [Frames -> Nat]
<1>1. Cardinality(Guarding(f)') = Cardinality(Guarding(f)) - 1
  BY GuardingFinite, FS_RemoveElement
<1>2. Cardinality(Guarding(f)) \in Nat /\ Cardinality(Guarding(f)') \in Nat
  <2>1. IsFiniteSet(Guarding(f)) BY GuardingFinite
  <2>2. IsFiniteSet(Guarding(f) \ {c}) BY <2>1, FS_RemoveElement
  <2> QED BY <2>1, <2>2, FS_CardinalityType
<1>3. state[f] = "ready"
  BY DEF PinsAccounted
<1>4. pin[f] = Cardinality(Guarding(f))
  BY <1>2, <1>3 DEF PinsAccounted
<1>5. pin'[f] = Cardinality(Guarding(f)')
  BY <1>1, <1>2, <1>4
<1>6. ASSUME NEW g \in Frames
      PROVE  /\ pin'[g] = Cardinality(Guarding(g)')
                             + (IF state'[g] = "loading" THEN 1 ELSE 0)
             /\ Guarding(g)' # {} => state'[g] = "ready"
             /\ pin'[g] \in Nat
  <2>1. CASE g = f
    BY <1>2, <1>3, <1>5, <2>1
  <2>2. CASE g # f
    <3>1. pin'[g] = pin[g] BY <2>2
    <3> QED BY <2>2, <3>1 DEF PinsAccounted
  <2> QED BY <2>1, <2>2
<1>7. pin' \in [Frames -> Nat]
  BY <1>6
<1> QED BY <1>6, <1>7 DEF PinsAccounted

(***************************************************************************)
(* What a step that changes no frame's identity preserves                  *)
(***************************************************************************)
Loading == FreePc \cup VictimPc

(* A step that leaves the frame control, the tables and the waits alone keeps IInv. *)
LEMMA Quiet ==
  ASSUME IInv,
         UNCHANGED <<state, key, owner, page_table, loading_table>>,
         Queued(order') = Queued(order), IsList(order'),
         \A f \in Frames : /\ state[f] = "free" => ~dirty'[f]
                           /\ state[f] = "ready" => page'[f] # None,
         \A t \in Threads :
           /\ pc'[t] \in FreePc <=> pc[t] \in FreePc
           /\ pc'[t] \in VictimPc <=> pc[t] \in VictimPc
           /\ pc[t] \in Loading =>
                fid'[t] = fid[t] /\ req'[t] = req[t] /\ old'[t] = old[t],
         \A c \in Clients : pc'[c] = "waiting" =>
           \/ pc[c] = "waiting" /\ peer'[c] = peer[c] /\ req'[c] = req[c]
           \/ /\ peer'[c] \in Threads /\ pc[peer'[c]] \in Loading
              /\ req[peer'[c]] = req'[c]
  PROVE  MappingConsistent' /\ LoadsExclusive' /\ WaitersHaveLoader'
<1>1. FrameTypes /\ PoolTypes /\ ThreadTypes
  BY DEF IInv, TypeOK
<1>2. MappingConsistent'
  BY DEF IInv, MappingConsistent
<1>3. LoadsExclusive'
  <2>1. LoadsExclusive BY DEF IInv
  <2>2. \A f \in Frames : owner[f] # None => owner[f] \in Threads
    BY <1>1 DEF FrameTypes, Opt
  <2>3. \A k \in Keys : loading_table[k] # None => loading_table[k] \in Threads
    BY <1>1 DEF PoolTypes, Opt
  <2>4. \A t \in Threads : pc'[t] \in FreePc =>
            /\ state'[fid'[t]] = "loading" /\ owner'[fid'[t]] = t
            /\ key'[fid'[t]] = req'[t]
    BY <2>1 DEF LoadsExclusive, Loading
  <2>5. \A t \in Threads : pc'[t] \in VictimPc =>
            /\ state'[fid'[t]] = "ready" /\ owner'[fid'[t]] = t
            /\ key'[fid'[t]] = old'[t] /\ loading_table'[req'[t]] = t
    BY <2>1 DEF LoadsExclusive, Loading
  <2>6. \A f \in Frames :
            /\ state'[f] = "loading" => owner'[f] # None
            /\ owner'[f] # None =>
                 /\ fid'[owner'[f]] = f
                 /\ pc'[owner'[f]] \in (IF state'[f] = "loading" THEN FreePc ELSE VictimPc)
    BY <2>1, <2>2 DEF LoadsExclusive, Loading
  <2>7. \A k \in Keys : loading_table'[k] # None =>
            /\ pc'[loading_table'[k]] \in VictimPc /\ req'[loading_table'[k]] = k
            /\ page_table'[k] = None
    BY <2>1, <2>3 DEF LoadsExclusive, Loading
  <2> QED BY <2>4, <2>5, <2>6, <2>7 DEF LoadsExclusive
<1>4. WaitersHaveLoader'
  <2>1. \A c \in Clients : peer[c] # None => peer[c] \in Threads
    BY <1>1, Distinct DEF ThreadTypes, Opt
  <2>2. None \notin Threads BY Distinct
  <2> QED BY <2>1, <2>2 DEF IInv, WaitersHaveLoader, Loading
<1> QED BY <1>2, <1>3, <1>4

(* A step that moves threads and may clear dirty flags. *)
LEMMA CleaningStep ==
  ASSUME IInv,
         UNCHANGED <<state, key, page, pin, ticket, owner, touched, page_table,
                     loading_table, order, lifecycle>>,
         dirty' \in [Frames -> BOOLEAN], \A f \in Frames : dirty'[f] => dirty[f],
         disk' \in [Keys -> Values],
         queue' \in Seq(Keys), worker_state' \in {"running", "stopping", "stopped"},
         control' \in Opt(Clients),
         ThreadTypes', LocalsOK', ControlOK',
         \A t \in Threads :
           /\ pc'[t] \in FreePc <=> pc[t] \in FreePc
           /\ pc'[t] \in VictimPc <=> pc[t] \in VictimPc
           /\ pc'[t] \in {"holding", "mutated"} <=> pc[t] \in {"holding", "mutated"}
           /\ pc[t] \in Loading \cup {"holding", "mutated"} => fid'[t] = fid[t]
           /\ pc[t] \in Loading => req'[t] = req[t] /\ old'[t] = old[t],
         \A c \in Clients : pc'[c] = "waiting" =>
           \/ pc[c] = "waiting" /\ peer'[c] = peer[c] /\ req'[c] = req[c]
           \/ /\ peer'[c] \in Threads /\ pc[peer'[c]] \in Loading
              /\ req[peer'[c]] = req'[c]
  PROVE  IInv'
<1>1. FrameTypes /\ PoolTypes
  BY DEF IInv, TypeOK
<1>2. TypeOK'
  BY <1>1 DEF TypeOK, FrameTypes, PoolTypes
<1>3. PinsAccounted'
  <2>1. \A g \in Frames : Guarding(g)' = Guarding(g)
    BY Distinct DEF Guarding
  <2> QED BY <2>1, PinsKept DEF IInv
<1>4. MappingConsistent' /\ LoadsExclusive' /\ WaitersHaveLoader'
  <2>1. \A g \in Frames : /\ state[g] = "free" => ~dirty'[g]
                          /\ state[g] = "ready" => page'[g] # None
    BY DEF IInv, MappingConsistent
  <2>2. Queued(order') = Queued(order) /\ IsList(order')
    BY DEF IInv, MappingConsistent
  <2>3. \A t \in Threads :
           /\ pc'[t] \in FreePc <=> pc[t] \in FreePc
           /\ pc'[t] \in VictimPc <=> pc[t] \in VictimPc
           /\ pc[t] \in Loading =>
                fid'[t] = fid[t] /\ req'[t] = req[t] /\ old'[t] = old[t]
    OBVIOUS
  <2> QED BY <2>1, <2>2, <2>3, Quiet
<1> QED
  BY <1>2, <1>3, <1>4 DEF IInv

(* A step that leaves the pool alone and only moves threads. *)
LEMMA LocalStep ==
  ASSUME IInv, UNCHANGED pool,
         disk' \in [Keys -> Values],
         queue' \in Seq(Keys), worker_state' \in {"running", "stopping", "stopped"},
         control' \in Opt(Clients),
         ThreadTypes', LocalsOK', ControlOK',
         \A t \in Threads :
           /\ pc'[t] \in FreePc <=> pc[t] \in FreePc
           /\ pc'[t] \in VictimPc <=> pc[t] \in VictimPc
           /\ pc'[t] \in {"holding", "mutated"} <=> pc[t] \in {"holding", "mutated"}
           /\ pc[t] \in Loading \cup {"holding", "mutated"} => fid'[t] = fid[t]
           /\ pc[t] \in Loading => req'[t] = req[t] /\ old'[t] = old[t],
         \A c \in Clients : pc'[c] = "waiting" =>
           \/ pc[c] = "waiting" /\ peer'[c] = peer[c] /\ req'[c] = req[c]
           \/ /\ peer'[c] \in Threads /\ pc[peer'[c]] \in Loading
              /\ req[peer'[c]] = req'[c]
  PROVE  IInv'
<1>1. UNCHANGED <<state, key, page, dirty, pin, ticket, owner, touched,
                  page_table, loading_table, order, lifecycle>>
  BY DEF pool, frames, tables
<1>2. dirty' \in [Frames -> BOOLEAN]
  BY <1>1 DEF IInv, TypeOK, FrameTypes
<1>3. \A f \in Frames : dirty'[f] => dirty[f]
  BY <1>1
<1> QED BY <1>1, <1>2, <1>3, CleaningStep

(***************************************************************************)
(* One lemma per action: it preserves the invariant                        *)
(***************************************************************************)
(* Hit and WakeReady *)
LEMMA PinResidentStep ==
  ASSUME IInv, NEW c \in Clients, NEW f \in Frames,
         pc[c] \in {"idle", "woken"}, state[f] = "ready", PinResident(c, f)
  PROVE  IInv'
<1> USE Distinct DEF Opt
<1>0. FrameTypes /\ PoolTypes /\ ThreadTypes
  BY DEF IInv, TypeOK
<1>1. /\ pc' = [pc EXCEPT ![c] = "holding"]
      /\ req' = [req EXCEPT ![c] = None]
      /\ fid' = [fid EXCEPT ![c] = f]
      /\ peer' = [peer EXCEPT ![c] = None]
      /\ note' = [note EXCEPT ![c] = None]
      /\ UNCHANGED <<old, scratch, snap, tbl>>
  BY DEF PinResident, Return, AfterLoad
<1>2. /\ pin' = [pin EXCEPT ![f] = @ + 1]
      /\ touched' = Touch(f)
      /\ order' = accessed(order, f)
      /\ UNCHANGED <<state, key, page, dirty, ticket, owner, page_table,
                     loading_table, lifecycle, disk, queue, worker_state, control>>
  BY DEF PinResident, prefetching
<1>3. f \in Queued(order) /\ IsList(order)
  BY DEF IInv, MappingConsistent
<1>4. /\ order' \in SUBSET (Frames \X Frames)
      /\ Queued(order') = Queued(order)
      /\ IsList(order')
  BY <1>0, <1>2, <1>3, Accessed DEF PoolTypes
<1>5. TypeOK'
  <2>1. FrameTypes' BY <1>0, <1>2, TouchType DEF FrameTypes
  <2>2. PoolTypes' BY <1>0, <1>2, <1>4 DEF PoolTypes
  <2>3. ThreadTypes'
    BY <1>0, <1>1 DEF ThreadTypes, ClientPc, Rest
  <2> QED BY <2>1, <2>2, <2>3 DEF TypeOK
<1>6. LocalsOK'
  BY <1>0, <1>1, <1>2 DEF IInv, LocalsOK, FreePc, VictimPc, ThreadTypes
<1>7. ControlOK'
  BY <1>0, <1>1, <1>2 DEF IInv, ControlOK, JoinPc, ThreadTypes
<1>8. PinsAccounted'
  <2>1. \A g \in Frames : Guarding(g)' = IF g = f THEN Guarding(g) \cup {c} ELSE Guarding(g)
    BY <1>0, <1>1 DEF Guarding, ThreadTypes
  <2>2. c \notin Guarding(f) /\ PinsAccounted
    BY DEF Guarding, IInv
  <2> QED BY <1>0, <1>2, <2>1, <2>2, GuardAdded DEF FrameTypes
<1>9. MappingConsistent' /\ LoadsExclusive' /\ WaitersHaveLoader'
  <2>1. \A g \in Frames : /\ state[g] = "free" => ~dirty'[g]
                          /\ state[g] = "ready" => page'[g] # None
    BY <1>2 DEF IInv, MappingConsistent
  <2>2. \A t \in Threads :
           /\ pc'[t] \in FreePc <=> pc[t] \in FreePc
           /\ pc'[t] \in VictimPc <=> pc[t] \in VictimPc
           /\ pc[t] \in Loading =>
                fid'[t] = fid[t] /\ req'[t] = req[t] /\ old'[t] = old[t]
    BY <1>0, <1>1 DEF ThreadTypes, Loading, FreePc, VictimPc
  <2>3. \A d \in Clients : pc'[d] = "waiting" =>
           pc[d] = "waiting" /\ peer'[d] = peer[d] /\ req'[d] = req[d]
    BY <1>0, <1>1 DEF ThreadTypes
  <2> QED BY <1>2, <1>4, <2>1, <2>2, <2>3, Quiet
<1> QED
  BY <1>5, <1>6, <1>7, <1>8, <1>9 DEF IInv

(* Waiting for another thread's load. *)
LEMMA JoinStep ==
  ASSUME IInv, NEW c \in Clients, NEW k \in Keys,
         pc[c] \in {"idle", "woken"}, Join(c, k)
  PROVE  IInv'
<1> USE Distinct DEF Opt
<1> DEFINE p == IF page_table[k] # None THEN owner[page_table[k]] ELSE loading_table[k]
<1>0. FrameTypes /\ PoolTypes /\ ThreadTypes
  BY DEF IInv, TypeOK
<1>1. /\ pc' = [pc EXCEPT ![c] = "waiting"]
      /\ req' = [req EXCEPT ![c] = k]
      /\ peer' = [peer EXCEPT ![c] = p]
      /\ note' = [note EXCEPT ![c] = None]
      /\ UNCHANGED <<fid, old, scratch, snap, tbl>>
  BY DEF Join
<1>2. UNCHANGED <<state, key, page, dirty, pin, ticket, owner, touched, page_table,
                  loading_table, order, lifecycle, disk, queue, worker_state, control>>
  BY DEF Join, pool, frames, tables, prefetching
<1>3. p \in Threads /\ pc[p] \in Loading /\ req[p] = k
  <2>1. CASE page_table[k] # None
    <3>1. page_table[k] \in Frames /\ state[page_table[k]] = "loading"
          /\ key[page_table[k]] = k
      BY <1>0, <2>1 DEF PoolTypes, Join, IInv, MappingConsistent
    <3> QED BY <1>0, <2>1, <3>1 DEF IInv, LoadsExclusive, Loading, FrameTypes
  <2>2. CASE page_table[k] = None
    BY <1>0, <2>2 DEF PoolTypes, Join, Absent, IInv, LoadsExclusive, Loading
  <2> QED BY <2>1, <2>2
<1> HIDE DEF p
<1>4. ThreadTypes'
  BY <1>0, <1>1, <1>3 DEF ThreadTypes, ClientPc
<1>5. LocalsOK' /\ ControlOK'
  BY <1>0, <1>1, <1>2 DEF IInv, LocalsOK, ControlOK, FreePc, VictimPc, JoinPc, ThreadTypes
<1> QED
  BY <1>0, <1>1, <1>2, <1>3, <1>4, <1>5, LocalStep
     DEF ThreadTypes, Loading, FreePc, VictimPc, PoolTypes, pool, frames, tables

(* load_page returns an error (LookupFails, WakeError), or gives a prefetch up. *)
LEMMA ReturnStep ==
  ASSUME IInv, NEW t \in Threads,
         pc[t] \in (IF t = Worker THEN {"check"} ELSE {"idle", "woken"}),
         Return(t, None), UNCHANGED <<pool, disk, prefetching>>
  PROVE  IInv'
<1> USE Distinct DEF Opt
<1>0. FrameTypes /\ PoolTypes /\ ThreadTypes
  BY DEF IInv, TypeOK
<1>1. /\ pc' = [pc EXCEPT ![t] = IF t = Worker THEN "finish" ELSE "idle"]
      /\ req' = IF t = Worker THEN req ELSE [req EXCEPT ![t] = None]
      /\ fid' = [fid EXCEPT ![t] = None]
      /\ peer' = [peer EXCEPT ![t] = None]
      /\ note' = [note EXCEPT ![t] = None]
      /\ UNCHANGED <<old, scratch, snap, tbl>>
  BY DEF Return, AfterLoad
<1>2. UNCHANGED <<ticket, queue, worker_state, control>>
  BY DEF pool, frames, prefetching
<1>3. ThreadTypes'
  BY <1>0, <1>1 DEF ThreadTypes, ClientPc, WorkerPc, Rest
<1>4. LocalsOK' /\ ControlOK'
  <2>1. LocalsOK'
    BY <1>0, <1>1, <1>2 DEF IInv, LocalsOK, FreePc, VictimPc, ThreadTypes
  <2>2. ControlOK'
    BY <1>0, <1>1, <1>2 DEF IInv, ControlOK, JoinPc, ThreadTypes
  <2> QED BY <2>1, <2>2
<1> QED
  BY <1>0, <1>1, <1>2, <1>3, <1>4, LocalStep
     DEF ThreadTypes, Loading, FreePc, VictimPc, PoolTypes

(* The unlocked read. *)
LEMMA ReadPageStep ==
  ASSUME IInv, NEW t \in Threads, ReadPage(t)
  PROVE  IInv'
<1> USE Distinct DEF Opt
<1>0. FrameTypes /\ PoolTypes /\ ThreadTypes
  BY DEF IInv, TypeOK
<1>1. PICK p \in Opt(Values) : scratch' = [scratch EXCEPT ![t] = p]
  <2>1. req[t] \in Keys
    BY <1>0 DEF ReadPage, IInv, LocalsOK, FreePc, VictimPc, ThreadTypes
  <2> QED BY <1>0, <2>1 DEF ReadPage, PoolTypes
<1>2. PICK to \in {"free_ret", "clean_ret", "dirty_ret"} :
        /\ pc' = [pc EXCEPT ![t] = to]
        /\ \/ pc[t] = "free_io" /\ to = "free_ret"
           \/ pc[t] = "clean_io" /\ to = "clean_ret"
           \/ pc[t] = "dirty_io" /\ to = "dirty_ret"
  BY DEF ReadPage
<1>3. UNCHANGED <<pool, ticket, disk, queue, worker_state, control, req, fid, old,
                  snap, peer, note, tbl>>
  BY DEF ReadPage, prefetching, pool, frames
<1>4. ThreadTypes'
  BY <1>0, <1>1, <1>2, <1>3 DEF ThreadTypes, ClientPc, WorkerPc, FreePc, VictimPc
<1>5. LocalsOK'
  BY <1>0, <1>1, <1>2, <1>3 DEF IInv, LocalsOK, FreePc, VictimPc, ThreadTypes
<1>6. ControlOK'
  BY <1>0, <1>2, <1>3 DEF IInv, ControlOK, JoinPc, ThreadTypes
<1> QED
  BY <1>0, <1>2, <1>3, <1>4, <1>5, <1>6, LocalStep
     DEF ThreadTypes, Loading, FreePc, VictimPc, PoolTypes

(* The copy of a dirty victim under the mutex, which only clients take. *)
LEMMA SnapshotVictimStep ==
  ASSUME IInv, NEW t \in Threads, SnapshotVictim(t)
  PROVE  IInv'
<1> USE Distinct DEF Opt
<1>0. FrameTypes /\ PoolTypes /\ ThreadTypes
  BY DEF IInv, TypeOK
<1>1. /\ pc' = [pc EXCEPT ![t] = "write_io"]
      /\ snap' = [snap EXCEPT ![t] = page[fid[t]]]
      /\ pc[t] = "dirty_ret" /\ scratch[t] # None
      /\ UNCHANGED <<pool, ticket, disk, queue, worker_state, control, req, fid,
                     old, scratch, peer, note, tbl>>
  BY DEF SnapshotVictim, prefetching, pool, frames
<1>2. t \in Clients
  BY <1>0, <1>1 DEF ThreadTypes, WorkerPc, FreePc
<1>3. fid[t] \in Frames /\ page[fid[t]] \in Values
  BY <1>0, <1>1 DEF IInv, LocalsOK, MappingConsistent, LoadsExclusive, FrameTypes, ThreadTypes, VictimPc
<1>4. ThreadTypes'
  BY <1>0, <1>1, <1>2, <1>3 DEF ThreadTypes, ClientPc, VictimPc
<1>5. LocalsOK'
  BY <1>0, <1>1, <1>3 DEF IInv, LocalsOK, FreePc, VictimPc, ThreadTypes
<1>6. ControlOK'
  BY <1>0, <1>1, <1>2 DEF IInv, ControlOK, JoinPc, ThreadTypes
<1> QED
  BY <1>0, <1>1, <1>4, <1>5, <1>6, LocalStep
     DEF ThreadTypes, Loading, FreePc, VictimPc, PoolTypes

(* The unlocked write. *)
LEMMA WriteBackStep ==
  ASSUME IInv, NEW t \in Threads, WriteBack(t)
  PROVE  IInv'
<1> USE Distinct DEF Opt
<1>0. FrameTypes /\ PoolTypes /\ ThreadTypes
  BY DEF IInv, TypeOK
<1>1. /\ pc' = [pc EXCEPT ![t] = "write_ret"]
      /\ pc[t] = "write_io"
      /\ snap' = snap \/ snap' = [snap EXCEPT ![t] = None]
      /\ UNCHANGED <<pool, ticket, queue, worker_state, control, req, fid,
                     old, scratch, peer, note, tbl>>
  BY DEF WriteBack, prefetching, pool, frames
<1>2. t \in Clients
  BY <1>0, <1>1 DEF ThreadTypes, WorkerPc, FreePc
<1>3. disk' \in [Keys -> Values]
  <2>1. snap[t] \in Values
    BY <1>0, <1>1 DEF IInv, LocalsOK, ThreadTypes
  <2> QED BY <1>0, <2>1 DEF WriteBack, PoolTypes
<1>4. ThreadTypes'
  BY <1>0, <1>1, <1>2 DEF ThreadTypes, ClientPc, VictimPc
<1>5. LocalsOK'
  BY <1>0, <1>1 DEF IInv, LocalsOK, FreePc, VictimPc, ThreadTypes
<1>6. ControlOK'
  BY <1>0, <1>1, <1>2 DEF IInv, ControlOK, JoinPc, ThreadTypes
<1> QED
  BY <1>0, <1>1, <1>3, <1>4, <1>5, <1>6, LocalStep
     DEF ThreadTypes, Loading, FreePc, VictimPc, PoolTypes

(* A holder's frame is resident. *)
LEMMA HolderFrame ==
  ASSUME IInv, NEW c \in Clients, pc[c] \in {"holding", "mutated"}
  PROVE  fid[c] \in Frames /\ state[fid[c]] = "ready" /\ c \in Guarding(fid[c])
<1>1. fid[c] \in Frames
  BY Distinct DEF IInv, TypeOK, ThreadTypes, LocalsOK, Opt
<1>2. c \in Guarding(fid[c])
  BY DEF Guarding
<1> QED BY <1>1, <1>2 DEF IInv, PinsAccounted

(* PageGuard::mutable_page changes only the contents of a pinned frame. *)
LEMMA MutateStep ==
  ASSUME IInv, NEW c \in Clients, NEW v \in Values, Mutate(c, v)
  PROVE  IInv'
<1> USE Distinct DEF Opt
<1>0. FrameTypes /\ PoolTypes /\ ThreadTypes
  BY DEF IInv, TypeOK
<1>1. /\ pc[c] = "holding"
      /\ page' = [page EXCEPT ![fid[c]] = v]
      /\ pc' = [pc EXCEPT ![c] = "mutated"]
      /\ UNCHANGED <<state, key, dirty, pin, ticket, owner, touched, page_table,
                     loading_table, order, lifecycle, disk, queue, worker_state,
                     control, req, fid, old, scratch, snap, peer, note, tbl>>
  BY DEF Mutate, tables, prefetching, call
<1>2. TypeOK'
  BY <1>0, <1>1 DEF TypeOK, FrameTypes, PoolTypes, ThreadTypes, ClientPc, Rest
<1>3. LocalsOK'
  BY <1>0, <1>1 DEF IInv, LocalsOK, FreePc, VictimPc, ThreadTypes
<1>4. ControlOK'
  BY <1>0, <1>1 DEF IInv, ControlOK, JoinPc, ThreadTypes
<1>5. PinsAccounted'
  <2>1. \A g \in Frames : Guarding(g)' = Guarding(g)
    BY <1>0, <1>1 DEF Guarding, ThreadTypes
  <2> QED BY <1>1, <2>1, PinsKept DEF IInv
<1>6. MappingConsistent' /\ LoadsExclusive' /\ WaitersHaveLoader'
  <2>1. \A g \in Frames : /\ state[g] = "free" => ~dirty'[g]
                          /\ state[g] = "ready" => page'[g] # None
    BY <1>0, <1>1 DEF IInv, MappingConsistent, FrameTypes
  <2>2. Queued(order') = Queued(order) /\ IsList(order')
    BY <1>1 DEF IInv, MappingConsistent
  <2>3. \A t \in Threads :
           /\ pc'[t] \in FreePc <=> pc[t] \in FreePc
           /\ pc'[t] \in VictimPc <=> pc[t] \in VictimPc
           /\ pc'[t] = "waiting" <=> pc[t] = "waiting"
    BY <1>0, <1>1 DEF ThreadTypes, FreePc, VictimPc
  <2> QED BY <1>1, <2>1, <2>2, <2>3, Quiet
<1> QED
  BY <1>2, <1>3, <1>4, <1>5, <1>6 DEF IInv

(* mark_dirty changes only flags of a pinned frame. *)
LEMMA MarkDirtyStep ==
  ASSUME IInv, NEW c \in Clients, mark_dirty(c)
  PROVE  IInv'
<1> USE Distinct DEF Opt
<1>0. FrameTypes /\ PoolTypes /\ ThreadTypes
  BY DEF IInv, TypeOK
<1>1. /\ pc[c] = "mutated"
      /\ dirty' = [dirty EXCEPT ![fid[c]] = TRUE]
      /\ touched' = Touch(fid[c])
      /\ pc' = [pc EXCEPT ![c] = "holding"]
      /\ UNCHANGED <<state, key, page, pin, ticket, owner, page_table,
                     loading_table, order, lifecycle, disk, queue, worker_state,
                     control, req, fid, old, scratch, snap, peer, note, tbl>>
  BY DEF mark_dirty, tables, prefetching, call
<1>2. fid[c] \in Frames /\ state[fid[c]] = "ready"
  BY <1>1, HolderFrame
<1>3. TypeOK'
  <2>1. FrameTypes' BY <1>0, <1>1, <1>2, TouchType DEF FrameTypes
  <2>2. PoolTypes' BY <1>0, <1>1 DEF PoolTypes
  <2>3. ThreadTypes' BY <1>0, <1>1 DEF ThreadTypes, ClientPc, Rest
  <2> QED BY <2>1, <2>2, <2>3 DEF TypeOK
<1>4. LocalsOK'
  BY <1>0, <1>1 DEF IInv, LocalsOK, FreePc, VictimPc, ThreadTypes
<1>5. ControlOK'
  BY <1>0, <1>1 DEF IInv, ControlOK, JoinPc, ThreadTypes
<1>6. PinsAccounted'
  <2>1. \A g \in Frames : Guarding(g)' = Guarding(g)
    BY <1>0, <1>1 DEF Guarding, ThreadTypes
  <2> QED BY <1>1, <2>1, PinsKept DEF IInv
<1>7. MappingConsistent' /\ LoadsExclusive' /\ WaitersHaveLoader'
  <2>1. \A g \in Frames : /\ state[g] = "free" => ~dirty'[g]
                          /\ state[g] = "ready" => page'[g] # None
    BY <1>0, <1>1, <1>2 DEF IInv, MappingConsistent, FrameTypes
  <2>2. Queued(order') = Queued(order) /\ IsList(order')
    BY <1>1 DEF IInv, MappingConsistent
  <2>3. \A t \in Threads :
           /\ pc'[t] \in FreePc <=> pc[t] \in FreePc
           /\ pc'[t] \in VictimPc <=> pc[t] \in VictimPc
           /\ pc'[t] = "waiting" <=> pc[t] = "waiting"
    BY <1>0, <1>1 DEF ThreadTypes, FreePc, VictimPc
  <2> QED BY <1>1, <2>1, <2>2, <2>3, Quiet
<1> QED
  BY <1>3, <1>4, <1>5, <1>6, <1>7 DEF IInv

(* PageGuard::release, with or without the dirty flag. *)
LEMMA ReleaseGuardStep ==
  ASSUME IInv, NEW c \in Clients, ReleaseGuard(c)
  PROVE  IInv'
<1> USE Distinct DEF Opt
<1>0. FrameTypes /\ PoolTypes /\ ThreadTypes
  BY DEF IInv, TypeOK
<1>1. /\ pc[c] = "holding"
      /\ pin' = [pin EXCEPT ![fid[c]] = @ - 1]
      /\ pc' = [pc EXCEPT ![c] = "idle"]
      /\ fid' = [fid EXCEPT ![c] = None]
      /\ UNCHANGED <<state, key, page, dirty, ticket, owner, touched, page_table,
                     loading_table, order, lifecycle, disk, queue, worker_state,
                     control, req, old, scratch, snap, peer, note, tbl>>
  BY DEF ReleaseGuard, unpin, tables, prefetching
<1>2. PinsAccounted' /\ pin' \in [Frames -> Nat]
  <2>1. \A g \in Frames : Guarding(g)' = IF g = fid[c] THEN Guarding(g) \ {c} ELSE Guarding(g)
    BY <1>0, <1>1 DEF Guarding, ThreadTypes
  <2>2. fid[c] \in Frames /\ c \in Guarding(fid[c])
    BY <1>1, HolderFrame
  <2> QED BY <1>0, <1>1, <2>1, <2>2, GuardReleased DEF IInv, FrameTypes
<1>3. TypeOK'
  BY <1>0, <1>1, <1>2 DEF TypeOK, FrameTypes, PoolTypes, ThreadTypes, ClientPc, Rest
<1>4. LocalsOK'
  BY <1>0, <1>1 DEF IInv, LocalsOK, FreePc, VictimPc, ThreadTypes
<1>5. ControlOK'
  BY <1>0, <1>1 DEF IInv, ControlOK, JoinPc, ThreadTypes
<1>6. MappingConsistent' /\ LoadsExclusive' /\ WaitersHaveLoader'
  <2>1. \A g \in Frames : /\ state[g] = "free" => ~dirty'[g]
                          /\ state[g] = "ready" => page'[g] # None
    BY <1>1 DEF IInv, MappingConsistent
  <2>2. Queued(order') = Queued(order) /\ IsList(order')
    BY <1>1 DEF IInv, MappingConsistent
  <2>3. \A t \in Threads :
           /\ pc'[t] \in FreePc <=> pc[t] \in FreePc
           /\ pc'[t] \in VictimPc <=> pc[t] \in VictimPc
           /\ pc'[t] = "waiting" => pc[t] = "waiting"
           /\ pc[t] \in Loading => fid'[t] = fid[t]
    BY <1>0, <1>1 DEF ThreadTypes, Loading, FreePc, VictimPc
  <2> QED BY <1>1, <2>1, <2>2, <2>3, Quiet
<1> QED
  BY <1>2, <1>3, <1>4, <1>5, <1>6 DEF IInv

(* Flushing clears dirty flags and changes nothing else in memory. *)
LEMMA FlushFacts ==
  ASSUME IInv, NEW S \in SUBSET Frames, NEW bad, FlushFrames(S, bad)
  PROVE  /\ UNCHANGED <<state, key, page, pin, ticket, owner, touched>>
         /\ disk' \in [Keys -> Values]
         /\ dirty' \in [Frames -> BOOLEAN]
         /\ \A f \in Frames : dirty'[f] => dirty[f]
<1>1. dirty \in [Frames -> BOOLEAN]
  BY DEF IInv, TypeOK, FrameTypes
<1>2. dirty' = [f \in Frames |-> dirty[f] /\ f \notin Written(S, bad)]
  BY DEF FlushFrames, DirtyAfter
<1>3. \A f \in Frames : dirty'[f] \in BOOLEAN /\ (dirty'[f] => dirty[f])
  BY <1>1, <1>2
<1>4. dirty' \in [Frames -> BOOLEAN]
  BY <1>2, <1>3
<1> QED BY <1>3, <1>4 DEF FlushFrames

(* flush_page, flush_all and the experiment's flush clean frames, no more. *)
LEMMA FlushStep ==
  ASSUME IInv, NEW c \in Clients, NEW S \in SUBSET Frames, Flush(c, S)
  PROVE  IInv'
<1>0. PoolTypes /\ ThreadTypes
  BY DEF IInv, TypeOK
<1>1. PICK bad : FlushFrames(S, bad)
  BY DEF Flush
<1>2. UNCHANGED <<page_table, loading_table, order, lifecycle, queue, worker_state,
                  control, pc, req, fid, old, scratch, snap, peer, note, tbl>>
  BY DEF Flush, prefetching, call
<1>3. UNCHANGED ticket
  BY <1>1, FlushFacts
<1>4. ThreadTypes' /\ LocalsOK' /\ ControlOK'
  BY <1>0, <1>2, <1>3 DEF IInv, ThreadTypes, LocalsOK, ControlOK
<1>5. /\ queue' \in Seq(Keys) /\ control' \in Opt(Clients)
      /\ worker_state' \in {"running", "stopping", "stopped"}
  BY <1>0, <1>2 DEF PoolTypes
<1> QED BY <1>1, <1>2, <1>4, <1>5, FlushFacts, CleaningStep

(* close and release_table begin. *)
LEMMA StopWorkerStep ==
  ASSUME IInv, NEW c \in Clients, NEW where \in JoinPc, NEW table \in Opt(Tables),
         StopWorker(c, where, table)
  PROVE  IInv'
<1> USE Distinct DEF Opt
<1>0. PoolTypes /\ ThreadTypes
  BY DEF IInv, TypeOK
<1>1. /\ pc[c] = "idle" /\ control = None /\ control' = c
      /\ worker_state' = IF worker_state = "running" THEN "stopping" ELSE worker_state
      /\ queue' = <<>>
      /\ pc' = [pc EXCEPT ![c] = where]
      /\ tbl' = [tbl EXCEPT ![c] = table]
      /\ UNCHANGED <<pool, ticket, disk, req, fid, old, scratch, snap, peer, note>>
  BY DEF StopWorker, pool, frames
<1>2. ThreadTypes'
  BY <1>0, <1>1 DEF ThreadTypes, ClientPc
<1>3. LocalsOK'
  BY <1>0, <1>1 DEF IInv, LocalsOK, FreePc, VictimPc, JoinPc, ThreadTypes
<1>4. ControlOK'
  <2>1. \A d \in Clients : d # c => pc'[d] \notin JoinPc \cup {"restart"}
    BY <1>0, <1>1 DEF IInv, ControlOK, ThreadTypes
  <2>2. pc'[Worker] = pc[Worker] /\ pc'[c] \in JoinPc
    BY <1>0, <1>1 DEF ThreadTypes
  <2>3. worker_state' = "stopped" => pc'[Worker] = "off"
    BY <1>1, <2>2 DEF IInv, ControlOK
  <2> QED BY <1>1, <2>1, <2>2, <2>3 DEF ControlOK, JoinPc
<1>5. worker_state' \in {"running", "stopping", "stopped"} /\ queue' \in Seq(Keys)
  BY <1>0, <1>1 DEF PoolTypes
<1> QED
  BY <1>0, <1>1, <1>2, <1>3, <1>4, <1>5, LocalStep
     DEF ThreadTypes, PoolTypes, Loading, FreePc, VictimPc, JoinPc

(* What the end of close or release_table does to the threads. *)
LEMMA LeaveJoinFacts ==
  ASSUME IInv, NEW c \in Clients, NEW where \in JoinPc, NEW life,
         Joined(c, where), LeaveJoin(c, life), ticket' = ticket
  PROVE  /\ ThreadTypes' /\ LocalsOK' /\ ControlOK'
         /\ worker_state' = "stopped" /\ queue' = queue
         /\ control' \in Opt(Clients)
         /\ UNCHANGED <<req, fid, old, scratch, snap, peer, note>>
         /\ \A t \in Threads : IF t = c THEN /\ pc[t] \in JoinPc
                                             /\ pc'[t] \in {"restart", "idle"}
                                ELSE pc'[t] = pc[t]
<1> USE Distinct DEF Opt
<1>0. PoolTypes /\ ThreadTypes
  BY DEF IInv, TypeOK
<1>1. /\ pc[c] = where /\ pc[Worker] = "off"
      /\ worker_state' = "stopped"
      /\ pc' = [pc EXCEPT ![c] = IF life = "open" THEN "restart" ELSE "idle"]
      /\ control' = IF life = "open" THEN control ELSE None
      /\ tbl' = [tbl EXCEPT ![c] = None]
      /\ UNCHANGED <<queue, req, fid, old, scratch, snap, peer, note>>
  BY DEF Joined, LeaveJoin
<1>2. control = c
  BY <1>1 DEF IInv, ControlOK
<1>3. \A t \in Threads : IF t = c THEN pc[t] \in JoinPc /\ pc'[t] \in {"restart", "idle"}
                         ELSE pc'[t] = pc[t]
  BY <1>0, <1>1 DEF ThreadTypes
<1>4. ThreadTypes'
  BY <1>0, <1>1 DEF ThreadTypes, ClientPc, Rest
<1>5. LocalsOK'
  BY <1>0, <1>1, <1>3 DEF IInv, LocalsOK, FreePc, VictimPc, ThreadTypes
<1>6. ControlOK'
  <2>1. \A d \in Clients : d # c => pc'[d] \notin JoinPc \cup {"restart"}
    BY <1>0, <1>1, <1>2 DEF IInv, ControlOK, ThreadTypes
  <2>2. pc'[c] \in JoinPc \cup {"restart"} => control' = c
    BY <1>0, <1>1, <1>2 DEF ThreadTypes, JoinPc
  <2>3. pc'[Worker] = "off"
    BY <1>1, <1>3
  <2> QED BY <1>1, <2>1, <2>2, <2>3 DEF ControlOK
<1> QED BY <1>0, <1>1, <1>2, <1>3, <1>4, <1>5, <1>6

(* The refusals of close and release_table. *)
LEMMA RefusedStep ==
  ASSUME IInv, NEW c \in Clients, ReleaseRefused(c) \/ CloseRefused(c)
  PROVE  IInv'
<1>0. PoolTypes /\ ThreadTypes
  BY DEF IInv, TypeOK
<1>1. PICK where \in JoinPc : Joined(c, where)
  BY DEF ReleaseRefused, CloseRefused, JoinPc
<1>2. LeaveJoin(c, lifecycle) /\ UNCHANGED <<pool, disk, ticket>>
  BY DEF ReleaseRefused, CloseRefused, pool, frames
<1> QED
  BY <1>0, <1>1, <1>2, LeaveJoinFacts, LocalStep, Distinct
     DEF PoolTypes, Loading, FreePc, VictimPc, JoinPc

(* A failed write ends close or release_table; no frame has been freed. *)
LEMMA FlushFailsStep ==
  ASSUME IInv, NEW c \in Clients, ReleaseFlushFails(c) \/ CloseFlushFails(c)
  PROVE  IInv'
<1>0. PoolTypes /\ ThreadTypes
  BY DEF IInv, TypeOK
<1>1. PICK where \in JoinPc : Joined(c, where)
  BY DEF ReleaseFlushFails, CloseFlushFails, JoinPc
<1>2. PICK S \in SUBSET Frames, bad \in Frames : FlushFrames(S, bad)
  BY DEF ReleaseFlushFails, CloseFlushFails, FramesOf
<1>3. LeaveJoin(c, "open") /\ UNCHANGED <<page_table, loading_table, order, lifecycle>>
  BY DEF ReleaseFlushFails, CloseFlushFails
<1>4. /\ UNCHANGED <<state, key, page, pin, ticket, owner, touched>>
      /\ disk' \in [Keys -> Values] /\ dirty' \in [Frames -> BOOLEAN]
      /\ \A f \in Frames : dirty'[f] => dirty[f]
  BY <1>2, FlushFacts
<1> QED
  BY <1>0, <1>1, <1>3, <1>4, LeaveJoinFacts, CleaningStep, Distinct
     DEF PoolTypes, Loading, FreePc, VictimPc, JoinPc

(* start_prefetch_worker after a refused or finished call. *)
LEMMA RestartStep ==
  ASSUME IInv, NEW c \in Clients, Restart(c)
  PROVE  IInv'
<1> USE Distinct DEF Opt
<1>0. PoolTypes /\ ThreadTypes
  BY DEF IInv, TypeOK
<1>1. /\ pc[c] = "restart" /\ control' = None
      /\ \/ /\ worker_state' = "running"
            /\ pc' = [pc EXCEPT ![c] = "idle", ![Worker] = "poll"]
         \/ /\ worker_state' = worker_state
            /\ pc' = [pc EXCEPT ![c] = "idle"]
      /\ UNCHANGED <<pool, ticket, disk, queue, req, fid, old, scratch, snap, peer,
                     note, tbl>>
  BY DEF Restart, pool, frames, call
<1>2. control = c /\ worker_state = "stopped" /\ pc[Worker] = "off"
  BY <1>1 DEF IInv, ControlOK
<1>3. /\ pc'[c] = "idle"
      /\ pc'[Worker] \in {"off", "poll"}
      /\ worker_state' = "stopped" => pc'[Worker] = "off"
      /\ \A t \in Threads : t # c /\ t # Worker => pc'[t] = pc[t]
  BY <1>0, <1>1, <1>2 DEF ThreadTypes
<1>4. ThreadTypes'
  BY <1>0, <1>1 DEF ThreadTypes, ClientPc, WorkerPc, Rest
<1>5. LocalsOK'
  BY <1>0, <1>1, <1>3 DEF IInv, LocalsOK, FreePc, VictimPc, ThreadTypes
<1>6. ControlOK'
  BY <1>0, <1>1, <1>2, <1>3 DEF IInv, ControlOK, JoinPc
<1>7. worker_state' \in {"running", "stopping", "stopped"}
  BY <1>0, <1>1 DEF PoolTypes
<1> QED
  BY <1>0, <1>1, <1>2, <1>3, <1>4, <1>5, <1>6, <1>7, LocalStep
     DEF PoolTypes, Loading, FreePc, VictimPc

(* prefetch_page only appends to the queue. *)
LEMMA PrefetchPageStep ==
  ASSUME IInv, NEW c \in Clients, NEW k \in Keys, prefetch_page(c, k)
  PROVE  IInv'
<1>0. PoolTypes /\ ThreadTypes
  BY DEF IInv, TypeOK
<1>1. UNCHANGED <<pool, ticket, disk, worker_state, control, pc, req, fid, old,
                  scratch, snap, peer, note, tbl>>
  BY DEF prefetch_page, pool, frames, call
<1>2. queue' \in Seq(Keys)
  BY <1>0 DEF prefetch_page, PoolTypes
<1>3. ThreadTypes' /\ LocalsOK' /\ ControlOK'
  BY <1>0, <1>1 DEF IInv, ThreadTypes, LocalsOK, ControlOK
<1> QED
  BY <1>0, <1>1, <1>2, <1>3, LocalStep DEF PoolTypes

(* The prefetch worker outside load_page. *)
LEMMA WorkerLoopStep ==
  ASSUME IInv, WorkerExit \/ WorkerTake \/ WorkerSkip \/ WorkerFinish
  PROVE  IInv'
<1> USE Distinct DEF Opt
<1>0. PoolTypes /\ ThreadTypes
  BY DEF IInv, TypeOK
<1>1. PICK to \in {"off", "check", "finish", "poll"}, k \in Opt(Keys) :
        /\ pc' = [pc EXCEPT ![Worker] = to]
        /\ req' = [req EXCEPT ![Worker] = k]
        /\ to = "check" => k # None
        /\ worker_state = "stopped" => to = "off"
        /\ queue' \in Seq(Keys)
  <2>1. req \in [Threads -> Opt(Keys)] /\ req = [req EXCEPT ![Worker] = req[Worker]]
    BY <1>0 DEF ThreadTypes
  <2>2. CASE WorkerExit
    BY <1>0, <2>1, <2>2 DEF WorkerExit, prefetching, call, PoolTypes
  <2>3. CASE WorkerTake
    <3>1. Head(queue) \in Keys /\ Tail(queue) \in Seq(Keys)
      BY <1>0, <2>3 DEF WorkerTake, PoolTypes
    <3> QED BY <3>1, <2>3 DEF WorkerTake
  <2>4. CASE WorkerSkip
    BY <1>0, <2>1, <2>4 DEF WorkerSkip, prefetching, call, PoolTypes, IInv, ControlOK
  <2>5. CASE WorkerFinish
    BY <1>0, <2>5 DEF WorkerFinish, prefetching, PoolTypes, IInv, ControlOK
  <2> QED BY <2>2, <2>3, <2>4, <2>5
<1>2. /\ pc[Worker] \in {"poll", "check", "finish"}
      /\ UNCHANGED <<pool, ticket, disk, worker_state, control, fid, old, scratch,
                     snap, peer, note, tbl>>
  BY DEF WorkerExit, WorkerTake, WorkerSkip, WorkerFinish, pool, frames,
         prefetching, call
<1>3. ThreadTypes'
  BY <1>0, <1>1, <1>2 DEF ThreadTypes, WorkerPc
<1>4. LocalsOK'
  BY <1>0, <1>1, <1>2 DEF IInv, LocalsOK, FreePc, VictimPc, ThreadTypes
<1>5. ControlOK'
  BY <1>0, <1>1, <1>2 DEF IInv, ControlOK, ThreadTypes
<1> QED
  BY <1>0, <1>1, <1>2, <1>3, <1>4, <1>5, LocalStep
     DEF PoolTypes, ThreadTypes, Loading, FreePc, VictimPc

(***************************************************************************)
(* The end of a load                                                       *)
(***************************************************************************)
(* Two loads have different frames. *)
LEMMA LoaderFrame ==
  ASSUME IInv, NEW t \in Threads, pc[t] \in Loading
  PROVE  /\ fid[t] \in Frames /\ req[t] \in Keys /\ owner[fid[t]] = t
         /\ \A u \in Threads : pc[u] \in Loading /\ fid[u] = fid[t] => u = t
         /\ pc[t] \in VictimPc => old[t] \in Keys
BY Distinct DEF IInv, TypeOK, ThreadTypes, LocalsOK, LoadsExclusive, Loading, Opt

(* What Complete does to the threads: t is out of its load, those that     *)
(* waited for it are woken, the others stay where they are.                *)
LEMMA CompleteFacts ==
  ASSUME IInv, NEW t \in Threads, pc[t] \in Loading,
         NEW f \in Opt(Frames), NEW tick \in Opt(0..MaxTicket),
         Complete(t, f, tick), UNCHANGED prefetching,
         \A u \in Threads : u # t /\ pc[u] \in VictimPc
                              => ticket'[fid[u]] = ticket[fid[u]]
  PROVE  /\ ThreadTypes' /\ LocalsOK' /\ ControlOK' /\ WaitersHaveLoader'
         /\ pc'[t] = AfterLoad(t, f)
         /\ t \in Clients => fid'[t] = f
         /\ \A u \in Threads : u # t =>
              /\ fid'[u] = fid[u] /\ req'[u] = req[u] /\ old'[u] = old[u]
              /\ pc'[u] = pc[u] \/ (pc[u] = "waiting" /\ pc'[u] = "woken")
<1> USE Distinct DEF Opt
<1>0. ThreadTypes /\ PoolTypes
  BY DEF IInv, TypeOK
<1>1. /\ pc' = [u \in Threads |-> IF u = t THEN AfterLoad(t, f)
                     ELSE IF u \in WaitersOf(t) THEN "woken" ELSE pc[u]]
      /\ note' = [u \in Threads |-> IF u \in WaitersOf(t) THEN tick ELSE note[u]]
      /\ req' = IF t = Worker THEN req ELSE [req EXCEPT ![t] = None]
      /\ fid' = [fid EXCEPT ![t] = IF t = Worker THEN None ELSE f]
      /\ old' = [old EXCEPT ![t] = None]
      /\ scratch' = [scratch EXCEPT ![t] = None]
      /\ snap' = [snap EXCEPT ![t] = None]
      /\ UNCHANGED <<peer, tbl, control, worker_state>>
  BY DEF Complete, prefetching
<1>2. /\ WaitersOf(t) \subseteq Clients
      /\ \A u \in Clients : u \in WaitersOf(t) <=> pc[u] = "waiting" /\ peer[u] = t
  BY DEF WaitersOf, Waiting
<1>3. AfterLoad(t, f) \in (IF t = Worker THEN {"finish"} ELSE {"idle", "holding"})
  BY DEF AfterLoad
<1>4. \A u \in Threads : u # t =>
              /\ fid'[u] = fid[u] /\ req'[u] = req[u] /\ old'[u] = old[u]
              /\ scratch'[u] = scratch[u] /\ snap'[u] = snap[u]
              /\ pc'[u] = pc[u] \/ (pc[u] = "waiting" /\ pc'[u] = "woken")
  <2>1. \A u \in Threads : u # t =>
              /\ fid'[u] = fid[u] /\ req'[u] = req[u] /\ old'[u] = old[u]
              /\ scratch'[u] = scratch[u] /\ snap'[u] = snap[u]
    BY <1>0, <1>1 DEF ThreadTypes
  <2>2. \A u \in Threads : u # t =>
              pc'[u] = pc[u] \/ (pc[u] = "waiting" /\ pc'[u] = "woken")
    BY <1>1, <1>2
  <2> QED BY <2>1, <2>2
<1>5. pc'[t] = AfterLoad(t, f) /\ (t \in Clients => fid'[t] = f)
  BY <1>0, <1>1 DEF ThreadTypes
<1>6. ThreadTypes'
  <2>1. pc' \in [Threads -> ClientPc \cup WorkerPc]
    BY <1>0, <1>1, <1>3 DEF ThreadTypes, ClientPc, WorkerPc, Rest
  <2>2. /\ \A c \in Clients : pc'[c] \in ClientPc
        /\ pc'[Worker] \in WorkerPc
    BY <1>0, <1>1, <1>2, <1>3 DEF ThreadTypes, ClientPc, WorkerPc, Rest
  <2>3. note' \in [Threads -> Opt(0..MaxTicket)]
    BY <1>0, <1>1 DEF ThreadTypes
  <2> QED BY <1>0, <1>1, <2>1, <2>2, <2>3 DEF ThreadTypes
<1>7. LocalsOK'
  <2>1. ASSUME NEW u \in Threads, u # t
        PROVE
    /\ pc'[u] \in FreePc \cup VictimPc \cup {"waiting", "woken", "check"} => req'[u] # None
    /\ pc'[u] \in FreePc \cup VictimPc \cup {"holding", "mutated"} => fid'[u] # None
    /\ pc'[u] \in VictimPc => old'[u] # None /\ ticket'[fid'[u]] < MaxTicket
    /\ pc'[u] \in {"write_io", "write_ret"} => scratch'[u] # None
    /\ pc'[u] = "write_io" => snap'[u] # None
    <3>1. CASE pc'[u] = pc[u]
      BY <1>4, <2>1, <3>1 DEF IInv, LocalsOK
    <3>2. CASE pc[u] = "waiting" /\ pc'[u] = "woken"
      BY <1>4, <2>1, <3>2 DEF IInv, LocalsOK, FreePc, VictimPc
    <3> QED BY <1>4, <2>1, <3>1, <3>2
  <2>2. /\ pc'[t] \in {"finish", "idle", "holding"}
        /\ pc'[t] = "holding" => fid'[t] # None
    BY <1>3, <1>5 DEF AfterLoad
  <2> QED BY <2>1, <2>2 DEF LocalsOK, FreePc, VictimPc
<1>8. ControlOK'
  <2>1. \A c \in Clients : pc'[c] \in JoinPc \cup {"restart"} => pc'[c] = pc[c]
    BY <1>3, <1>4, <1>5 DEF JoinPc
  <2>2. worker_state = "stopped" => pc'[Worker] = "off"
    <3>1. pc[Worker] = "off" => t # Worker
      BY DEF Loading, FreePc, VictimPc
    <3> QED BY <1>4, <3>1 DEF IInv, ControlOK
  <2> QED BY <1>1, <2>1, <2>2 DEF IInv, ControlOK
<1>9. WaitersHaveLoader'
  <2>1. ASSUME NEW c \in Clients, pc'[c] = "waiting"
        PROVE  /\ peer'[c] # None /\ pc'[peer'[c]] \in FreePc \cup VictimPc
               /\ req'[peer'[c]] = req'[c]
    <3>1. c # t /\ pc[c] = "waiting"
      BY <1>3, <1>4, <1>5, <2>1
    <3>2. peer[c] # t
      BY <1>0, <1>1, <1>2, <2>1, <3>1 DEF ThreadTypes
    <3>3. peer[c] \in Threads /\ pc[peer[c]] \in FreePc \cup VictimPc /\ req[peer[c]] = req[c]
      BY <1>0, <3>1 DEF IInv, WaitersHaveLoader, ThreadTypes
    <3> QED BY <1>1, <1>4, <3>1, <3>2, <3>3 DEF FreePc, VictimPc
  <2> QED BY <2>1 DEF WaitersHaveLoader
<1> QED BY <1>4, <1>5, <1>6, <1>7, <1>8, <1>9

(* A replacement that is given up: only the reservation disappears. *)
LEMMA CancelStep ==
  ASSUME IInv, NEW t \in Threads, pc[t] \in VictimPc, Cancel(t)
  PROVE  IInv'
<1> USE Distinct DEF Opt
<1>0. FrameTypes /\ PoolTypes /\ ThreadTypes /\ pc[t] \in Loading
  BY DEF IInv, TypeOK, Loading
<1>1. /\ owner' = [owner EXCEPT ![fid[t]] = None]
      /\ touched' = [touched EXCEPT ![fid[t]] = FALSE]
      /\ loading_table' = [loading_table EXCEPT ![req[t]] = None]
      /\ Complete(t, None, None)
      /\ UNCHANGED <<state, key, page, dirty, pin, ticket, page_table, order,
                     lifecycle, disk, queue, worker_state, control, prefetching>>
  BY DEF Cancel, prefetching
<1>2. /\ fid[t] \in Frames /\ req[t] \in Keys /\ owner[fid[t]] = t
      /\ \A u \in Threads : pc[u] \in Loading /\ fid[u] = fid[t] => u = t
  BY <1>0, LoaderFrame
<1>3. /\ ThreadTypes' /\ LocalsOK' /\ ControlOK' /\ WaitersHaveLoader'
      /\ pc'[t] = AfterLoad(t, None)
      /\ \A u \in Threads : u # t =>
              /\ fid'[u] = fid[u] /\ req'[u] = req[u] /\ old'[u] = old[u]
              /\ pc'[u] = pc[u] \/ (pc[u] = "waiting" /\ pc'[u] = "woken")
  BY <1>0, <1>1, CompleteFacts
<1>4. pc'[t] \in {"finish", "idle"}
  BY <1>3 DEF AfterLoad
<1>5. TypeOK'
  <2>1. FrameTypes' BY <1>0, <1>1 DEF FrameTypes
  <2>2. PoolTypes' BY <1>0, <1>1 DEF PoolTypes
  <2> QED BY <1>3, <2>1, <2>2 DEF TypeOK
<1>6. MappingConsistent'
  <2>1. \A f \in Frames : owner[f] = None => owner'[f] = None
    BY <1>0, <1>1 DEF FrameTypes
  <2> QED BY <1>1, <2>1 DEF IInv, MappingConsistent
<1>7. PinsAccounted'
  <2>1. \A g \in Frames : Guarding(g)' = Guarding(g)
    BY <1>0, <1>3, <1>4 DEF Guarding, Loading, FreePc, VictimPc
  <2> QED BY <1>1, <2>1, PinsKept DEF IInv
<1>8. LoadsExclusive'
  <2>0. LoadsExclusive BY DEF IInv
  <2>1. \A u \in Threads : pc'[u] \in Loading =>
          /\ u # t /\ pc'[u] = pc[u] /\ fid'[u] = fid[u] /\ req'[u] = req[u]
          /\ old'[u] = old[u] /\ fid[u] # fid[t]
    BY <1>2, <1>3, <1>4 DEF Loading, FreePc, VictimPc
  <2>2. \A u \in Threads : pc[u] \in Loading /\ u # t =>
          /\ pc'[u] = pc[u] /\ fid'[u] = fid[u] /\ req'[u] = req[u] /\ old'[u] = old[u]
    BY <1>3 DEF Loading, FreePc, VictimPc
  <2>3. \A f \in Frames : owner'[f] = IF f = fid[t] THEN None ELSE owner[f]
    BY <1>0, <1>1, <1>2 DEF FrameTypes
  <2>4. \A k \in Keys : loading_table'[k] = IF k = req[t] THEN None ELSE loading_table[k]
    BY <1>0, <1>1, <1>2 DEF PoolTypes
  <2>5. \A f \in Frames : owner[f] # None => owner[f] \in Threads
    BY <1>0 DEF FrameTypes
  <2>6. \A k \in Keys : loading_table[k] # None => loading_table[k] \in Threads
    BY <1>0 DEF PoolTypes
  <2>7. state[fid[t]] = "ready"
    BY <2>0 DEF LoadsExclusive
  <2>8. \A u \in Threads : pc'[u] \in FreePc =>
            /\ state'[fid'[u]] = "loading" /\ owner'[fid'[u]] = u
            /\ key'[fid'[u]] = req'[u]
    <3>1. \A u \in Threads : pc'[u] \in FreePc => pc'[u] \in Loading /\ fid[u] \in Frames
      BY <2>1, LoaderFrame DEF Loading
    <3> QED BY <1>1, <2>0, <2>1, <2>3, <3>1 DEF LoadsExclusive, Loading
  <2>9. \A u \in Threads : pc'[u] \in VictimPc =>
            /\ state'[fid'[u]] = "ready" /\ owner'[fid'[u]] = u
            /\ key'[fid'[u]] = old'[u] /\ loading_table'[req'[u]] = u
    <3>1. \A u \in Threads : pc'[u] \in VictimPc =>
             pc'[u] \in Loading /\ fid[u] \in Frames /\ req[u] \in Keys
      BY <2>1, LoaderFrame DEF Loading
    <3> QED BY <1>1, <2>0, <2>1, <2>3, <2>4, <3>1 DEF LoadsExclusive, Loading
  <2>10. \A f \in Frames :
            /\ state'[f] = "loading" => owner'[f] # None
            /\ owner'[f] # None =>
                 /\ fid'[owner'[f]] = f
                 /\ pc'[owner'[f]] \in (IF state'[f] = "loading" THEN FreePc ELSE VictimPc)
    BY <1>1, <2>0, <2>2, <2>3, <2>5, <2>7 DEF LoadsExclusive, Loading
  <2>11. \A k \in Keys : loading_table'[k] # None =>
            /\ pc'[loading_table'[k]] \in VictimPc /\ req'[loading_table'[k]] = k
            /\ page_table'[k] = None
    BY <1>1, <2>0, <2>2, <2>4, <2>6 DEF LoadsExclusive, Loading
  <2> QED BY <2>8, <2>9, <2>10, <2>11 DEF LoadsExclusive
<1> QED
  BY <1>3, <1>5, <1>6, <1>7, <1>8 DEF IInv

(***************************************************************************)
(* The beginning of a load                                                 *)
(***************************************************************************)
(* A step about frame f keeps the pins of the others accounted. *)
LEMMA PinsElsewhere ==
  ASSUME PinsAccounted, NEW f \in Frames,
         \A g \in Frames : g # f => /\ Guarding(g)' = Guarding(g)
                                    /\ pin'[g] = pin[g] /\ state'[g] = state[g],
         pin'[f] = Cardinality(Guarding(f)') + (IF state'[f] = "loading" THEN 1 ELSE 0),
         Guarding(f)' # {} => state'[f] = "ready"
  PROVE  PinsAccounted'
<1>1. ASSUME NEW g \in Frames, g # f
      PROVE  /\ pin'[g] = Cardinality(Guarding(g)')
                             + (IF state'[g] = "loading" THEN 1 ELSE 0)
             /\ Guarding(g)' # {} => state'[g] = "ready"
  <2>1. Cardinality(Guarding(g)') = Cardinality(Guarding(g)) BY <1>1
  <2> QED BY <1>1, <2>1 DEF PinsAccounted
<1> QED BY <1>1 DEF PinsAccounted

StartPc(t) == IF t = Worker THEN {"check"} ELSE {"idle", "woken"}

(* What entering a LoadCompletion in loading_table_ does to the waits. *)
LEMMA BeginLoadFacts ==
  ASSUME IInv, NEW t \in Threads, pc[t] \in StartPc(t),
         NEW where \in {"free_io", "clean_io", "dirty_io"},
         t = Worker => where # "dirty_io",
         NEW k \in Keys, NEW f \in Frames, NEW oldKey \in Opt(Keys),
         where # "free_io" => oldKey # None /\ ticket'[f] < MaxTicket,
         BeginLoad(t, where, k, f, oldKey), UNCHANGED prefetching,
         \A u \in Threads : pc[u] \in VictimPc => ticket'[fid[u]] = ticket[fid[u]]
  PROVE  /\ ThreadTypes' /\ LocalsOK' /\ ControlOK' /\ WaitersHaveLoader'
         /\ pc[t] \notin Loading \cup {"holding", "mutated"}
         /\ pc'[t] = where /\ fid'[t] = f /\ req'[t] = k /\ old'[t] = oldKey
         /\ \A u \in Threads : u # t =>
              /\ pc'[u] = pc[u] /\ fid'[u] = fid[u] /\ req'[u] = req[u]
              /\ old'[u] = old[u]
<1> USE Distinct DEF Opt
<1>0. ThreadTypes /\ PoolTypes
  BY DEF IInv, TypeOK
<1>1. /\ pc' = [pc EXCEPT ![t] = where]
      /\ req' = [req EXCEPT ![t] = k]
      /\ fid' = [fid EXCEPT ![t] = f]
      /\ old' = [old EXCEPT ![t] = oldKey]
      /\ peer' = [peer EXCEPT ![t] = None]
      /\ note' = [note EXCEPT ![t] = None]
      /\ UNCHANGED <<scratch, snap, tbl, control, worker_state>>
  BY DEF BeginLoad, prefetching
<1>2. pc[t] \notin Loading \cup {"holding", "mutated", "waiting"}
  BY DEF StartPc, Loading, FreePc, VictimPc
<1>3. /\ pc'[t] = where /\ fid'[t] = f /\ req'[t] = k /\ old'[t] = oldKey
      /\ \A u \in Threads : u # t =>
           /\ pc'[u] = pc[u] /\ fid'[u] = fid[u] /\ req'[u] = req[u]
           /\ old'[u] = old[u] /\ peer'[u] = peer[u]
  BY <1>0, <1>1 DEF ThreadTypes
<1>4. ThreadTypes'
  BY <1>0, <1>1 DEF ThreadTypes, ClientPc, WorkerPc, FreePc, VictimPc
<1>5. LocalsOK'
  <2>1. \A u \in Threads : u # t /\ pc[u] \in VictimPc => ticket'[fid'[u]] = ticket[fid[u]]
    BY <1>3
  <2> QED BY <1>1, <1>3, <2>1 DEF IInv, LocalsOK, FreePc, VictimPc
<1>6. ControlOK'
  <2>1. \A c \in Clients : pc'[c] \in JoinPc \cup {"restart"} => pc'[c] = pc[c]
    BY <1>3 DEF JoinPc
  <2>2. worker_state = "stopped" => pc'[Worker] = "off"
    <3>1. pc[Worker] = "off" => t # Worker
      BY DEF StartPc
    <3> QED BY <1>3, <3>1 DEF IInv, ControlOK
  <2> QED BY <1>1, <2>1, <2>2 DEF IInv, ControlOK
<1>7. WaitersHaveLoader'
  <2>1. ASSUME NEW c \in Clients, pc'[c] = "waiting"
        PROVE  /\ peer'[c] # None /\ pc'[peer'[c]] \in FreePc \cup VictimPc
               /\ req'[peer'[c]] = req'[c]
    <3>1. c # t /\ pc[c] = "waiting"
      BY <1>3, <2>1
    <3>2. peer[c] \in Threads /\ pc[peer[c]] \in FreePc \cup VictimPc /\ req[peer[c]] = req[c]
      BY <1>0, <3>1 DEF IInv, WaitersHaveLoader, ThreadTypes
    <3>3. peer[c] # t
      BY <1>2, <3>2 DEF Loading
    <3> QED BY <1>3, <3>1, <3>2, <3>3
  <2> QED BY <2>1 DEF WaitersHaveLoader
<1> QED BY <1>2, <1>3, <1>4, <1>5, <1>6, <1>7

(* A free frame belongs to nobody. *)
LEMMA FreeFrameUnused ==
  ASSUME IInv, NEW f \in Frames, state[f] = "free"
  PROVE  /\ Guarding(f) = {} /\ owner[f] = None
         /\ \A k \in Keys : page_table[k] # f
         /\ \A u \in Threads : pc[u] \in Loading => fid[u] # f
BY Distinct DEF IInv, PinsAccounted, MappingConsistent, LoadsExclusive, Loading

(* A load that takes a free frame. *)
LEMMA LoadFreeStep ==
  ASSUME IInv, NEW t \in Threads, NEW k \in Keys,
         pc[t] \in StartPc(t), LoadFree(t, k)
  PROVE  IInv'
<1> USE Distinct DEF Opt
<1>0. FrameTypes /\ PoolTypes /\ ThreadTypes
  BY DEF IInv, TypeOK
<1>1. PICK f \in Frames :
        /\ state[f] = "free" /\ ticket[f] < MaxTicket
        /\ ticket' = [ticket EXCEPT ![f] = @ + 1]
        /\ state' = [state EXCEPT ![f] = "loading"]
        /\ key' = [key EXCEPT ![f] = k]
        /\ dirty' = [dirty EXCEPT ![f] = FALSE]
        /\ pin' = [pin EXCEPT ![f] = 1]
        /\ owner' = [owner EXCEPT ![f] = t]
        /\ page_table' = [page_table EXCEPT ![k] = f]
        /\ BeginLoad(t, "free_io", k, f, None)
  BY DEF LoadFree, FirstFree, FreeFrames, TicketLeft
<1>2. /\ page_table[k] = None /\ loading_table[k] = None
      /\ UNCHANGED <<page, touched, loading_table, order, lifecycle, disk,
                     queue, worker_state, control, prefetching>>
  BY DEF LoadFree, Absent, prefetching
<1>3. /\ Guarding(f) = {} /\ owner[f] = None
      /\ \A j \in Keys : page_table[j] # f
      /\ \A u \in Threads : pc[u] \in Loading => fid[u] # f
  BY <1>1, FreeFrameUnused
<1>4. /\ ThreadTypes' /\ LocalsOK' /\ ControlOK' /\ WaitersHaveLoader'
      /\ pc[t] \notin Loading \cup {"holding", "mutated"}
      /\ pc'[t] = "free_io" /\ fid'[t] = f /\ req'[t] = k
      /\ \A u \in Threads : u # t =>
              /\ pc'[u] = pc[u] /\ fid'[u] = fid[u] /\ req'[u] = req[u]
              /\ old'[u] = old[u]
  <2>1. \A u \in Threads : pc[u] \in VictimPc => ticket'[fid[u]] = ticket[fid[u]]
    BY <1>0, <1>1, <1>3, LoaderFrame DEF FrameTypes, Loading
  <2> QED BY <1>1, <1>2, <2>1, BeginLoadFacts
<1>5. TypeOK'
  <2>1. ticket[f] + 1 \in 0..MaxTicket
    BY <1>0, <1>1, ConstantsAssumption DEF FrameTypes
  <2>2. FrameTypes' BY <1>0, <1>1, <1>2, <2>1 DEF FrameTypes
  <2>3. PoolTypes' BY <1>0, <1>1, <1>2 DEF PoolTypes
  <2> QED BY <1>4, <2>2, <2>3 DEF TypeOK
<1>6. MappingConsistent'
  <2>0. MappingConsistent BY DEF IInv
  <2>1. \A j \in Keys : page_table'[j] # None => key'[page_table'[j]] = j
    BY <1>0, <1>1, <1>3, <2>0 DEF MappingConsistent, FrameTypes, PoolTypes
  <2>2. \A g \in Frames : IF state'[g] = "free"
                          THEN key'[g] = None /\ ~dirty'[g] /\ owner'[g] = None
                          ELSE key'[g] # None /\ page_table'[key'[g]] = g
    <3>1. ASSUME NEW g \in Frames, g # f
          PROVE  IF state'[g] = "free"
                 THEN key'[g] = None /\ ~dirty'[g] /\ owner'[g] = None
                 ELSE key'[g] # None /\ page_table'[key'[g]] = g
      <4>1. /\ state'[g] = state[g] /\ key'[g] = key[g] /\ dirty'[g] = dirty[g]
            /\ owner'[g] = owner[g]
        BY <1>0, <1>1, <3>1 DEF FrameTypes
      <4>2. state[g] # "free" => key[g] \in Keys /\ key[g] # k
        BY <1>0, <1>2, <2>0 DEF MappingConsistent, FrameTypes
      <4>3. \A j \in Keys : j # k => page_table'[j] = page_table[j]
        BY <1>0, <1>1 DEF PoolTypes
      <4> QED BY <2>0, <4>1, <4>2, <4>3 DEF MappingConsistent
    <3>2. state'[f] = "loading" /\ key'[f] = k /\ page_table'[k] = f
      BY <1>0, <1>1 DEF FrameTypes, PoolTypes
    <3> QED BY <3>1, <3>2
  <2>3. \A g \in Frames : state'[g] = "ready" <=> state[g] = "ready"
    BY <1>0, <1>1 DEF FrameTypes
  <2> QED BY <1>2, <2>0, <2>1, <2>2, <2>3 DEF MappingConsistent
<1>7. PinsAccounted'
  <2>1. \A g \in Frames : Guarding(g)' = Guarding(g)
    BY <1>4 DEF Guarding
  <2>2. Cardinality(Guarding(f)') = 0
    BY <1>3, <2>1, FS_EmptySet
  <2>3. pin'[f] = 1 /\ state'[f] = "loading"
        /\ \A g \in Frames : g # f => pin'[g] = pin[g] /\ state'[g] = state[g]
    BY <1>0, <1>1 DEF FrameTypes
  <2> QED BY <1>3, <2>1, <2>2, <2>3, PinsElsewhere DEF IInv
<1>8. LoadsExclusive'
  <2>0. LoadsExclusive BY DEF IInv
  <2>1. /\ state'[f] = "loading" /\ key'[f] = k /\ owner'[f] = t
        /\ \A g \in Frames : g # f => /\ state'[g] = state[g] /\ key'[g] = key[g]
                                      /\ owner'[g] = owner[g]
    BY <1>0, <1>1 DEF FrameTypes
  <2>2. \A u \in Threads : u # t /\ pc'[u] \in Loading => fid[u] \in Frames /\ fid[u] # f
    BY <1>3, <1>4, LoaderFrame
  <2>3. \A g \in Frames : owner[g] # None => owner[g] \in Threads /\ owner[g] # t
    BY <1>0, <1>4, <2>0 DEF FrameTypes, LoadsExclusive, Loading
  <2>4. \A j \in Keys : loading_table[j] # None =>
             loading_table[j] \in Threads /\ loading_table[j] # t /\ j # k
    BY <1>0, <1>2, <1>4, <2>0 DEF PoolTypes, LoadsExclusive, Loading
  <2>5. \A j \in Keys : j # k => page_table'[j] = page_table[j]
    BY <1>0, <1>1 DEF PoolTypes
  <2>6. \A u \in Threads : pc'[u] \in FreePc =>
            /\ state'[fid'[u]] = "loading" /\ owner'[fid'[u]] = u
            /\ key'[fid'[u]] = req'[u]
    BY <1>4, <2>0, <2>1, <2>2 DEF LoadsExclusive, Loading
  <2>7. \A u \in Threads : pc'[u] \in VictimPc =>
            /\ state'[fid'[u]] = "ready" /\ owner'[fid'[u]] = u
            /\ key'[fid'[u]] = old'[u] /\ loading_table'[req'[u]] = u
    <3>1. pc'[t] \notin VictimPc BY <1>4 DEF VictimPc
    <3> QED BY <1>2, <1>4, <2>0, <2>1, <2>2, <3>1 DEF LoadsExclusive, Loading
  <2>8. \A g \in Frames :
            /\ state'[g] = "loading" => owner'[g] # None
            /\ owner'[g] # None =>
                 /\ fid'[owner'[g]] = g
                 /\ pc'[owner'[g]] \in (IF state'[g] = "loading" THEN FreePc ELSE VictimPc)
    <3>1. pc'[t] \in FreePc BY <1>4 DEF FreePc
    <3> QED BY <1>4, <2>0, <2>1, <2>3, <3>1 DEF LoadsExclusive
  <2>9. \A j \in Keys : loading_table'[j] # None =>
            /\ pc'[loading_table'[j]] \in VictimPc /\ req'[loading_table'[j]] = j
            /\ page_table'[j] = None
    BY <1>2, <1>4, <2>0, <2>4, <2>5 DEF LoadsExclusive
  <2> QED BY <2>6, <2>7, <2>8, <2>9 DEF LoadsExclusive
<1> QED
  BY <1>4, <1>5, <1>6, <1>7, <1>8 DEF IInv

(* A load that reserves a victim frame. *)
LEMMA ReserveStep ==
  ASSUME IInv, NEW t \in Threads, NEW k \in Keys,
         pc[t] \in StartPc(t), Reserve(t, k)
  PROVE  IInv'
<1> USE Distinct DEF Opt
<1>0. FrameTypes /\ PoolTypes /\ ThreadTypes
  BY DEF IInv, TypeOK
<1>1. PICK f \in Frames :
        /\ Eligible(t, f) /\ ticket[f] < MaxTicket
        /\ owner' = [owner EXCEPT ![f] = t]
        /\ touched' = [touched EXCEPT ![f] = FALSE]
        /\ loading_table' = [loading_table EXCEPT ![k] = t]
        /\ BeginLoad(t, IF dirty[f] THEN "dirty_io" ELSE "clean_io", k, f, key[f])
  BY DEF Reserve, choose_victim, Queued, TicketLeft
<1>2. /\ page_table[k] = None /\ loading_table[k] = None
      /\ UNCHANGED <<state, key, page, dirty, pin, ticket, page_table, order,
                     lifecycle, disk, queue, worker_state, control, prefetching>>
  BY DEF Reserve, Absent, prefetching
<1>3. /\ state[f] = "ready" /\ owner[f] = None /\ key[f] \in Keys
      /\ t = Worker => ~dirty[f]
  BY <1>0, <1>1 DEF Eligible, IInv, MappingConsistent, FrameTypes
<1>4. PICK where \in {"clean_io", "dirty_io"} :
        BeginLoad(t, where, k, f, key[f]) /\ (t = Worker => where # "dirty_io")
  BY <1>1, <1>3
<1>5. /\ ThreadTypes' /\ LocalsOK' /\ ControlOK' /\ WaitersHaveLoader'
      /\ pc[t] \notin Loading \cup {"holding", "mutated"}
      /\ pc'[t] = where /\ fid'[t] = f /\ req'[t] = k /\ old'[t] = key[f]
      /\ \A u \in Threads : u # t =>
              /\ pc'[u] = pc[u] /\ fid'[u] = fid[u] /\ req'[u] = req[u]
              /\ old'[u] = old[u]
  <2>1. ticket' = ticket /\ ticket'[f] < MaxTicket BY <1>1, <1>2
  <2> QED BY <1>2, <1>3, <1>4, <2>1, BeginLoadFacts
<1>6. TypeOK'
  <2>1. FrameTypes' BY <1>0, <1>1, <1>2 DEF FrameTypes
  <2>2. PoolTypes' BY <1>0, <1>1, <1>2 DEF PoolTypes
  <2> QED BY <1>5, <2>1, <2>2 DEF TypeOK
<1>7. MappingConsistent'
  <2>1. \A g \in Frames : g # f => owner'[g] = owner[g]
    BY <1>0, <1>1 DEF FrameTypes
  <2> QED BY <1>2, <1>3, <2>1 DEF IInv, MappingConsistent
<1>8. PinsAccounted'
  <2>1. \A g \in Frames : Guarding(g)' = Guarding(g)
    BY <1>5 DEF Guarding
  <2> QED BY <1>2, <2>1, PinsKept DEF IInv
<1>9. LoadsExclusive'
  <2>0. LoadsExclusive BY DEF IInv
  <2>1. /\ owner'[f] = t
        /\ \A g \in Frames : g # f => owner'[g] = owner[g]
    BY <1>0, <1>1 DEF FrameTypes
  <2>2. \A u \in Threads : u # t /\ pc'[u] \in Loading =>
             fid[u] \in Frames /\ fid[u] # f /\ req[u] \in Keys
    BY <1>3, <1>5, LoaderFrame
  <2>3. \A g \in Frames : owner[g] # None => owner[g] \in Threads /\ owner[g] # t
    BY <1>0, <1>5, <2>0 DEF FrameTypes, LoadsExclusive, Loading
  <2>4. \A j \in Keys : loading_table[j] # None =>
             loading_table[j] \in Threads /\ loading_table[j] # t
    BY <1>0, <1>5, <2>0 DEF PoolTypes, LoadsExclusive, Loading
  <2>5. /\ loading_table'[k] = t
        /\ \A j \in Keys : j # k => loading_table'[j] = loading_table[j]
    BY <1>0, <1>1 DEF PoolTypes
  <2>6. pc'[t] \notin FreePc /\ pc'[t] \in VictimPc
    BY <1>5 DEF FreePc, VictimPc
  <2>7. \A u \in Threads : pc'[u] \in FreePc =>
            /\ state'[fid'[u]] = "loading" /\ owner'[fid'[u]] = u
            /\ key'[fid'[u]] = req'[u]
    BY <1>2, <1>5, <2>0, <2>1, <2>2, <2>6 DEF LoadsExclusive, Loading
  <2>8. \A u \in Threads : pc'[u] \in VictimPc =>
            /\ state'[fid'[u]] = "ready" /\ owner'[fid'[u]] = u
            /\ key'[fid'[u]] = old'[u] /\ loading_table'[req'[u]] = u
    <3>1. ASSUME NEW u \in Threads, u # t, pc'[u] \in VictimPc
          PROVE  req[u] # k
      BY <1>2, <1>5, <2>0, <3>1 DEF LoadsExclusive
    <3> QED BY <1>2, <1>3, <1>5, <2>0, <2>1, <2>2, <2>5, <3>1 DEF LoadsExclusive, Loading
  <2>9. \A g \in Frames :
            /\ state'[g] = "loading" => owner'[g] # None
            /\ owner'[g] # None =>
                 /\ fid'[owner'[g]] = g
                 /\ pc'[owner'[g]] \in (IF state'[g] = "loading" THEN FreePc ELSE VictimPc)
    BY <1>2, <1>3, <1>5, <2>0, <2>1, <2>3, <2>6 DEF LoadsExclusive
  <2>10. \A j \in Keys : loading_table'[j] # None =>
            /\ pc'[loading_table'[j]] \in VictimPc /\ req'[loading_table'[j]] = j
            /\ page_table'[j] = None
    BY <1>2, <1>5, <2>0, <2>4, <2>5, <2>6 DEF LoadsExclusive
  <2> QED BY <2>7, <2>8, <2>9, <2>10 DEF LoadsExclusive
<1> QED
  BY <1>5, <1>6, <1>7, <1>8, <1>9 DEF IInv

(* The guards after a load into frame f: a client that succeeds has one. *)
LEMMA GuardsAfterLoad ==
  ASSUME IInv, NEW t \in Threads, pc[t] \in Loading, NEW f \in Frames,
         pc'[t] = AfterLoad(t, f), t \in Clients => fid'[t] = f,
         \A u \in Threads : u # t =>
              /\ fid'[u] = fid[u]
              /\ pc'[u] = pc[u] \/ (pc[u] = "waiting" /\ pc'[u] = "woken"),
         Guarding(f) = {}
  PROVE  /\ \A g \in Frames : g # f => Guarding(g)' = Guarding(g)
         /\ Cardinality(Guarding(f)') = LoadedPin(t)
<1> USE Distinct
<1>1. pc[t] \notin {"holding", "mutated"}
  BY DEF Loading, FreePc, VictimPc
<1>2. \A g \in Frames : g # f => Guarding(g)' = Guarding(g)
  <2>1. CASE t = Worker
    BY <1>1, <2>1 DEF Guarding
  <2>2. CASE t # Worker
    BY <1>1, <2>2 DEF Guarding
  <2> QED BY <2>1, <2>2
<1>3. CASE t = Worker
  <2>1. Guarding(f)' = {}
    BY <1>3 DEF Guarding
  <2> QED BY <1>2, <1>3, <2>1, FS_EmptySet DEF LoadedPin
<1>4. CASE t # Worker
  <2>1. pc'[t] = "holding"
    BY <1>4 DEF AfterLoad
  <2>2. Guarding(f)' = {t}
    BY <1>4, <2>1 DEF Guarding
  <2> QED BY <1>2, <1>4, <2>2, FS_Singleton DEF LoadedPin
<1> QED BY <1>3, <1>4

(* A load into a free frame that succeeded is published. *)
LEMMA PublishFreeStep ==
  ASSUME IInv, NEW t \in Threads, PublishFree(t)
  PROVE  IInv'
<1> USE Distinct DEF Opt
<1>0. FrameTypes /\ PoolTypes /\ ThreadTypes /\ pc[t] \in FreePc /\ pc[t] \in Loading
  BY DEF IInv, TypeOK, Loading, PublishFree, FreePc
<1>1. PICK f \in Frames :
      /\ f = fid[t] /\ owner[f] = t
      /\ \A u \in Threads : pc[u] \in Loading /\ fid[u] = f => u = t
      /\ state[f] = "loading" /\ scratch[t] \in Values
  BY <1>0, LoaderFrame DEF IInv, LoadsExclusive, PublishFree, ThreadTypes
<1>2. /\ state' = [state EXCEPT ![f] = "ready"]
      /\ page' = [page EXCEPT ![f] = scratch[t]]
      /\ dirty' = [dirty EXCEPT ![f] = FALSE]
      /\ pin' = [pin EXCEPT ![f] = LoadedPin(t)]
      /\ owner' = [owner EXCEPT ![f] = None]
      /\ order' = record_load(order, f)
      /\ Complete(t, f, ticket[f])
      /\ UNCHANGED <<key, ticket, touched, page_table, loading_table, lifecycle,
                     disk, queue, worker_state, control, prefetching>>
  BY <1>1 DEF PublishFree, prefetching
<1>3. /\ ThreadTypes' /\ LocalsOK' /\ ControlOK' /\ WaitersHaveLoader'
      /\ pc'[t] = AfterLoad(t, f)
      /\ t \in Clients => fid'[t] = f
      /\ \A u \in Threads : u # t =>
              /\ fid'[u] = fid[u] /\ req'[u] = req[u] /\ old'[u] = old[u]
              /\ pc'[u] = pc[u] \/ (pc[u] = "waiting" /\ pc'[u] = "woken")
  <2>1. ticket[f] \in 0..MaxTicket BY <1>0, <1>1 DEF FrameTypes
  <2> QED BY <1>0, <1>1, <1>2, <2>1, CompleteFacts
<1>4. /\ order' \in SUBSET (Frames \X Frames)
      /\ Queued(order') = Queued(order) \cup {f} /\ IsList(order')
  BY <1>0, <1>1, <1>2, RecordLoad DEF IInv, MappingConsistent, PoolTypes
<1>5. /\ state'[f] = "ready" /\ page'[f] # None /\ owner'[f] = None
      /\ pin'[f] = LoadedPin(t)
      /\ \A g \in Frames : g # f =>
           /\ state'[g] = state[g] /\ page'[g] = page[g] /\ dirty'[g] = dirty[g]
           /\ owner'[g] = owner[g] /\ pin'[g] = pin[g]
  BY <1>0, <1>1, <1>2 DEF FrameTypes
<1>6. TypeOK'
  <2>1. FrameTypes' BY <1>0, <1>1, <1>2 DEF FrameTypes, LoadedPin
  <2>2. PoolTypes' BY <1>0, <1>2, <1>4 DEF PoolTypes
  <2> QED BY <1>3, <2>1, <2>2 DEF TypeOK
<1>7. MappingConsistent'
  <2>1. \A g \in Frames : IF state'[g] = "free"
                          THEN key'[g] = None /\ ~dirty'[g] /\ owner'[g] = None
                          ELSE key'[g] # None /\ page_table'[key'[g]] = g
    BY <1>1, <1>2, <1>5 DEF IInv, MappingConsistent
  <2>2. Queued(order') = {g \in Frames : state'[g] = "ready"}
    BY <1>1, <1>4, <1>5 DEF IInv, MappingConsistent
  <2>3. \A g \in Frames : state'[g] = "ready" => page'[g] # None
    BY <1>5 DEF IInv, MappingConsistent
  <2> QED BY <1>2, <1>4, <2>1, <2>2, <2>3 DEF IInv, MappingConsistent
<1>8. PinsAccounted'
  <2>1. Guarding(f) = {}
    BY <1>1 DEF IInv, PinsAccounted
  <2>2. /\ \A g \in Frames : g # f => Guarding(g)' = Guarding(g)
        /\ Cardinality(Guarding(f)') = LoadedPin(t)
    BY <1>0, <1>1, <1>3, <2>1, GuardsAfterLoad
  <2>3. LoadedPin(t) \in Nat BY DEF LoadedPin
  <2> QED BY <1>1, <1>5, <2>2, <2>3, PinsElsewhere DEF IInv
<1>9. LoadsExclusive'
  <2>0. LoadsExclusive BY DEF IInv
  <2>1. pc'[t] \notin Loading
    BY <1>3 DEF AfterLoad, Loading, FreePc, VictimPc
  <2>2. \A u \in Threads : pc'[u] \in Loading =>
          /\ u # t /\ pc'[u] = pc[u] /\ fid'[u] = fid[u] /\ req'[u] = req[u]
          /\ old'[u] = old[u] /\ fid[u] # f /\ fid[u] \in Frames
    BY <1>1, <1>3, <2>1, LoaderFrame DEF Loading, FreePc, VictimPc
  <2>3. \A u \in Threads : pc[u] \in Loading /\ u # t =>
          /\ pc'[u] = pc[u] /\ fid'[u] = fid[u] /\ req'[u] = req[u] /\ old'[u] = old[u]
    BY <1>3 DEF Loading, FreePc, VictimPc
  <2>4. \A g \in Frames : g # f /\ owner[g] # None => owner[g] \in Threads /\ owner[g] # t
    BY <1>0, <1>1, <2>0 DEF FrameTypes, LoadsExclusive
  <2>5. \A j \in Keys : loading_table[j] # None =>
             loading_table[j] \in Threads /\ loading_table[j] # t
    BY <1>0, <2>0 DEF PoolTypes, LoadsExclusive, FreePc, VictimPc
  <2>6. \A u \in Threads : pc'[u] \in FreePc =>
            /\ state'[fid'[u]] = "loading" /\ owner'[fid'[u]] = u
            /\ key'[fid'[u]] = req'[u]
    BY <1>2, <1>5, <2>0, <2>2 DEF LoadsExclusive, Loading
  <2>7. \A u \in Threads : pc'[u] \in VictimPc =>
            /\ state'[fid'[u]] = "ready" /\ owner'[fid'[u]] = u
            /\ key'[fid'[u]] = old'[u] /\ loading_table'[req'[u]] = u
    BY <1>2, <1>5, <2>0, <2>2 DEF LoadsExclusive, Loading
  <2>8. \A g \in Frames :
            /\ state'[g] = "loading" => owner'[g] # None
            /\ owner'[g] # None =>
                 /\ fid'[owner'[g]] = g
                 /\ pc'[owner'[g]] \in (IF state'[g] = "loading" THEN FreePc ELSE VictimPc)
    BY <1>5, <2>0, <2>3, <2>4 DEF LoadsExclusive, Loading
  <2>9. \A j \in Keys : loading_table'[j] # None =>
            /\ pc'[loading_table'[j]] \in VictimPc /\ req'[loading_table'[j]] = j
            /\ page_table'[j] = None
    BY <1>2, <2>0, <2>3, <2>5 DEF LoadsExclusive, Loading
  <2> QED BY <2>6, <2>7, <2>8, <2>9 DEF LoadsExclusive
<1> QED
  BY <1>3, <1>6, <1>7, <1>8, <1>9 DEF IInv

(* A failed read: the frame is FREE again. *)
LEMMA AbandonFreeStep ==
  ASSUME IInv, NEW t \in Threads, AbandonFree(t)
  PROVE  IInv'
<1> USE Distinct DEF Opt
<1>0. FrameTypes /\ PoolTypes /\ ThreadTypes /\ pc[t] \in FreePc /\ pc[t] \in Loading
  BY DEF IInv, TypeOK, Loading, AbandonFree, FreePc
<1>1. PICK f \in Frames :
      /\ f = fid[t] /\ owner[f] = t /\ req[t] \in Keys
      /\ \A u \in Threads : pc[u] \in Loading /\ fid[u] = f => u = t
      /\ state[f] = "loading" /\ key[f] = req[t] /\ page_table[req[t]] = f
  BY <1>0, LoaderFrame DEF IInv, LoadsExclusive, MappingConsistent
<1>2. /\ reset_to_free({f})
      /\ page_table' = [page_table EXCEPT ![req[t]] = None]
      /\ Complete(t, None, None)
      /\ UNCHANGED <<loading_table, order, lifecycle, disk, queue, worker_state,
                     control, prefetching>>
  BY <1>1 DEF AbandonFree, prefetching
<1>3. /\ state'[f] = "free" /\ key'[f] = None /\ ~dirty'[f] /\ pin'[f] = 0
      /\ owner'[f] = None
      /\ \A g \in Frames : g # f =>
           /\ state'[g] = state[g] /\ key'[g] = key[g] /\ page'[g] = page[g]
           /\ dirty'[g] = dirty[g] /\ owner'[g] = owner[g] /\ pin'[g] = pin[g]
      /\ ticket' = ticket
  BY <1>1, <1>2 DEF reset_to_free
<1>4. /\ ThreadTypes' /\ LocalsOK' /\ ControlOK' /\ WaitersHaveLoader'
      /\ pc'[t] = AfterLoad(t, None)
      /\ \A u \in Threads : u # t =>
              /\ fid'[u] = fid[u] /\ req'[u] = req[u] /\ old'[u] = old[u]
              /\ pc'[u] = pc[u] \/ (pc[u] = "waiting" /\ pc'[u] = "woken")
  <2>1. \A u \in Threads : ticket'[fid[u]] = ticket[fid[u]] BY <1>3
  <2>2. Complete(t, None, None) /\ UNCHANGED prefetching BY <1>2
  <2>3. None \in Opt(Frames) /\ None \in Opt(0..MaxTicket) OBVIOUS
  <2> HIDE DEF Opt
  <2> QED BY <1>0, <2>1, <2>2, <2>3, CompleteFacts
<1>5. pc'[t] \in {"finish", "idle"}
  BY <1>4 DEF AfterLoad
<1>6. TypeOK'
  <2>1. FrameTypes' BY <1>0, <1>2 DEF FrameTypes, reset_to_free
  <2>2. PoolTypes' BY <1>0, <1>2 DEF PoolTypes
  <2> QED BY <1>4, <2>1, <2>2 DEF TypeOK
<1>7. /\ page_table'[req[t]] = None
      /\ \A k \in Keys : k # req[t] => page_table'[k] = page_table[k]
  BY <1>0, <1>1, <1>2 DEF PoolTypes
<1>8. MappingConsistent'
  <2>0. MappingConsistent BY DEF IInv
  <2>1. \A k \in Keys : page_table'[k] # None => key'[page_table'[k]] = k
    <3>1. \A k \in Keys : k # req[t] => page_table[k] # f
      BY <1>1, <2>0 DEF MappingConsistent
    <3> QED BY <1>0, <1>3, <1>7, <2>0, <3>1 DEF MappingConsistent, PoolTypes
  <2>2. \A g \in Frames : IF state'[g] = "free"
                          THEN key'[g] = None /\ ~dirty'[g] /\ owner'[g] = None
                          ELSE key'[g] # None /\ page_table'[key'[g]] = g
    <3>1. \A g \in Frames : g # f => key[g] # req[t]
      BY <1>1, <2>0 DEF MappingConsistent
    <3> QED BY <1>0, <1>3, <1>7, <2>0, <3>1 DEF MappingConsistent, FrameTypes
  <2>3. \A g \in Frames : state'[g] = "ready" <=> state[g] = "ready"
    BY <1>1, <1>3
  <2>4. \A g \in Frames : state'[g] = "ready" => page'[g] # None
    BY <1>3, <2>0 DEF MappingConsistent
  <2> QED BY <1>2, <2>0, <2>1, <2>2, <2>3, <2>4 DEF MappingConsistent
<1>9. PinsAccounted'
  <2>1. Guarding(f) = {}
    BY <1>1 DEF IInv, PinsAccounted
  <2>2. \A g \in Frames : Guarding(g)' = Guarding(g)
    BY <1>0, <1>4, <1>5 DEF Guarding, Loading, FreePc, VictimPc
  <2>3. Cardinality(Guarding(f)') = 0
    BY <1>1, <2>1, <2>2, FS_EmptySet
  <2> QED BY <1>1, <1>3, <2>1, <2>2, <2>3, PinsElsewhere DEF IInv
<1>10. LoadsExclusive'
  <2>0. LoadsExclusive BY DEF IInv
  <2>1. pc'[t] \notin Loading
    BY <1>5 DEF Loading, FreePc, VictimPc
  <2>2. \A u \in Threads : pc'[u] \in Loading =>
          /\ u # t /\ pc'[u] = pc[u] /\ fid'[u] = fid[u] /\ req'[u] = req[u]
          /\ old'[u] = old[u] /\ fid[u] # f /\ fid[u] \in Frames
    BY <1>1, <1>4, <2>1, LoaderFrame DEF Loading, FreePc, VictimPc
  <2>3. \A u \in Threads : pc[u] \in Loading /\ u # t =>
          /\ pc'[u] = pc[u] /\ fid'[u] = fid[u] /\ req'[u] = req[u] /\ old'[u] = old[u]
    BY <1>4 DEF Loading, FreePc, VictimPc
  <2>4. \A g \in Frames : g # f /\ owner[g] # None => owner[g] \in Threads /\ owner[g] # t
    BY <1>0, <1>1, <2>0 DEF FrameTypes, LoadsExclusive
  <2>5. \A j \in Keys : loading_table[j] # None =>
             loading_table[j] \in Threads /\ loading_table[j] # t
    BY <1>0, <2>0 DEF PoolTypes, LoadsExclusive, FreePc, VictimPc
  <2>6. \A u \in Threads : pc'[u] \in FreePc =>
            /\ state'[fid'[u]] = "loading" /\ owner'[fid'[u]] = u
            /\ key'[fid'[u]] = req'[u]
    BY <1>3, <2>0, <2>2 DEF LoadsExclusive, Loading
  <2>7. \A u \in Threads : pc'[u] \in VictimPc =>
            /\ state'[fid'[u]] = "ready" /\ owner'[fid'[u]] = u
            /\ key'[fid'[u]] = old'[u] /\ loading_table'[req'[u]] = u
    BY <1>2, <1>3, <2>0, <2>2 DEF LoadsExclusive, Loading
  <2>8. \A g \in Frames :
            /\ state'[g] = "loading" => owner'[g] # None
            /\ owner'[g] # None =>
                 /\ fid'[owner'[g]] = g
                 /\ pc'[owner'[g]] \in (IF state'[g] = "loading" THEN FreePc ELSE VictimPc)
    BY <1>3, <2>0, <2>3, <2>4 DEF LoadsExclusive, Loading
  <2>9. \A j \in Keys : loading_table'[j] # None =>
            /\ pc'[loading_table'[j]] \in VictimPc /\ req'[loading_table'[j]] = j
            /\ page_table'[j] = None
    BY <1>2, <1>7, <2>0, <2>3, <2>5 DEF LoadsExclusive, Loading
  <2> QED BY <2>6, <2>7, <2>8, <2>9 DEF LoadsExclusive
<1> QED
  BY <1>4, <1>6, <1>8, <1>9, <1>10 DEF IInv

(* The victim gets its new identity. *)
LEMMA CommitStep ==
  ASSUME IInv, NEW t \in Threads, NEW wasDirty \in BOOLEAN,
         pc[t] \in {"clean_ret", "write_ret"}, scratch[t] # None,
         VictimUnchanged(t, wasDirty), Commit(t)
  PROVE  IInv'
<1> USE Distinct DEF Opt
<1>0. FrameTypes /\ PoolTypes /\ ThreadTypes /\ pc[t] \in VictimPc /\ pc[t] \in Loading
  BY DEF IInv, TypeOK, Loading, VictimPc
<1>1. PICK f \in Frames, k \in Keys, o \in Keys :
      /\ f = fid[t] /\ k = req[t] /\ o = old[t]
      /\ owner[f] = t /\ state[f] = "ready" /\ key[f] = o
      /\ \A u \in Threads : pc[u] \in Loading /\ fid[u] = f => u = t
      /\ ticket[f] < MaxTicket
  BY <1>0, LoaderFrame DEF IInv, LoadsExclusive, LocalsOK
<1>2. /\ key' = [key EXCEPT ![f] = k]
      /\ page' = [page EXCEPT ![f] = scratch[t]]
      /\ dirty' = [dirty EXCEPT ![f] = FALSE]
      /\ pin' = [pin EXCEPT ![f] = LoadedPin(t)]
      /\ ticket' = [ticket EXCEPT ![f] = @ + 1]
      /\ owner' = [owner EXCEPT ![f] = None]
      /\ page_table' = [page_table EXCEPT ![o] = None, ![k] = f]
      /\ loading_table' = [loading_table EXCEPT ![k] = None]
      /\ order' = record_load(order, f)
      /\ UNCHANGED <<state, touched, lifecycle, disk, queue, worker_state, control>>
  BY <1>1 DEF Commit, Remapped, prefetching
<1>3. Complete(t, f, ticket[f] + 1) /\ UNCHANGED prefetching
  BY <1>1 DEF Commit
<1>4. /\ page_table[k] = None /\ loading_table[k] = t /\ page_table[o] = f /\ o # k
      /\ pin[f] = 0 /\ Guarding(f) = {}
  <2>1. pin[f] = 0 /\ page_table[o] = f /\ loading_table[k] = t
    BY <1>1 DEF VictimUnchanged
  <2>2. page_table[k] = None
    BY <2>1 DEF IInv, LoadsExclusive
  <2>3. Guarding(f) = {}
    BY <2>1, Unpinned DEF IInv
  <2> QED BY <2>1, <2>2, <2>3
<1>5. ticket[f] + 1 \in 0..MaxTicket
  BY <1>0, <1>1, ConstantsAssumption DEF FrameTypes
<1>6. /\ ThreadTypes' /\ LocalsOK' /\ ControlOK' /\ WaitersHaveLoader'
      /\ pc'[t] = AfterLoad(t, f)
      /\ t \in Clients => fid'[t] = f
      /\ \A u \in Threads : u # t =>
              /\ fid'[u] = fid[u] /\ req'[u] = req[u] /\ old'[u] = old[u]
              /\ pc'[u] = pc[u] \/ (pc[u] = "waiting" /\ pc'[u] = "woken")
  <2>1. \A u \in Threads : u # t /\ pc[u] \in VictimPc
                              => ticket'[fid[u]] = ticket[fid[u]]
    BY <1>0, <1>1, <1>2, LoaderFrame DEF FrameTypes, Loading
  <2>2. f \in Opt(Frames) /\ ticket[f] + 1 \in Opt(0..MaxTicket)
    BY <1>5
  <2> HIDE DEF Opt
  <2> QED BY <1>0, <1>3, <2>1, <2>2, CompleteFacts
<1>7. /\ order' \in SUBSET (Frames \X Frames)
      /\ Queued(order') = Queued(order) /\ IsList(order')
  <2>1. f \in Queued(order) /\ IsList(order)
    BY <1>1 DEF IInv, MappingConsistent
  <2>2. order' = record_load(order, f) /\ order \in SUBSET (Frames \X Frames)
    BY <1>0, <1>2 DEF PoolTypes
  <2>3. Queued(order) \cup {f} = Queued(order) BY <2>1
  <2> QED BY <2>1, <2>2, <2>3, RecordLoad
<1>8. /\ key'[f] = k /\ page'[f] # None /\ owner'[f] = None
      /\ pin'[f] = LoadedPin(t)
      /\ \A g \in Frames : g # f =>
           /\ key'[g] = key[g] /\ page'[g] = page[g] /\ dirty'[g] = dirty[g]
           /\ owner'[g] = owner[g] /\ pin'[g] = pin[g]
  BY <1>0, <1>2 DEF FrameTypes
<1>9. /\ page_table'[k] = f /\ page_table'[o] = None
      /\ \A j \in Keys : j # k /\ j # o => page_table'[j] = page_table[j]
      /\ loading_table'[k] = None
      /\ \A j \in Keys : j # k => loading_table'[j] = loading_table[j]
  BY <1>0, <1>2, <1>4 DEF PoolTypes
<1>10. TypeOK'
  <2>1. scratch[t] \in Values BY <1>0 DEF ThreadTypes
  <2>2. FrameTypes' BY <1>0, <1>2, <1>5, <2>1 DEF FrameTypes, LoadedPin
  <2>3. PoolTypes' BY <1>0, <1>2, <1>7 DEF PoolTypes
  <2> QED BY <1>6, <2>2, <2>3 DEF TypeOK
<1>11. MappingConsistent'
  <2>0. MappingConsistent BY DEF IInv
  <2>1. \A j \in Keys : page_table'[j] # None => key'[page_table'[j]] = j
    <3>1. \A j \in Keys : j # o => page_table[j] # f
      BY <1>1, <2>0 DEF MappingConsistent
    <3> QED BY <1>0, <1>8, <1>9, <2>0, <3>1 DEF MappingConsistent, PoolTypes
  <2>2. \A g \in Frames : IF state'[g] = "free"
                          THEN key'[g] = None /\ ~dirty'[g] /\ owner'[g] = None
                          ELSE key'[g] # None /\ page_table'[key'[g]] = g
    <3>1. ASSUME NEW g \in Frames, g # f
          PROVE  IF state'[g] = "free"
                 THEN key'[g] = None /\ ~dirty'[g] /\ owner'[g] = None
                 ELSE key'[g] # None /\ page_table'[key'[g]] = g
      <4>1. state[g] # "free" => key[g] \in Keys /\ key[g] # k /\ key[g] # o
        BY <1>0, <1>4, <2>0, <3>1 DEF MappingConsistent, FrameTypes
      <4>2. /\ state'[g] = state[g] /\ key'[g] = key[g] /\ dirty'[g] = dirty[g]
            /\ owner'[g] = owner[g]
        BY <1>2, <1>8, <3>1
      <4>3. state[g] # "free" => page_table'[key[g]] = g
        BY <1>9, <2>0, <4>1 DEF MappingConsistent
      <4> QED BY <2>0, <4>1, <4>2, <4>3 DEF MappingConsistent
    <3>2. state'[f] = "ready" /\ key'[f] # None /\ page_table'[key'[f]] = f
      BY <1>1, <1>2, <1>8, <1>9
    <3> QED BY <3>1, <3>2
  <2>3. \A g \in Frames : state'[g] = "ready" => page'[g] # None
    BY <1>2, <1>8, <2>0 DEF MappingConsistent
  <2> QED BY ZenonT(40), <1>2, <1>7, <2>0, <2>1, <2>2, <2>3 DEF MappingConsistent
<1>12. PinsAccounted'
  <2>1. /\ \A g \in Frames : g # f => Guarding(g)' = Guarding(g)
        /\ Cardinality(Guarding(f)') = LoadedPin(t)
    BY <1>0, <1>4, <1>6, GuardsAfterLoad
  <2>2. LoadedPin(t) \in Nat BY DEF LoadedPin
  <2> QED BY <1>1, <1>2, <1>8, <2>1, <2>2, PinsElsewhere DEF IInv
<1>13. LoadsExclusive'
  <2>0. LoadsExclusive BY DEF IInv
  <2>1. pc'[t] \notin Loading
    BY <1>6 DEF AfterLoad, Loading, FreePc, VictimPc
  <2>2. \A u \in Threads : pc'[u] \in Loading =>
          /\ u # t /\ pc'[u] = pc[u] /\ fid'[u] = fid[u] /\ req'[u] = req[u]
          /\ old'[u] = old[u] /\ fid[u] # f /\ fid[u] \in Frames /\ req[u] \in Keys
    BY <1>1, <1>6, <2>1, LoaderFrame DEF Loading, FreePc, VictimPc
  <2>3. \A u \in Threads : pc[u] \in Loading /\ u # t =>
          /\ pc'[u] = pc[u] /\ fid'[u] = fid[u] /\ req'[u] = req[u] /\ old'[u] = old[u]
    BY <1>6 DEF Loading, FreePc, VictimPc
  <2>4. \A g \in Frames : g # f /\ owner[g] # None => owner[g] \in Threads /\ owner[g] # t
    BY <1>0, <1>1, <2>0 DEF FrameTypes, LoadsExclusive
  <2>5. \A j \in Keys : loading_table'[j] # None =>
          /\ loading_table'[j] = loading_table[j] /\ loading_table[j] \in Threads
          /\ loading_table[j] # t /\ j # k
    BY <1>0, <1>1, <1>9, <2>0 DEF PoolTypes, LoadsExclusive
  <2>6. \A u \in Threads : pc'[u] \in FreePc =>
            /\ state'[fid'[u]] = "loading" /\ owner'[fid'[u]] = u
            /\ key'[fid'[u]] = req'[u]
    BY <1>2, <1>8, <2>0, <2>2 DEF LoadsExclusive, Loading
  <2>7. \A u \in Threads : pc'[u] \in VictimPc =>
            /\ state'[fid'[u]] = "ready" /\ owner'[fid'[u]] = u
            /\ key'[fid'[u]] = old'[u] /\ loading_table'[req'[u]] = u
    <3>1. \A u \in Threads : pc'[u] \in VictimPc => req[u] # k
      BY <1>4, <2>0, <2>2 DEF LoadsExclusive, Loading
    <3> QED BY <1>2, <1>8, <1>9, <2>0, <2>2, <3>1 DEF LoadsExclusive, Loading
  <2>8. \A g \in Frames :
            /\ state'[g] = "loading" => owner'[g] # None
            /\ owner'[g] # None =>
                 /\ fid'[owner'[g]] = g
                 /\ pc'[owner'[g]] \in (IF state'[g] = "loading" THEN FreePc ELSE VictimPc)
    BY <1>1, <1>2, <1>8, <2>0, <2>3, <2>4 DEF LoadsExclusive, Loading
  <2>9. \A j \in Keys : loading_table'[j] # None =>
            /\ pc'[loading_table'[j]] \in VictimPc /\ req'[loading_table'[j]] = j
            /\ page_table'[j] = None
    BY <1>9, <2>0, <2>3, <2>5 DEF LoadsExclusive, Loading
  <2> QED BY <2>6, <2>7, <2>8, <2>9 DEF LoadsExclusive
<1> QED
  BY <1>6, <1>10, <1>11, <1>12, <1>13 DEF IInv

(***************************************************************************)
(* release_table and close free frames                                     *)
(***************************************************************************)
(* Frames that nobody pins or replaces may become FREE. *)
LEMMA FreeingStep ==
  ASSUME IInv, NEW c \in Clients, NEW where \in JoinPc, NEW life,
         Joined(c, where), LeaveJoin(c, life),
         NEW S \in SUBSET Frames, \A f \in S : pin[f] = 0 /\ owner[f] = None,
         reset_to_free(S),
         page_table' = [k \in Keys |-> IF page_table[k] \in S THEN None ELSE page_table[k]],
         order' \in SUBSET (Frames \X Frames), IsList(order'),
         Queued(order') = Queued(order) \ S,
         loading_table' = loading_table,
         disk' \in [Keys -> Values], lifecycle' \in {"open", "closed"}
  PROVE  IInv'
<1> USE Distinct DEF Opt
<1>0. FrameTypes /\ PoolTypes /\ ThreadTypes
  BY DEF IInv, TypeOK
<1>1. /\ ticket' = ticket
      /\ \A f \in Frames : f \in S =>
           /\ state'[f] = "free" /\ key'[f] = None /\ ~dirty'[f] /\ pin'[f] = 0
           /\ owner'[f] = None
      /\ \A f \in Frames : f \notin S =>
           /\ state'[f] = state[f] /\ key'[f] = key[f] /\ page'[f] = page[f]
           /\ dirty'[f] = dirty[f] /\ pin'[f] = pin[f] /\ owner'[f] = owner[f]
  BY DEF reset_to_free
<1>2. /\ ThreadTypes' /\ LocalsOK' /\ ControlOK'
      /\ worker_state' = "stopped" /\ queue' = queue
      /\ control' \in Opt(Clients)
      /\ UNCHANGED <<req, fid, old, peer>>
      /\ \A t \in Threads : IF t = c THEN /\ pc[t] \in JoinPc
                                           /\ pc'[t] \in {"restart", "idle"}
                             ELSE pc'[t] = pc[t]
  BY <1>1, LeaveJoinFacts
<1>3. \A t \in Threads :
        /\ pc'[t] \in FreePc <=> pc[t] \in FreePc
        /\ pc'[t] \in VictimPc <=> pc[t] \in VictimPc
        /\ pc'[t] \in {"holding", "mutated"} <=> pc[t] \in {"holding", "mutated"}
        /\ pc'[t] = "waiting" <=> pc[t] = "waiting"
  BY <1>2 DEF FreePc, VictimPc, JoinPc
<1>4. \A f \in S : Guarding(f) = {} /\ state[f] # "loading"
  BY Unpinned DEF IInv
<1>5. \A t \in Threads : pc[t] \in Loading => fid[t] \in Frames /\ fid[t] \notin S
  BY LoaderFrame
<1>6. TypeOK'
  <2>1. FrameTypes' BY <1>0 DEF FrameTypes, reset_to_free
  <2>2. PoolTypes' BY <1>0, <1>2 DEF PoolTypes
  <2> QED BY <1>2, <2>1, <2>2 DEF TypeOK
<1>7. MappingConsistent'
  <2>0. MappingConsistent BY DEF IInv
  <2>1. \A k \in Keys : page_table'[k] # None => key'[page_table'[k]] = k
    BY <1>0, <1>1, <2>0 DEF MappingConsistent, PoolTypes
  <2>2. \A g \in Frames : IF state'[g] = "free"
                          THEN key'[g] = None /\ ~dirty'[g] /\ owner'[g] = None
                          ELSE key'[g] # None /\ page_table'[key'[g]] = g
    <3>1. \A g \in Frames : state[g] # "free" => key[g] \in Keys
      BY <1>0, <2>0 DEF MappingConsistent, FrameTypes
    <3> QED BY <1>0, <1>1, <2>0, <3>1 DEF MappingConsistent
  <2>3. \A g \in Frames : state'[g] = "ready" <=> state[g] = "ready" /\ g \notin S
    BY <1>1
  <2>4. \A g \in Frames : state'[g] = "ready" => page'[g] # None
    BY <1>1, <2>0 DEF MappingConsistent
  <2>5. Queued(order') = {g \in Frames : state'[g] = "ready"}
    BY <2>0, <2>3 DEF MappingConsistent
  <2> QED BY <2>1, <2>2, <2>4, <2>5 DEF MappingConsistent
<1>8. PinsAccounted'
  <2>1. \A g \in Frames : Guarding(g)' = Guarding(g)
    BY <1>2, <1>3 DEF Guarding
  <2>2. \A g \in Frames : Cardinality(Guarding(g)') = Cardinality(Guarding(g))
    BY <2>1
  <2>3. \A g \in S : Cardinality(Guarding(g)') = 0
    BY <1>4, <2>1, FS_EmptySet
  <2>4. ASSUME NEW g \in Frames
        PROVE  /\ pin'[g] = Cardinality(Guarding(g)')
                               + (IF state'[g] = "loading" THEN 1 ELSE 0)
               /\ Guarding(g)' # {} => state'[g] = "ready"
    <3>1. CASE g \in S
      BY <1>1, <1>4, <2>1, <2>3, <3>1
    <3>2. CASE g \notin S
      BY <1>1, <2>1, <2>2, <3>2 DEF IInv, PinsAccounted
    <3> QED BY <3>1, <3>2
  <2> QED BY <2>4 DEF PinsAccounted
<1>9. LoadsExclusive'
  <2>0. LoadsExclusive BY DEF IInv
  <2>1. \A g \in Frames : owner[g] # None => owner[g] \in Threads
    BY <1>0 DEF FrameTypes
  <2>2. \A j \in Keys : loading_table[j] # None => loading_table[j] \in Threads
    BY <1>0 DEF PoolTypes
  <2>3. \A u \in Threads : pc'[u] \in FreePc =>
            /\ state'[fid'[u]] = "loading" /\ owner'[fid'[u]] = u
            /\ key'[fid'[u]] = req'[u]
    BY <1>1, <1>2, <1>3, <1>5, <2>0 DEF LoadsExclusive, Loading
  <2>4. \A u \in Threads : pc'[u] \in VictimPc =>
            /\ state'[fid'[u]] = "ready" /\ owner'[fid'[u]] = u
            /\ key'[fid'[u]] = old'[u] /\ loading_table'[req'[u]] = u
    BY <1>1, <1>2, <1>3, <1>5, <2>0 DEF LoadsExclusive, Loading
  <2>5. \A g \in Frames :
            /\ state'[g] = "loading" => owner'[g] # None
            /\ owner'[g] # None =>
                 /\ fid'[owner'[g]] = g
                 /\ pc'[owner'[g]] \in (IF state'[g] = "loading" THEN FreePc ELSE VictimPc)
    BY <1>1, <1>2, <1>3, <2>0, <2>1 DEF LoadsExclusive
  <2>6. \A j \in Keys : loading_table'[j] # None =>
            /\ pc'[loading_table'[j]] \in VictimPc /\ req'[loading_table'[j]] = j
            /\ page_table'[j] = None
    BY <1>2, <1>3, <2>0, <2>2 DEF LoadsExclusive
  <2> QED BY <2>3, <2>4, <2>5, <2>6 DEF LoadsExclusive
<1>10. WaitersHaveLoader'
  <2>1. \A d \in Clients : peer[d] # None => peer[d] \in Threads
    BY <1>0 DEF ThreadTypes
  <2> QED BY <1>2, <1>3, <2>1 DEF IInv, WaitersHaveLoader
<1> QED
  BY <1>2, <1>6, <1>7, <1>8, <1>9, <1>10 DEF IInv

(* The pages that a flush of the frames in S leaves on disk. *)
LEMMA DiskAfterFlush ==
  ASSUME IInv, NEW S \in SUBSET Frames
  PROVE  [k \in Keys |-> IF page_table[k] \in DirtyIn(S) THEN page[page_table[k]]
                         ELSE disk[k]] \in [Keys -> Values]
BY Distinct DEF IInv, TypeOK, FrameTypes, PoolTypes, MappingConsistent, DirtyIn, Opt

(* No load replaces a frame of a table that is not in use. *)
LEMMA TableUnused ==
  ASSUME IInv, NEW table, ~TableInUse(table), NEW f \in FramesOf(table)
  PROVE  pin[f] = 0 /\ owner[f] = None
<1>0. FrameTypes BY DEF IInv, TypeOK
<1>1. Belongs(f, table) /\ f \in Frames
  BY DEF FramesOf
<1>2. pin[f] = 0
  BY DEF TableInUse
<1>3. SUFFICES ASSUME owner[f] # None PROVE FALSE
  BY <1>2
<1>4. state[f] # "loading"
  BY <1>1, <1>2, Unpinned DEF IInv
<1>5. owner[f] \in Threads /\ pc[owner[f]] \in VictimPc /\ fid[owner[f]] = f
  BY <1>0, <1>1, <1>3, <1>4 DEF IInv, LoadsExclusive, FrameTypes, Opt
<1>6. /\ req[owner[f]] \in Keys /\ loading_table[req[owner[f]]] = owner[f]
      /\ old[owner[f]] = key[f]
  BY <1>5, LoaderFrame DEF IInv, LoadsExclusive, Loading
<1> QED BY <1>1, <1>3, <1>6 DEF TableInUse, Belongs

(* release_table drops the frames of its table. *)
LEMMA ReleaseFramesStep ==
  ASSUME IInv, NEW c \in Clients, ReleaseFrames(c)
  PROVE  IInv'
<1>0. FrameTypes /\ PoolTypes /\ ThreadTypes
  BY DEF IInv, TypeOK
<1>1. PICK S \in SUBSET Frames :
        /\ S = FramesOf(tbl[c])
        /\ Joined(c, "join_release") /\ LeaveJoin(c, "open")
        /\ reset_to_free(S)
        /\ page_table' = [k \in Keys |-> IF page_table[k] \in S THEN None ELSE page_table[k]]
        /\ order' = fifo_remove(order, S)
        /\ disk' = [k \in Keys |-> IF page_table[k] \in DirtyIn(S)
                                   THEN page[page_table[k]] ELSE disk[k]]
        /\ UNCHANGED <<loading_table, lifecycle>>
  BY DEF ReleaseFrames, FramesOf
<1>2. \A f \in S : pin[f] = 0 /\ owner[f] = None
  BY <1>1, TableUnused DEF ReleaseFrames
<1>3. /\ order' \in SUBSET (Frames \X Frames) /\ IsList(order')
      /\ Queued(order') = Queued(order) \ S
  BY <1>0, <1>1, FifoRemove DEF IInv, MappingConsistent, PoolTypes
<1>4. disk' \in [Keys -> Values] /\ lifecycle' \in {"open", "closed"}
  BY <1>0, <1>1, DiskAfterFlush DEF PoolTypes
<1> QED
  BY <1>1, <1>2, <1>3, <1>4, FreeingStep DEF JoinPc

(* close drops every frame. *)
LEMMA CloseFramesStep ==
  ASSUME IInv, NEW c \in Clients, CloseFrames(c)
  PROVE  IInv'
<1>0. FrameTypes /\ PoolTypes /\ ThreadTypes
  BY DEF IInv, TypeOK
<1>1. /\ Joined(c, "join_close") /\ LeaveJoin(c, "closed")
      /\ reset_to_free(Frames)
      /\ page_table' = [k \in Keys |-> None]
      /\ order' = {} /\ lifecycle' = "closed"
      /\ UNCHANGED loading_table
  BY DEF CloseFrames
<1>2. \A f \in Frames : pin[f] = 0 /\ owner[f] = None
  BY DEF CloseFrames, PoolInUse
<1>3. page_table' = [k \in Keys |-> IF page_table[k] \in Frames THEN None ELSE page_table[k]]
  BY <1>0, <1>1 DEF PoolTypes, Opt
<1>4. /\ order' \in SUBSET (Frames \X Frames) /\ IsList(order')
      /\ Queued(order') = Queued(order) \ Frames
  BY <1>1 DEF IsList, Queued
<1>5. disk' \in [Keys -> Values]
  BY DiskAfterFlush DEF CloseFrames
<1> QED
  BY <1>1, <1>2, <1>3, <1>4, <1>5, FreeingStep DEF JoinPc

(***************************************************************************)
(* Every step preserves the invariant                                      *)
(***************************************************************************)
LEMMA LookupStep ==
  ASSUME IInv, NEW t \in Threads, NEW k \in Keys, pc[t] \in StartPc(t), Lookup(t, k)
  PROVE  IInv'
<1>0. \A j \in Keys : page_table[j] # None => page_table[j] \in Frames
  BY DEF IInv, TypeOK, PoolTypes, Opt
<1>1. CASE Hit(t, k)
  <2>1. t \in Clients /\ pc[t] \in {"idle", "woken"}
    BY <1>1, Distinct DEF Hit, StartPc
  <2> QED BY <1>0, <1>1, <2>1, PinResidentStep DEF Hit
<1>2. CASE Join(t, k)
  BY <1>2, JoinStep, Distinct DEF Join, StartPc
<1>3. CASE LoadFree(t, k)
  BY <1>3, LoadFreeStep
<1>4. CASE Reserve(t, k)
  BY <1>4, ReserveStep
<1>5. CASE LookupFails(t, k)
  BY <1>5, ReturnStep DEF LookupFails, StartPc
<1> QED BY <1>1, <1>2, <1>3, <1>4, <1>5 DEF Lookup

(* Every step of a load under way. *)
LEMMA LoadStepStep ==
  ASSUME IInv, NEW t \in Threads, LoadStep(t)
  PROVE  IInv'
<1>1. CASE ReadPage(t) BY <1>1, ReadPageStep
<1>2. CASE PublishFree(t) BY <1>2, PublishFreeStep
<1>3. CASE AbandonFree(t) BY <1>3, AbandonFreeStep
<1>4. CASE CommitClean(t) BY <1>4, CommitStep DEF CommitClean
<1>5. CASE CancelClean(t) BY <1>5, CancelStep DEF CancelClean, VictimPc
<1>6. CASE SnapshotVictim(t) BY <1>6, SnapshotVictimStep
<1>7. CASE CancelDirty(t) BY <1>7, CancelStep DEF CancelDirty, VictimPc
<1>8. CASE WriteBack(t) BY <1>8, WriteBackStep
<1>9. CASE CommitDirty(t)
  <2>1. scratch[t] # None
    BY <1>9 DEF CommitDirty, IInv, LocalsOK
  <2> QED BY <1>9, <2>1, CommitStep DEF CommitDirty
<1>10. CASE CancelWritten(t) BY <1>10, CancelStep DEF CancelWritten, VictimPc
<1> QED
  BY <1>1, <1>2, <1>3, <1>4, <1>5, <1>6, <1>7, <1>8, <1>9, <1>10 DEF LoadStep

(* Every step of a call under way. *)
LEMMA ContinueStep ==
  ASSUME IInv, NEW c \in Clients, Continue(c)
  PROVE  IInv'
<1> USE Distinct
<1>0. /\ pc[c] = "woken" => req[c] \in Keys
      /\ \A j \in Keys : page_table[j] # None => page_table[j] \in Frames
  BY DEF IInv, TypeOK, ThreadTypes, PoolTypes, LocalsOK, Opt
<1>1. CASE LoadStep(c) BY <1>1, LoadStepStep
<1>2. CASE WakeReady(c)
  BY <1>0, <1>2, PinResidentStep DEF WakeReady, Published
<1>3. CASE WakeRetry(c)
  BY <1>0, <1>3, LookupStep DEF WakeRetry, StartPc
<1>4. CASE WakeError(c)
  BY <1>4, ReturnStep DEF WakeError
<1>5. CASE ReleaseRefused(c) \/ CloseRefused(c) BY <1>5, RefusedStep
<1>6. CASE ReleaseFlushFails(c) \/ CloseFlushFails(c) BY <1>6, FlushFailsStep
<1>7. CASE ReleaseFrames(c) BY <1>7, ReleaseFramesStep
<1>8. CASE CloseFrames(c) BY <1>8, CloseFramesStep
<1>9. CASE Restart(c) BY <1>9, RestartStep
<1> QED
  BY <1>1, <1>2, <1>3, <1>4, <1>5, <1>6, <1>7, <1>8, <1>9 DEF Continue

(* Every step that begins a call. *)
LEMMA BeginStep ==
  ASSUME IInv, NEW c \in Clients, Begin(c)
  PROVE  IInv'
<1> USE Distinct
<1>1. ASSUME NEW k \in Keys, Fetch(c, k) PROVE IInv'
  BY <1>1, LookupStep DEF Fetch, StartPc
<1>2. ASSUME NEW S \in SUBSET Frames, Flush(c, S) PROVE IInv'
  BY <1>2, FlushStep
<1>3. ASSUME NEW k \in Keys, flush_page(c, k) PROVE IInv'
  <2>1. {page_table[k]} \in SUBSET Frames
    BY <1>3 DEF flush_page, IInv, TypeOK, PoolTypes, Opt
  <2> QED BY <1>2, <1>3, <2>1 DEF flush_page
<1>4. CASE flush_all(c) BY <1>2, <1>4 DEF flush_all
<1>5. CASE flush_dirty_frames_for_experiment(c)
  <2>1. PICK S \in SUBSET DirtyIn({f \in Frames : pin[f] = 0}) : Flush(c, S)
    BY <1>5 DEF flush_dirty_frames_for_experiment
  <2>2. S \in SUBSET Frames BY DEF DirtyIn
  <2> QED BY <1>2, <2>1, <2>2
<1>6. ASSUME NEW k \in Keys, prefetch_page(c, k) PROVE IInv'
  BY <1>6, PrefetchPageStep
<1>7. ASSUME NEW v \in Values, Mutate(c, v) PROVE IInv'
  BY <1>7, MutateStep
<1>8. CASE mark_dirty(c) BY <1>8, MarkDirtyStep
<1>9. CASE ReleaseGuard(c) BY <1>9, ReleaseGuardStep
<1>10. ASSUME NEW table \in Tables, release_table(c, table) PROVE IInv'
  BY <1>10, StopWorkerStep DEF release_table, JoinPc, Opt
<1>11. CASE close(c)
  BY <1>11, StopWorkerStep DEF close, JoinPc, Opt
<1> QED
  BY <1>1, <1>3, <1>4, <1>5, <1>6, <1>7, <1>8, <1>9, <1>10, <1>11 DEF Begin

(* Every step of the prefetch worker. *)
LEMMA WorkerStepStep ==
  ASSUME IInv, WorkerStep
  PROVE  IInv'
<1> USE Distinct
<1>1. CASE LoadStep(Worker) BY <1>1, LoadStepStep
<1>2. CASE WorkerExit \/ WorkerTake \/ WorkerSkip \/ WorkerFinish
  BY <1>2, WorkerLoopStep
<1>3. CASE WorkerLoad
  <2>1. req[Worker] \in Keys
    BY <1>3 DEF WorkerLoad, IInv, TypeOK, ThreadTypes, LocalsOK, Opt
  <2> QED BY <1>3, <2>1, LookupStep DEF WorkerLoad, StartPc
<1> QED BY <1>1, <1>2, <1>3 DEF WorkerStep

(* A stuttering step keeps IInv. *)
LEMMA StutterStep ==
  ASSUME IInv, UNCHANGED vars
  PROVE  IInv'
<1>1. \A g \in Frames : Guarding(g)' = Guarding(g)
  BY DEF Guarding, vars, call
<1>2. PinsAccounted'
  BY <1>1, PinsKept DEF IInv, vars, pool, frames
<1> QED
  BY <1>2 DEF IInv, vars, pool, frames, tables, prefetching, call, TypeOK, FrameTypes,
     PoolTypes, ThreadTypes, LocalsOK, ControlOK, MappingConsistent, LoadsExclusive,
     WaitersHaveLoader

(* The inductive invariant holds in every state of every behaviour. *)
THEOREM Invariance == Spec => []IInv
<1>1. IInv /\ [Next]_vars => IInv'
  <2> SUFFICES ASSUME IInv, [Next]_vars PROVE IInv'
    OBVIOUS
  <2>1. CASE WorkerStep BY <2>1, WorkerStepStep
  <2>2. ASSUME NEW c \in Clients, Begin(c) PROVE IInv' BY <2>2, BeginStep
  <2>3. ASSUME NEW c \in Clients, Continue(c) PROVE IInv' BY <2>3, ContinueStep
  <2>4. CASE UNCHANGED vars BY <2>4, StutterStep
  <2> QED BY <2>1, <2>2, <2>3, <2>4 DEF Next
<1> QED BY InitIInv, <1>1, PTL DEF Spec

(* Every variable keeps its type; in particular no pin count falls below   *)
(* zero and no ticket passes its limit.                                    *)
THEOREM TypeCorrect == Spec => []TypeOK
<1>1. IInv => TypeOK BY DEF IInv
<1> QED BY Invariance, <1>1, PTL

(* page_table_, the frames and the replacement list describe the same      *)
(* pages after every critical section of the pool.                         *)
THEOREM MappingAlwaysConsistent == Spec => []MappingConsistent
<1>1. IInv => MappingConsistent BY DEF IInv
<1> QED BY Invariance, <1>1, PTL

(* pin_count is the number of guards, plus one for a load into the frame.  *)
THEOREM PinsAlwaysAccounted == Spec => []PinsAccounted
<1>1. IInv => PinsAccounted BY DEF IInv
<1> QED BY Invariance, <1>1, PTL

(* No page has two loads, no frame serves two, and the reservation a       *)
(* thread finds after its I/O is always its own.                           *)
THEOREM LoadsAlwaysExclusive == Spec => []LoadsExclusive
<1>1. IInv => LoadsExclusive BY DEF IInv
<1> QED BY Invariance, <1>1, PTL

(* Whoever waits on a LoadCompletion waits for a load that is under way.   *)
THEOREM NoLostWakeup == Spec => []WaitersHaveLoader
<1>1. IInv => WaitersHaveLoader BY DEF IInv
<1> QED BY Invariance, <1>1, PTL

(* The prefetch worker is stopped while close or release_table acts.       *)
THEOREM WorkerStaysJoined == Spec => []ControlOK
<1>1. IInv => ControlOK BY DEF IInv
<1> QED BY Invariance, <1>1, PTL

(* A closed pool has only free frames: nothing is loaded any more. *)
ClosedFree == lifecycle = "closed" => \A f \in Frames : state[f] = "free"

(* In a pool of free frames nobody loads and nobody holds a guard. *)
LEMMA FreeIsQuiet ==
  ASSUME IInv, \A f \in Frames : state[f] = "free", NEW t \in Threads
  PROVE  pc[t] \notin FreePc \cup VictimPc \cup {"holding", "mutated"}
<1> SUFFICES ASSUME pc[t] \in FreePc \cup VictimPc \cup {"holding", "mutated"} PROVE FALSE
  OBVIOUS
<1>1. fid[t] \in Frames
  BY DEF IInv, LocalsOK, TypeOK, ThreadTypes, Opt
<1>2. state[fid[t]] = "free" BY <1>1
<1>3. CASE pc[t] \in FreePc \cup VictimPc
  BY <1>2, <1>3 DEF IInv, LoadsExclusive
<1>4. CASE pc[t] \in {"holding", "mutated"}
  <2>1. t \in Clients
    BY <1>4, Distinct DEF IInv, TypeOK, ThreadTypes, WorkerPc, FreePc
  <2>2. Guarding(fid[t]) # {} BY <1>4, <2>1 DEF Guarding
  <2> QED BY <1>1, <1>2, <2>2 DEF IInv, PinsAccounted
<1> QED BY <1>3, <1>4

LEMMA LookupFree ==
  ASSUME IInv, ClosedFree, NEW t \in Threads, NEW k \in Keys, Lookup(t, k)
  PROVE  ClosedFree'
BY DEF ClosedFree, Lookup, Hit, PinResident, Join, LoadFree, Reserve, LookupFails, pool, frames

LEMMA LoadStepFree ==
  ASSUME IInv, ClosedFree, NEW t \in Threads, LoadStep(t)
  PROVE  ClosedFree'
<1> SUFFICES ASSUME lifecycle' = "closed" PROVE \A f \in Frames : state'[f] = "free"
  BY DEF ClosedFree
<1>1. pc[t] \in FreePc \cup VictimPc
  BY DEF LoadStep, ReadPage, PublishFree, AbandonFree, CommitClean, CancelClean, SnapshotVictim,
         CancelDirty, WriteBack, CommitDirty, CancelWritten, FreePc, VictimPc
<1>2. lifecycle' = lifecycle
  BY DEF LoadStep, ReadPage, PublishFree, AbandonFree, CommitClean, CancelClean, SnapshotVictim,
         CancelDirty, WriteBack, CommitDirty, CancelWritten, Commit, Cancel, pool
<1> QED BY <1>1, <1>2, FreeIsQuiet DEF ClosedFree

LEMMA NextFree == IInv /\ ClosedFree /\ [Next]_vars => ClosedFree'
<1> SUFFICES ASSUME IInv, ClosedFree, [Next]_vars PROVE ClosedFree'
  OBVIOUS
<1>1. CASE WorkerStep
  <2>1. CASE LoadStep(Worker) BY <2>1, LoadStepFree, Distinct
  <2>2. CASE WorkerLoad
    <3>1. req[Worker] \in Keys
      BY <2>2, Distinct DEF WorkerLoad, IInv, LocalsOK, TypeOK, ThreadTypes, Opt
    <3> QED BY <2>2, <3>1, LookupFree, Distinct DEF WorkerLoad
  <2>3. CASE WorkerExit \/ WorkerTake \/ WorkerSkip \/ WorkerFinish
    BY <2>3 DEF WorkerExit, WorkerTake, WorkerSkip, WorkerFinish, ClosedFree, pool, frames
  <2> QED BY <1>1, <2>1, <2>2, <2>3 DEF WorkerStep
<1>2. ASSUME NEW c \in Clients, Begin(c) PROVE ClosedFree'
  <2>1. ASSUME NEW k \in Keys, Fetch(c, k) PROVE ClosedFree'
    BY <2>1, LookupFree, Distinct DEF Fetch
  <2>2. ASSUME NEW S, Flush(c, S) PROVE ClosedFree'
    BY <2>2 DEF Flush, FlushFrames, ClosedFree
  <2>3. CASE \E k \in Keys : flush_page(c, k)
    BY <2>2, <2>3 DEF flush_page
  <2>4. CASE flush_all(c) \/ flush_dirty_frames_for_experiment(c)
    BY <2>2, <2>4 DEF flush_all, flush_dirty_frames_for_experiment
  <2>5. CASE \E k \in Keys : prefetch_page(c, k)
    BY <2>5 DEF prefetch_page, ClosedFree, pool, frames
  <2>6. CASE (\E v \in Values : Mutate(c, v)) \/ mark_dirty(c) \/ ReleaseGuard(c)
    BY <2>6 DEF Mutate, mark_dirty, ReleaseGuard, ClosedFree
  <2>7. CASE (\E table \in Tables : release_table(c, table)) \/ close(c)
    BY <2>7 DEF release_table, close, StopWorker, ClosedFree, pool, frames
  <2> QED BY <1>2, <2>1, <2>3, <2>4, <2>5, <2>6, <2>7 DEF Begin
<1>3. ASSUME NEW c \in Clients, Continue(c) PROVE ClosedFree'
  <2>1. CASE LoadStep(c) BY <2>1, LoadStepFree, Distinct
  <2>2. CASE WakeReady(c)
    BY <2>2 DEF WakeReady, PinResident, ClosedFree
  <2>3. CASE WakeRetry(c)
    <3>1. req[c] \in Keys
      BY <2>3, Distinct DEF WakeRetry, IInv, LocalsOK, TypeOK, ThreadTypes, Opt
    <3> QED BY <2>3, <3>1, LookupFree, Distinct DEF WakeRetry
  <2>4. CASE WakeError(c) \/ ReleaseRefused(c) \/ CloseRefused(c) \/ Restart(c)
    BY <2>4 DEF WakeError, ReleaseRefused, CloseRefused, Restart, ClosedFree, pool, frames
  <2>5. CASE ReleaseFlushFails(c) \/ CloseFlushFails(c)
    BY <2>5 DEF ReleaseFlushFails, CloseFlushFails, FlushFrames, ClosedFree
  <2>6. CASE ReleaseFrames(c)
    BY <2>6 DEF ReleaseFrames, ClosedFree
  <2>7. CASE CloseFrames(c)
    BY <2>7 DEF CloseFrames, reset_to_free, ClosedFree
  <2> QED BY <1>3, <2>1, <2>2, <2>3, <2>4, <2>5, <2>6, <2>7 DEF Continue
<1>4. CASE UNCHANGED vars
  BY <1>4 DEF vars, pool, frames, ClosedFree
<1> QED BY <1>1, <1>2, <1>3, <1>4 DEF Next

(* close succeeds only when nobody holds a guard or is inside a load, and  *)
(* a closed pool stays so: no call that was under way loads a page later.  *)
THEOREM ClosedStaysQuiescent == Spec => []ClosedQuiescent
<1>1. Init => ClosedFree BY DEF Init, ClosedFree
<1>2. IInv /\ ClosedFree => ClosedQuiescent
  BY FreeIsQuiet DEF ClosedFree, ClosedQuiescent
<1> QED BY Invariance, NextFree, <1>1, <1>2, PTL DEF Spec

-----------------------------------------------------------------------------
(***************************************************************************)
(* BufferPool implements PageStore, for every size of the pool: no page    *)
(* changes but by its holder and no guard comes to lead to another page,   *)
(* as long as no explicit flush overlaps the writeback of the same frame.  *)
(***************************************************************************)


Holding == {"holding", "mutated"}
Active == Loading \cup Holding          \* where a thread's locals matter here
Writing == {"write_io", "write_ret"}
Filled == {"free_ret", "clean_ret", "dirty_ret"} \cup Writing  \* after the read

(* What a thread that writes its victim back relies on: the frame is still *)
(* dirty, and unless it has been touched nobody holds it and its content   *)
(* is the snapshot, which is in the file once the write has succeeded.     *)
SnapshotOK(t) ==
  pc[t] \in Writing =>
    /\ dirty[fid[t]]
    /\ ~touched[fid[t]] =>
         /\ Guarding(fid[t]) = {}
         /\ pc[t] = "write_io" => page[fid[t]] = snap[t]
         /\ pc[t] = "write_ret" /\ snap[t] # None => page[fid[t]] = disk[old[t]]

SnapshotCurrent == \A t \in Threads : SnapshotOK(t)

(* The invariant about the data, inductive together with IInv. *)
DInv == CleanPagesOnDisk /\ LoadedPagesFresh /\ SnapshotCurrent

StoreStep == [Store!Next]_(Store!vars)

(***************************************************************************)
(* What IInv says of resident pages and of loaders                         *)
(***************************************************************************)
(* The resident page of a key, and the key of a resident page. *)
LEMMA Residence ==
  ASSUME IInv
  PROVE  /\ \A f \in Frames : state[f] = "ready" =>
              /\ key[f] \in Keys /\ page_table[key[f]] = f /\ page[f] \in Values
         /\ \A k \in Keys : page_table[k] # None =>
              /\ page_table[k] \in Frames /\ key[page_table[k]] = k
              /\ state[page_table[k]] \in {"ready", "loading"}
<1> USE Distinct DEF Opt
<1>0. FrameTypes /\ PoolTypes /\ MappingConsistent
  BY DEF IInv, TypeOK
<1>1. \A f \in Frames : state[f] = "ready" =>
              /\ key[f] \in Keys /\ page_table[key[f]] = f /\ page[f] \in Values
  BY <1>0 DEF MappingConsistent, FrameTypes
<1>2. \A k \in Keys : page_table[k] # None =>
              /\ page_table[k] \in Frames /\ key[page_table[k]] = k
              /\ state[page_table[k]] \in {"ready", "loading"}
  BY <1>0 DEF MappingConsistent, FrameTypes, PoolTypes
<1> QED BY <1>1, <1>2

(* A page that is being loaded is not resident. *)
LEMMA LoadedNotResident ==
  ASSUME IInv, NEW t \in Threads, pc[t] \in Loading
  PROVE  ~(page_table[req[t]] # None /\ state[page_table[req[t]]] = "ready")
<1> USE Distinct
<1>1. LoadsExclusive /\ fid[t] \in Frames /\ req[t] \in Keys
  BY LoaderFrame DEF IInv
<1>2. CASE pc[t] \in FreePc
  <2>1. state[fid[t]] = "loading" /\ key[fid[t]] = req[t]
    BY <1>1, <1>2 DEF LoadsExclusive
  <2>2. page_table[req[t]] = fid[t]
    BY <1>1, <2>1 DEF IInv, MappingConsistent
  <2> QED BY <2>1, <2>2
<1>3. CASE pc[t] \in VictimPc
  <2>1. loading_table[req[t]] = t
    BY <1>1, <1>3 DEF LoadsExclusive
  <2> QED BY <1>1, <2>1 DEF LoadsExclusive
<1> QED BY <1>2, <1>3 DEF Loading

(* The victim of a load is resident under its old key. *)
LEMMA VictimFrame ==
  ASSUME IInv, NEW t \in Threads, pc[t] \in VictimPc
  PROVE  /\ fid[t] \in Frames /\ old[t] \in Keys /\ req[t] \in Keys
         /\ state[fid[t]] = "ready" /\ key[fid[t]] = old[t]
         /\ page_table[old[t]] = fid[t] /\ owner[fid[t]] = t
         /\ loading_table[req[t]] = t /\ page_table[req[t]] = None
<1>1. /\ fid[t] \in Frames /\ old[t] \in Keys /\ req[t] \in Keys
      /\ owner[fid[t]] = t
  BY LoaderFrame DEF Loading
<1>2. state[fid[t]] = "ready" /\ key[fid[t]] = old[t] /\ loading_table[req[t]] = t
  BY DEF IInv, LoadsExclusive
<1>3. page_table[old[t]] = fid[t]
  BY <1>1, <1>2, Residence
<1>4. page_table[req[t]] = None
  BY <1>1, <1>2, Distinct DEF IInv, LoadsExclusive
<1> QED BY <1>1, <1>2, <1>3, <1>4

(***************************************************************************)
(* What a step of thread a has to respect                                  *)
(***************************************************************************)
OthersKept(a) ==
  \A u \in Threads \ {a} :
    /\ pc'[u] = pc[u] \/ (pc[u] \notin Active /\ pc'[u] \notin Active)
    /\ pc[u] \in Active => /\ req'[u] = req[u] /\ fid'[u] = fid[u] /\ old'[u] = old[u]
                           /\ scratch'[u] = scratch[u] /\ snap'[u] = snap[u]

(* The frame of another thread that is writing back. *)
WritersKept(a) ==
  \A u \in Threads \ {a} : pc[u] \in Writing =>
    /\ dirty'[fid[u]] = dirty[fid[u]]
    /\ disk'[old[u]] = disk[old[u]]
    /\ page'[fid[u]] = page[fid[u]] \/ touched'[fid[u]]
    /\ touched[fid[u]] => touched'[fid[u]]
    /\ touched'[fid[u]] \/ Guarding(fid[u])' \subseteq Guarding(fid[u])

(* Only the file copies of resident pages change. *)
DiskKept ==
  \A k \in Keys : \/ disk'[k] = disk[k]
                  \/ page_table[k] # None /\ state[page_table[k]] = "ready"

FreshOf(t) == pc[t] \in Filled /\ scratch[t] # None => scratch[t] = disk[req[t]]

(* A step that respects all that keeps the data invariant. *)
LEMMA DataStep ==
  ASSUME IInv, DInv, NEW a \in Threads,
         OthersKept(a), WritersKept(a), DiskKept,
         CleanPagesOnDisk', FreshOf(a)', SnapshotOK(a)'
  PROVE  DInv'
<1>1. LoadedPagesFresh'
  <2> SUFFICES ASSUME NEW u \in Threads, u # a, pc'[u] \in Filled, scratch'[u] # None
               PROVE  scratch'[u] = disk'[req'[u]]
    BY DEF LoadedPagesFresh, FreshOf, Filled, Writing
  <2>1. /\ pc[u] = pc'[u] /\ pc[u] \in Loading /\ req'[u] = req[u]
        /\ scratch'[u] = scratch[u]
    BY DEF OthersKept, Active, Loading, Filled, Writing, FreePc, VictimPc
  <2>2. scratch[u] = disk[req[u]]
    BY <2>1 DEF DInv, LoadedPagesFresh, Filled, Writing
  <2>3. req[u] \in Keys /\ disk'[req[u]] = disk[req[u]]
    BY <2>1, LoadedNotResident, LoaderFrame DEF DiskKept
  <2> QED BY <2>1, <2>2, <2>3
<1>2. SnapshotCurrent'
  <2> SUFFICES ASSUME NEW u \in Threads, u # a, pc'[u] \in Writing
               PROVE  SnapshotOK(u)'
    BY DEF SnapshotCurrent, SnapshotOK
  <2>1. /\ pc[u] = pc'[u] /\ pc[u] \in Writing
        /\ fid'[u] = fid[u] /\ old'[u] = old[u] /\ snap'[u] = snap[u]
    BY DEF OthersKept, Active, Loading, Writing, VictimPc
  <2>2. SnapshotOK(u)
    BY DEF DInv, SnapshotCurrent
  <2>3. /\ dirty'[fid[u]] = dirty[fid[u]]
        /\ disk'[old[u]] = disk[old[u]]
        /\ page'[fid[u]] = page[fid[u]] \/ touched'[fid[u]]
        /\ touched[fid[u]] => touched'[fid[u]]
        /\ touched'[fid[u]] \/ Guarding(fid[u])' \subseteq Guarding(fid[u])
    BY <2>1 DEF WritersKept
  <2> QED BY <2>1, <2>2, <2>3 DEF SnapshotOK
<1> QED BY <1>1, <1>2 DEF DInv
(***************************************************************************)
(* Steps of the store                                                      *)
(***************************************************************************)
(* A step that changes no content, and at most the guard of one client, is *)
(* a step of the store.                                                    *)
LEMMA GuardStep ==
  ASSUME NEW a \in Threads, Content' = Content,
         \A c \in Clients : c # a => Guard'[c] = Guard[c],
         a \in Clients =>
           \/ Guard'[a] = Guard[a]
           \/ Guard[a] = None /\ Guard'[a] \in Keys
           \/ Guard[a] # None /\ Guard'[a] = None
  PROVE  StoreStep
<1>0. /\ Guard = [c \in Clients |-> Guard[c]]
      /\ Guard' = [c \in Clients |-> Guard'[c]]
  BY DEF Guard
<1>1. CASE a \notin Clients
  <2>1. Guard' = Guard
    <3>1. \A c \in Clients : Guard'[c] = Guard[c] BY <1>1
    <3> QED BY <1>0, <3>1
  <2> QED BY <2>1 DEF StoreStep, Store!vars
<1>2. CASE a \in Clients /\ Guard'[a] = Guard[a]
  <2>1. Guard' = Guard
    <3>1. \A c \in Clients : Guard'[c] = Guard[c] BY <1>2
    <3> QED BY <1>0, <3>1
  <2> QED BY <2>1 DEF StoreStep, Store!vars
<1>3. CASE a \in Clients /\ Guard[a] = None /\ Guard'[a] \in Keys
  <2>1. PICK k \in Keys : k = Guard'[a] BY <1>3
  <2>2. Guard' = [Guard EXCEPT ![a] = k]
    <3>1. \A c \in Clients : Guard'[c] = IF c = a THEN k ELSE Guard[c] BY <2>1
    <3> QED BY <1>0, <3>1
  <2>3. Store!Acquire(a, k) BY <1>3, <2>2 DEF Store!Acquire
  <2> QED BY <1>3, <2>3 DEF StoreStep, Store!Next
<1>4. CASE a \in Clients /\ Guard[a] # None /\ Guard'[a] = None
  <2>1. Guard' = [Guard EXCEPT ![a] = None]
    <3>1. \A c \in Clients : Guard'[c] = IF c = a THEN None ELSE Guard[c] BY <1>4
    <3> QED BY <1>0, <3>1
  <2>2. Store!Release(a) BY <1>4, <2>1 DEF Store!Release
  <2> QED BY <1>4, <2>2 DEF StoreStep, Store!Next
<1> QED BY <1>1, <1>2, <1>3, <1>4

(* The guards after a step of a: nobody else's frame has lost its key. *)
LEMMA GuardsKept ==
  ASSUME IInv, IInv', NEW a \in Threads, OthersKept(a),
         \A u \in Threads \ {a} : pc[u] \in Holding => key'[fid[u]] = key[fid[u]],
         pc[a] \in Holding /\ pc'[a] \in Holding =>
           key'[fid'[a]] = key[fid[a]]
  PROVE  /\ \A c \in Clients : c # a => Guard'[c] = Guard[c]
         /\ a \in Clients =>
              \/ Guard'[a] = Guard[a]
              \/ Guard[a] = None /\ Guard'[a] \in Keys
              \/ Guard[a] # None /\ Guard'[a] = None
<1>1. \A c \in Clients : c # a => Guard'[c] = Guard[c]
  BY Distinct DEF Guard, OthersKept, Active, Holding
<1>2. a \in Clients /\ pc[a] \in Holding => Guard[a] \in Keys /\ Guard[a] # None
  BY Distinct, HolderFrame, Residence DEF Guard, Holding
<1>3. a \in Clients /\ pc'[a] \in Holding => Guard'[a] \in Keys
  <2> SUFFICES ASSUME a \in Clients, pc'[a] \in Holding PROVE key'[fid'[a]] \in Keys
    BY DEF Guard, Holding
  <2>1. fid'[a] \in Frames /\ a \in Guarding(fid[a])'
    BY Distinct DEF IInv, LocalsOK, TypeOK, ThreadTypes, Opt, Holding, Guarding
  <2>2. state'[fid'[a]] = "ready"
    BY <2>1 DEF IInv, PinsAccounted
  <2>3. key'[fid'[a]] # None
    BY <2>1, <2>2 DEF IInv, MappingConsistent
  <2>4. FrameTypes'
    BY DEF IInv, TypeOK
  <2> QED BY <2>1, <2>3, <2>4 DEF FrameTypes, Opt
<1>4. a \in Clients => /\ Guard[a] = IF pc[a] \in Holding THEN key[fid[a]] ELSE None
                       /\ Guard'[a] = IF pc'[a] \in Holding THEN key'[fid'[a]] ELSE None
  BY DEF Guard, Holding
<1> QED BY <1>1, <1>2, <1>3, <1>4
(***************************************************************************)
(* Steps that change no page, no dirty flag, no mapping and no file        *)
(***************************************************************************)
(* Such a step of thread a keeps DInv, and is a step of the store, when no *)
(* writer loses its touched mark and a new guard leaves one.               *)
LEMMA StaticStep ==
  ASSUME IInv, IInv', DInv, NEW a \in Threads, OthersKept(a),
         UNCHANGED <<state, key, page, dirty, page_table, disk>>,
         pc[a] # "mutated", pc'[a] # "mutated",
         \A u \in Threads \ {a} : pc[u] \in Writing =>
           /\ touched[fid[u]] => touched'[fid[u]]
           /\ pc'[a] \in Holding /\ fid'[a] = fid[u] => touched'[fid[u]],
         pc[a] \in Holding => pc'[a] \notin Holding,
         FreshOf(a)', SnapshotOK(a)'
  PROVE  DInv' /\ StoreStep
<1>1. \A f \in Frames : MidMutation(f)' = MidMutation(f)
  BY Distinct DEF MidMutation, OthersKept, Active, Holding
<1>2. CleanPagesOnDisk'
  BY <1>1 DEF DInv, CleanPagesOnDisk
<1>3. DiskKept
  BY DEF DiskKept
<1>4. WritersKept(a)
  <2>1. \A u \in Threads \ {a} : pc[u] \in Writing /\ ~touched'[fid[u]] =>
            Guarding(fid[u])' \subseteq Guarding(fid[u])
    <3> SUFFICES ASSUME NEW u \in Threads \ {a}, pc[u] \in Writing,
                        ~touched'[fid[u]], NEW c \in Guarding(fid[u])'
                 PROVE  c \in Guarding(fid[u])
      OBVIOUS
    <3>1. fid'[u] = fid[u]
      BY DEF OthersKept, Active, Loading, VictimPc, Writing
    <3>2. c \in Clients /\ pc'[c] \in Holding /\ fid'[c] = fid[u]
      BY <3>1 DEF Guarding, Holding
    <3> QED BY <3>2, Distinct DEF OthersKept, Active, Holding, Guarding
  <2> QED BY <2>1 DEF WritersKept
<1>5. DInv'
  BY <1>2, <1>3, <1>4, DataStep
<1>6. Content' = Content
  BY DEF Content
<1>7. /\ \A c \in Clients : c # a => Guard'[c] = Guard[c]
      /\ a \in Clients =>
           \/ Guard'[a] = Guard[a]
           \/ Guard[a] = None /\ Guard'[a] \in Keys
           \/ Guard[a] # None /\ Guard'[a] = None
  BY GuardsKept
<1> QED BY <1>5, <1>6, <1>7, GuardStep

(* A thread that writes back owns its frame, so the frame is not another's. *)
LEMMA WriterOwns ==
  ASSUME IInv, NEW u \in Threads, pc[u] \in Writing
  PROVE  fid[u] \in Frames /\ owner[fid[u]] = u /\ pc[u] \in VictimPc
BY VictimFrame DEF Writing, VictimPc

(* An access to a frame that has an owner leaves its mark. *)
LEMMA TouchMarks ==
  ASSUME touched \in [Frames -> BOOLEAN], NEW f \in Frames, NEW g \in Frames
  PROVE  /\ touched[g] => Touch(f)[g]
         /\ f = g /\ owner[g] # None => Touch(f)[g]
BY Zenon DEF Touch

(* Hit and WakeReady touch the frame, which a writer will notice. *)
LEMMA PinResidentData ==
  ASSUME IInv, IInv', DInv, NEW c \in Clients, NEW f \in Frames,
         pc[c] \in {"idle", "woken"}, PinResident(c, f)
  PROVE  DInv' /\ StoreStep
<1> USE Distinct
<1>0. ThreadTypes /\ FrameTypes BY DEF IInv, TypeOK
<1>1. /\ pc' = [pc EXCEPT ![c] = "holding"]
      /\ req' = [req EXCEPT ![c] = None]
      /\ fid' = [fid EXCEPT ![c] = f]
      /\ UNCHANGED <<old, scratch, snap>>
      /\ touched' = Touch(f)
      /\ UNCHANGED <<state, key, page, dirty, page_table, disk>>
  BY DEF PinResident, Return, AfterLoad
<1>2. OthersKept(c) /\ pc'[c] = "holding" /\ fid'[c] = f
  BY <1>0, <1>1 DEF OthersKept, ThreadTypes
<1>3. \A u \in Threads \ {c} : pc[u] \in Writing =>
           /\ touched[fid[u]] => touched'[fid[u]]
           /\ fid'[c] = fid[u] => touched'[fid[u]]
  BY <1>0, <1>1, <1>2, WriterOwns, TouchMarks DEF FrameTypes
<1>4. FreshOf(c)' /\ SnapshotOK(c)'
  BY <1>2 DEF FreshOf, SnapshotOK, Filled, Writing
<1> QED BY <1>1, <1>2, <1>3, <1>4, StaticStep DEF Holding

(* A step that leaves the pool and the files alone and moves thread a to a *)
(* place where nothing is claimed of its locals.                           *)
LEMMA MoveData ==
  ASSUME IInv, IInv', DInv, NEW a \in Threads, OthersKept(a),
         UNCHANGED <<state, key, page, dirty, page_table, disk, touched>>,
         pc[a] # "mutated", pc'[a] \notin Filled \cup Holding
  PROVE  DInv' /\ StoreStep
<1>1. FreshOf(a)' /\ SnapshotOK(a)'
  BY DEF FreshOf, SnapshotOK, Filled
<1> QED BY <1>1, StaticStep DEF Holding

(* Waiting for another thread's load. *)
LEMMA JoinData ==
  ASSUME IInv, IInv', DInv, NEW c \in Clients, NEW k \in Keys,
         pc[c] \in {"idle", "woken"}, Join(c, k)
  PROVE  DInv' /\ StoreStep
<1> USE Distinct
<1>0. ThreadTypes BY DEF IInv, TypeOK
<1>1. /\ pc' = [pc EXCEPT ![c] = "waiting"]
      /\ req' = [req EXCEPT ![c] = k]
      /\ UNCHANGED <<fid, old, scratch, snap>>
      /\ UNCHANGED <<state, key, page, dirty, page_table, disk, touched>>
  BY DEF Join, pool, frames, tables
<1>2. OthersKept(c) /\ pc'[c] = "waiting"
  BY <1>0, <1>1 DEF OthersKept, ThreadTypes
<1> QED BY <1>1, <1>2, MoveData DEF Filled, Holding, Writing

(* load_page returns without a guard. *)
LEMMA ReturnData ==
  ASSUME IInv, IInv', DInv, NEW t \in Threads, pc[t] \in StartPc(t),
         Return(t, None), UNCHANGED <<pool, disk, prefetching>>
  PROVE  DInv' /\ StoreStep
<1> USE Distinct
<1>0. ThreadTypes BY DEF IInv, TypeOK
<1>1. /\ pc' = [pc EXCEPT ![t] = IF t = Worker THEN "finish" ELSE "idle"]
      /\ req' = IF t = Worker THEN req ELSE [req EXCEPT ![t] = None]
      /\ fid' = [fid EXCEPT ![t] = None]
      /\ UNCHANGED <<old, scratch, snap>>
      /\ UNCHANGED <<state, key, page, dirty, page_table, disk, touched>>
  BY DEF Return, AfterLoad, pool, frames, tables
<1>2. OthersKept(t) /\ pc'[t] \in {"finish", "idle"}
  BY <1>0, <1>1 DEF OthersKept, ThreadTypes
<1>3. pc[t] # "mutated" BY DEF StartPc
<1> QED BY <1>1, <1>2, <1>3, MoveData DEF Filled, Holding, Writing

(* The unlocked read: what it finds is what the file holds. *)
LEMMA ReadPageData ==
  ASSUME IInv, IInv', DInv, NEW t \in Threads, ReadPage(t)
  PROVE  DInv' /\ StoreStep
<1> USE Distinct
<1>0. ThreadTypes BY DEF IInv, TypeOK
<1>1. PICK p \in {disk[req[t]], None} : scratch' = [scratch EXCEPT ![t] = p]
  BY DEF ReadPage
<1>2. PICK to \in {"free_ret", "clean_ret", "dirty_ret"} : pc' = [pc EXCEPT ![t] = to]
  BY DEF ReadPage
<1>3. /\ UNCHANGED <<req, fid, old, snap>>
      /\ UNCHANGED <<state, key, page, dirty, page_table, disk, touched>>
      /\ pc[t] \in {"free_io", "clean_io", "dirty_io"}
  BY DEF ReadPage, pool, frames, tables
<1>4. OthersKept(t) /\ pc'[t] = to /\ scratch'[t] = p
  BY <1>0, <1>1, <1>2, <1>3 DEF OthersKept, ThreadTypes
<1>5. FreshOf(t)' /\ SnapshotOK(t)'
  BY <1>1, <1>3, <1>4 DEF FreshOf, SnapshotOK, Writing
<1> QED BY <1>3, <1>4, <1>5, StaticStep DEF Holding

(* The snapshot of an untouched dirty victim. *)
LEMMA SnapshotVictimData ==
  ASSUME IInv, IInv', DInv, NEW t \in Threads, SnapshotVictim(t)
  PROVE  DInv' /\ StoreStep
<1> USE Distinct
<1>0. ThreadTypes BY DEF IInv, TypeOK
<1>1. /\ pc[t] = "dirty_ret" /\ scratch[t] # None
      /\ pc' = [pc EXCEPT ![t] = "write_io"]
      /\ snap' = [snap EXCEPT ![t] = page[fid[t]]]
      /\ UNCHANGED <<req, fid, old, scratch>>
      /\ UNCHANGED <<state, key, page, dirty, page_table, disk, touched>>
  BY DEF SnapshotVictim, pool, frames, tables
<1>2. OthersKept(t) /\ pc'[t] = "write_io" /\ snap'[t] = page[fid[t]]
  BY <1>0, <1>1 DEF OthersKept, ThreadTypes
<1>3. FreshOf(t)'
  BY <1>1, <1>2 DEF FreshOf, DInv, LoadedPagesFresh
<1>4. fid[t] \in Frames /\ dirty[fid[t]] /\ pin[fid[t]] = 0
  BY <1>1, VictimFrame DEF SnapshotVictim, VictimUnchanged, VictimPc
<1>5. Guarding(fid[t]) = {}
  BY <1>4, Unpinned DEF IInv
<1>6. Guarding(fid[t])' = {}
  BY <1>0, <1>1, <1>5 DEF Guarding, ThreadTypes
<1>7. SnapshotOK(t)'
  BY <1>1, <1>2, <1>4, <1>6 DEF SnapshotOK
<1> QED BY <1>1, <1>2, <1>3, <1>7, StaticStep DEF Holding

(* The end of a load leaves the other threads' loads and guards alone. *)
LEMMA CompleteOthers ==
  ASSUME IInv, NEW t \in Threads, NEW f \in Opt(Frames), NEW tick, Complete(t, f, tick)
  PROVE  /\ OthersKept(t) /\ pc'[t] = AfterLoad(t, f)
         /\ t \in Clients => fid'[t] = f
<1> USE Distinct
<1>0. ThreadTypes BY DEF IInv, TypeOK
<1>1. /\ pc' = [u \in Threads |-> IF u = t THEN AfterLoad(t, f)
                                 ELSE IF u \in WaitersOf(t) THEN "woken" ELSE pc[u]]
      /\ req' = IF t = Worker THEN req ELSE [req EXCEPT ![t] = None]
      /\ fid' = [fid EXCEPT ![t] = IF t = Worker THEN None ELSE f]
      /\ old' = [old EXCEPT ![t] = None]
      /\ scratch' = [scratch EXCEPT ![t] = None]
      /\ snap' = [snap EXCEPT ![t] = None]
  BY DEF Complete
<1>2. \A u \in WaitersOf(t) : pc[u] = "waiting"
  BY DEF WaitersOf, Waiting
<1>3. \A u \in Threads \ {t} : pc'[u] = pc[u] \/ (pc[u] = "waiting" /\ pc'[u] = "woken")
  BY <1>1, <1>2
<1>4. \A u \in Threads \ {t} : /\ req'[u] = req[u] /\ fid'[u] = fid[u] /\ old'[u] = old[u]
                               /\ scratch'[u] = scratch[u] /\ snap'[u] = snap[u]
  BY <1>0, <1>1 DEF ThreadTypes
<1>5. OthersKept(t)
  BY <1>3, <1>4 DEF OthersKept, Active, Loading, FreePc, VictimPc, Holding
<1>6. pc'[t] = AfterLoad(t, f)
  BY <1>1
<1>7. t \in Clients => fid'[t] = f
  BY <1>0, <1>1 DEF ThreadTypes
<1> QED BY <1>5, <1>6, <1>7

(* A cancelled replacement. *)
LEMMA CancelData ==
  ASSUME IInv, IInv', DInv, NEW t \in Threads, pc[t] \in VictimPc, Cancel(t)
  PROVE  DInv' /\ StoreStep
<1>0. FrameTypes BY DEF IInv, TypeOK
<1>1. /\ touched' = [touched EXCEPT ![fid[t]] = FALSE]
      /\ UNCHANGED <<state, key, page, dirty, page_table, disk>>
  BY DEF Cancel
<1>2. OthersKept(t) /\ pc'[t] \in {"finish", "idle"}
  BY CompleteOthers DEF Cancel, AfterLoad, Opt
<1>3. \A u \in Threads \ {t} : pc[u] \in Writing => touched'[fid[u]] = touched[fid[u]]
  <2> SUFFICES ASSUME NEW u \in Threads \ {t}, pc[u] \in Writing
               PROVE  touched'[fid[u]] = touched[fid[u]]
    OBVIOUS
  <2>1. fid[u] \in Frames /\ fid[t] \in Frames /\ fid[u] # fid[t]
    BY WriterOwns, VictimFrame
  <2> QED BY <1>0, <1>1, <2>1 DEF FrameTypes
<1>4. FreshOf(t)' /\ SnapshotOK(t)'
  BY <1>2 DEF FreshOf, SnapshotOK, Filled, Writing
<1> QED BY <1>1, <1>2, <1>3, <1>4, StaticStep DEF Holding, VictimPc

(* A reservation changes nothing of the victim's data. *)
LEMMA ReserveData ==
  ASSUME IInv, IInv', DInv, NEW t \in Threads, NEW k \in Keys,
         pc[t] \in StartPc(t), Reserve(t, k)
  PROVE  DInv' /\ StoreStep
<1>0. FrameTypes /\ ThreadTypes BY DEF IInv, TypeOK
<1>1. PICK f \in choose_victim(t) :
        /\ touched' = [touched EXCEPT ![f] = FALSE]
        /\ BeginLoad(t, IF dirty[f] THEN "dirty_io" ELSE "clean_io", k, f, key[f])
  BY DEF Reserve
<1>2. f \in Frames /\ owner[f] = None
  BY DEF choose_victim, Queued, Eligible
<1>3. PICK where \in {"dirty_io", "clean_io"} : pc' = [pc EXCEPT ![t] = where]
  BY <1>1 DEF BeginLoad
<1>4. /\ req' = [req EXCEPT ![t] = k]
      /\ fid' = [fid EXCEPT ![t] = f]
      /\ old' = [old EXCEPT ![t] = key[f]]
      /\ UNCHANGED <<scratch, snap>>
      /\ UNCHANGED <<state, key, page, dirty, page_table, disk>>
  BY <1>1 DEF BeginLoad, Reserve
<1>5. OthersKept(t) /\ pc'[t] = where
  BY <1>0, <1>3, <1>4 DEF OthersKept, ThreadTypes
<1>6. \A u \in Threads \ {t} : pc[u] \in Writing => touched'[fid[u]] = touched[fid[u]]
  <2> SUFFICES ASSUME NEW u \in Threads \ {t}, pc[u] \in Writing
               PROVE  touched'[fid[u]] = touched[fid[u]]
    OBVIOUS
  <2>1. fid[u] \in Frames /\ fid[u] # f
    BY WriterOwns, <1>2, Distinct
  <2> QED BY <1>0, <1>1, <1>2, <2>1 DEF FrameTypes
<1>7. FreshOf(t)' /\ SnapshotOK(t)'
  BY <1>5 DEF FreshOf, SnapshotOK, Filled, Writing
<1>8. pc[t] # "mutated" /\ pc'[t] \notin Holding /\ pc'[t] # "mutated"
  BY <1>5 DEF StartPc, Holding
<1> QED BY <1>4, <1>5, <1>6, <1>7, <1>8, StaticStep

(* PageGuard::release *)
LEMMA ReleaseGuardData ==
  ASSUME IInv, IInv', DInv, NEW c \in Clients, ReleaseGuard(c)
  PROVE  DInv' /\ StoreStep
<1> USE Distinct
<1>0. ThreadTypes BY DEF IInv, TypeOK
<1>1. /\ pc[c] = "holding" /\ pc' = [pc EXCEPT ![c] = "idle"]
      /\ fid' = [fid EXCEPT ![c] = None]
      /\ UNCHANGED <<req, old, scratch, snap>>
      /\ UNCHANGED <<state, key, page, dirty, page_table, disk, touched>>
  BY DEF ReleaseGuard, tables
<1>2. OthersKept(c) /\ pc'[c] = "idle"
  BY <1>0, <1>1 DEF OthersKept, ThreadTypes
<1> QED BY <1>1, <1>2, MoveData DEF Filled, Holding, Writing

(* The steps around joining and restarting the worker. *)
LEMMA StopWorkerData ==
  ASSUME IInv, IInv', DInv, NEW c \in Clients, NEW where \in JoinPc,
         NEW table, StopWorker(c, where, table)
  PROVE  DInv' /\ StoreStep
<1> USE Distinct
<1>0. ThreadTypes BY DEF IInv, TypeOK
<1>1. /\ pc[c] = "idle" /\ pc' = [pc EXCEPT ![c] = where]
      /\ UNCHANGED <<req, fid, old, scratch, snap>>
      /\ UNCHANGED <<state, key, page, dirty, page_table, disk, touched>>
  BY DEF StopWorker, pool, frames, tables
<1>2. OthersKept(c) /\ pc'[c] = where
  BY <1>0, <1>1 DEF OthersKept, ThreadTypes
<1> QED BY <1>1, <1>2, MoveData DEF Filled, Holding, Writing, JoinPc

(* A caller leaves the join. *)
LEMMA LeaveJoinOthers ==
  ASSUME IInv, NEW c \in Clients, NEW where \in JoinPc, NEW life,
         Joined(c, where), LeaveJoin(c, life)
  PROVE  /\ OthersKept(c) /\ pc[c] \in JoinPc /\ pc'[c] \in {"restart", "idle"}
         /\ UNCHANGED <<fid, old>> /\ \A u \in Threads \ {c} : pc'[u] = pc[u]
<1> USE Distinct
<1>0. ThreadTypes BY DEF IInv, TypeOK
<1>1. PICK to \in {"restart", "idle"} : pc' = [pc EXCEPT ![c] = to]
  BY DEF LeaveJoin
<1>2. UNCHANGED <<req, fid, old, scratch, snap>> /\ pc[c] \in JoinPc
  BY DEF LeaveJoin, Joined
<1> QED BY <1>0, <1>1, <1>2 DEF OthersKept, ThreadTypes

(* release_table or close is refused. *)
LEMMA RefusedData ==
  ASSUME IInv, IInv', DInv, NEW c \in Clients, ReleaseRefused(c) \/ CloseRefused(c)
  PROVE  DInv' /\ StoreStep
<1>1. PICK where \in JoinPc : Joined(c, where) /\ LeaveJoin(c, lifecycle)
  BY DEF ReleaseRefused, CloseRefused, JoinPc
<1>2. UNCHANGED <<state, key, page, dirty, page_table, disk, touched>>
  BY DEF ReleaseRefused, CloseRefused, pool, frames, tables
<1>3. c \in Threads BY Distinct
<1> QED BY <1>1, <1>2, <1>3, LeaveJoinOthers, MoveData DEF Filled, Holding, Writing, JoinPc

(* start_prefetch_worker *)
LEMMA RestartData ==
  ASSUME IInv, IInv', DInv, NEW c \in Clients, Restart(c)
  PROVE  DInv' /\ StoreStep
<1> USE Distinct
<1>0. ThreadTypes BY DEF IInv, TypeOK
<1>1. /\ pc[c] = "restart"
      /\ \/ pc' = [pc EXCEPT ![c] = "idle", ![Worker] = "poll"]
         \/ pc' = [pc EXCEPT ![c] = "idle"]
      /\ UNCHANGED <<req, fid, old, scratch, snap>>
      /\ UNCHANGED <<state, key, page, dirty, page_table, disk, touched>>
  BY DEF Restart, call, pool, frames, tables
<1>2. pc[Worker] = "off"
  BY <1>1 DEF IInv, ControlOK
<1>3. OthersKept(c) /\ pc'[c] = "idle"
  BY <1>0, <1>1, <1>2
     DEF OthersKept, ThreadTypes, Active, Loading, FreePc, VictimPc, Holding
<1> QED BY <1>1, <1>3, MoveData DEF Filled, Holding, Writing

(* The steps of the worker between loads. *)
LEMMA WorkerLoopData ==
  ASSUME IInv, IInv', DInv, WorkerExit \/ WorkerTake \/ WorkerSkip \/ WorkerFinish
  PROVE  DInv' /\ StoreStep
<1> USE Distinct
<1>0. ThreadTypes BY DEF IInv, TypeOK
<1>1. PICK to \in {"off", "check", "finish", "poll"} : pc' = [pc EXCEPT ![Worker] = to]
  BY DEF WorkerExit, WorkerTake, WorkerSkip, WorkerFinish
<1>2. pc[Worker] \in {"poll", "check", "finish"}
  BY DEF WorkerExit, WorkerTake, WorkerSkip, WorkerFinish
<1>3. /\ UNCHANGED <<fid, old, scratch, snap>>
      /\ UNCHANGED <<state, key, page, dirty, page_table, disk, touched>>
  BY DEF WorkerExit, WorkerTake, WorkerSkip, WorkerFinish, call, pool, frames, tables
<1>4. \A u \in Threads \ {Worker} : req'[u] = req[u]
  BY <1>0 DEF WorkerExit, WorkerTake, WorkerSkip, WorkerFinish, call, ThreadTypes
<1>5. OthersKept(Worker) /\ pc'[Worker] = to
  BY <1>0, <1>1, <1>3, <1>4 DEF OthersKept, ThreadTypes
<1> QED BY <1>2, <1>3, <1>5, MoveData DEF Filled, Holding, Writing

(* prefetch_page, and a step that changes nothing at all. *)
LEMMA StandStillData ==
  ASSUME IInv, IInv', DInv,
         UNCHANGED <<pc, req, fid, old, scratch, snap>>,
         UNCHANGED <<state, key, page, dirty, page_table, disk, touched>>
  PROVE  DInv' /\ StoreStep
<1>1. \A f \in Frames : MidMutation(f)' = MidMutation(f) /\ Guarding(f)' = Guarding(f)
  BY DEF MidMutation, Guarding
<1>2. CleanPagesOnDisk'
  BY <1>1 DEF DInv, CleanPagesOnDisk
<1>3. LoadedPagesFresh'
  BY DEF DInv, LoadedPagesFresh
<1>4. SnapshotCurrent'
  BY DEF DInv, SnapshotCurrent, SnapshotOK, Guarding
<1>5. StoreStep
  BY DEF StoreStep, Store!vars, Content, Guard
<1> QED BY <1>2, <1>3, <1>4, <1>5 DEF DInv

(***************************************************************************)
(* Steps that change the frames of a set S, none of them another writer's  *)
(***************************************************************************)
CleanAt(f) ==
  state[f] = "ready" /\ ~dirty[f] /\ ~MidMutation(f) => page[f] = disk[key[f]]

(* Such a step leaves the other frames clean and the other writers alone. *)
LEMMA FramesStep ==
  ASSUME IInv, DInv, NEW a \in Threads, OthersKept(a), NEW S \in SUBSET Frames,
         \A g \in Frames \ S :
           /\ state'[g] = state[g] /\ key'[g] = key[g] /\ page'[g] = page[g]
           /\ dirty'[g] = dirty[g] /\ touched'[g] = touched[g],
         \A u \in Threads \ {a} : pc[u] \in Writing => fid[u] \notin S,
         pc[a] # "mutated", pc'[a] # "mutated",
         pc'[a] \in Holding => fid'[a] \in S,
         \A k \in Keys : \/ disk'[k] = disk[k]
                         \/ /\ page_table[k] # None /\ page_table[k] \in S
                            /\ state[page_table[k]] = "ready"
  PROVE  WritersKept(a) /\ DiskKept /\ \A g \in Frames \ S : CleanAt(g)'
<1>1. DiskKept
  BY DEF DiskKept
<1>2. WritersKept(a)
  <2> SUFFICES ASSUME NEW u \in Threads \ {a}, pc[u] \in Writing
               PROVE  /\ dirty'[fid[u]] = dirty[fid[u]]
                      /\ disk'[old[u]] = disk[old[u]]
                      /\ page'[fid[u]] = page[fid[u]]
                      /\ touched'[fid[u]] = touched[fid[u]]
                      /\ Guarding(fid[u])' \subseteq Guarding(fid[u])
    BY DEF WritersKept
  <2>1. /\ fid[u] \in Frames \ S /\ old[u] \in Keys /\ page_table[old[u]] = fid[u]
    BY VictimFrame DEF Writing, VictimPc
  <2>2. disk'[old[u]] = disk[old[u]]
    BY <2>1
  <2>3. Guarding(fid[u])' \subseteq Guarding(fid[u])
    <3> SUFFICES ASSUME NEW c \in Guarding(fid[u])' PROVE c \in Guarding(fid[u])
      OBVIOUS
    <3>1. fid'[u] = fid[u]
      BY DEF OthersKept, Active, Loading, VictimPc, Writing
    <3>2. c \in Clients /\ pc'[c] \in Holding /\ fid'[c] = fid[u]
      BY <3>1 DEF Guarding, Holding
    <3>3. c # a BY <3>2, <2>1
    <3> QED BY <3>2, <3>3, Distinct DEF OthersKept, Active, Holding, Guarding
  <2> QED BY <2>1, <2>2, <2>3
<1>3. ASSUME NEW g \in Frames \ S PROVE CleanAt(g)'
  <2>1. MidMutation(g)' = MidMutation(g)
    BY Distinct DEF MidMutation, OthersKept, Active, Holding
  <2>2. CleanAt(g)
    BY DEF DInv, CleanPagesOnDisk, CleanAt
  <2>3. state[g] = "ready" => disk'[key[g]] = disk[key[g]]
    BY Residence
  <2> QED BY <2>1, <2>2, <2>3 DEF CleanAt
<1> QED BY <1>1, <1>2, <1>3

(* The frame of a load is no other writer's frame. *)
LEMMA NotWriters ==
  ASSUME IInv, NEW a \in Threads, NEW f \in Frames, owner[f] \in {a, None}
  PROVE  \A u \in Threads \ {a} : pc[u] \in Writing => fid[u] \notin {f}
BY WriterOwns, Distinct

(* A frame without guards is no holder's frame. *)
LEMMA HoldersElsewhere ==
  ASSUME IInv, NEW S \in SUBSET Frames, \A f \in S : Guarding(f) = {},
         \A g \in Frames \ S : key'[g] = key[g]
  PROVE  \A u \in Threads : pc[u] \in Holding => key'[fid[u]] = key[fid[u]]
<1> SUFFICES ASSUME NEW u \in Threads, pc[u] \in Holding
             PROVE  key'[fid[u]] = key[fid[u]]
  OBVIOUS
<1>1. u \in Clients
  BY Distinct DEF IInv, TypeOK, ThreadTypes, Holding, WorkerPc, FreePc
<1>2. fid[u] \in Frames \ S
  BY <1>1, HolderFrame DEF Holding
<1> QED BY <1>2

(* A miss takes a free frame. *)
LEMMA LoadFreeData ==
  ASSUME IInv, IInv', DInv, NEW t \in Threads, NEW k \in Keys,
         pc[t] \in StartPc(t), LoadFree(t, k)
  PROVE  DInv' /\ StoreStep
<1> USE Distinct
<1>0. FrameTypes /\ PoolTypes /\ ThreadTypes BY DEF IInv, TypeOK
<1>1. PICK f \in FirstFree :
        /\ state' = [state EXCEPT ![f] = "loading"]
        /\ key' = [key EXCEPT ![f] = k]
        /\ dirty' = [dirty EXCEPT ![f] = FALSE]
        /\ page_table' = [page_table EXCEPT ![k] = f]
        /\ BeginLoad(t, "free_io", k, f, None)
  BY DEF LoadFree
<1>2. f \in Frames /\ state[f] = "free"
  BY DEF FirstFree, FreeFrames
<1>3. /\ Guarding(f) = {} /\ owner[f] = None
      /\ \A k2 \in Keys : page_table[k2] # f
  BY <1>2, FreeFrameUnused
<1>4. /\ pc' = [pc EXCEPT ![t] = "free_io"]
      /\ req' = [req EXCEPT ![t] = k]
      /\ fid' = [fid EXCEPT ![t] = f]
      /\ old' = [old EXCEPT ![t] = None]
      /\ UNCHANGED <<scratch, snap, page, touched, disk>>
      /\ page_table[k] = None
  BY <1>1 DEF BeginLoad, LoadFree, Absent
<1>5. OthersKept(t) /\ pc'[t] = "free_io"
  BY <1>0, <1>4 DEF OthersKept, ThreadTypes
<1>6. \A g \in Frames \ {f} :
           /\ state'[g] = state[g] /\ key'[g] = key[g] /\ page'[g] = page[g]
           /\ dirty'[g] = dirty[g] /\ touched'[g] = touched[g]
  BY <1>0, <1>1, <1>4 DEF FrameTypes
<1>7. WritersKept(t) /\ DiskKept /\ \A g \in Frames \ {f} : CleanAt(g)'
  <2>1. pc[t] # "mutated" /\ pc'[t] # "mutated" /\ pc'[t] \notin Holding
    BY <1>5 DEF StartPc, Holding
  <2>2. \A u \in Threads \ {t} : pc[u] \in Writing => fid[u] \notin {f}
    BY <1>2, <1>3, NotWriters
  <2> QED BY <1>2, <1>4, <1>5, <1>6, <2>1, <2>2, FramesStep
<1>8. DInv'
  <2>1. state'[f] = "loading" BY <1>0, <1>1, <1>2 DEF FrameTypes
  <2>2. CleanPagesOnDisk' BY <1>7, <2>1 DEF CleanPagesOnDisk, CleanAt
  <2>3. FreshOf(t)' /\ SnapshotOK(t)'
    BY <1>5 DEF FreshOf, SnapshotOK, Filled, Writing
  <2> QED BY <1>5, <1>7, <2>2, <2>3, DataStep
<1>9. Content' = Content
  <2>1. \A k2 \in Keys : k2 # k =>
          /\ page_table'[k2] = page_table[k2]
          /\ page_table[k2] # None =>
                state'[page_table[k2]] = state[page_table[k2]]
    BY <1>0, <1>1, <1>3, <1>6, Residence DEF PoolTypes
  <2>2. page_table'[k] = f /\ state'[f] = "loading"
    BY <1>0, <1>1, <1>2 DEF PoolTypes, FrameTypes
  <2> QED BY <1>4, <2>1, <2>2 DEF Content
<1>10. StoreStep
  <2>1. \A u \in Threads : pc[u] \in Holding => key'[fid[u]] = key[fid[u]]
    <3>1. \A g \in {f} : Guarding(g) = {} BY <1>3
    <3>2. {f} \in SUBSET Frames BY <1>2
    <3>3. \A g \in Frames \ {f} : key'[g] = key[g] BY <1>6
    <3> QED BY <3>1, <3>2, <3>3, HoldersElsewhere
  <2>2. pc[t] \notin Holding BY DEF StartPc, Holding
  <2> QED BY <1>5, <1>9, <2>1, <2>2, GuardsKept, GuardStep
<1> QED BY <1>8, <1>10

(* The page loaded into a free frame is published. *)
LEMMA PublishFreeData ==
  ASSUME IInv, IInv', DInv, NEW t \in Threads, PublishFree(t)
  PROVE  DInv' /\ StoreStep
<1> USE Distinct
<1>0. FrameTypes /\ PoolTypes BY DEF IInv, TypeOK
<1>1. PICK f : f = fid[t] OBVIOUS
<1>2. pc[t] = "free_ret" /\ scratch[t] # None
  BY DEF PublishFree
<1>3. /\ f \in Frames /\ req[t] \in Keys /\ owner[f] = t
      /\ state[f] = "loading" /\ key[f] = req[t]
  BY <1>1, <1>2, LoaderFrame DEF Loading, FreePc, IInv, LoadsExclusive
<1>4. Guarding(f) = {} /\ page_table[req[t]] = f
  BY <1>3 DEF IInv, PinsAccounted, MappingConsistent
<1>5. scratch[t] = disk[req[t]]
  BY <1>2 DEF DInv, LoadedPagesFresh
<1>6. /\ state' = [state EXCEPT ![f] = "ready"]
      /\ page' = [page EXCEPT ![f] = scratch[t]]
      /\ dirty' = [dirty EXCEPT ![f] = FALSE]
      /\ UNCHANGED <<key, touched, page_table, disk>>
      /\ Complete(t, f, ticket[f])
  BY <1>1 DEF PublishFree
<1>7. /\ OthersKept(t) /\ pc'[t] \in {"finish", "holding"}
      /\ pc'[t] = "holding" => fid'[t] = f
  <2>1. OthersKept(t) /\ pc'[t] = AfterLoad(t, f) /\ (t \in Clients => fid'[t] = f)
    BY <1>3, <1>6, CompleteOthers DEF Opt
  <2> QED BY <1>3, <2>1 DEF AfterLoad
<1>8. \A g \in Frames \ {f} :
           /\ state'[g] = state[g] /\ key'[g] = key[g] /\ page'[g] = page[g]
           /\ dirty'[g] = dirty[g] /\ touched'[g] = touched[g]
  BY <1>0, <1>6 DEF FrameTypes
<1>9. WritersKept(t) /\ DiskKept /\ \A g \in Frames \ {f} : CleanAt(g)'
  <2>1. \A u \in Threads \ {t} : pc[u] \in Writing => fid[u] \notin {f}
    BY <1>3, NotWriters
  <2>2. pc[t] # "mutated" /\ pc'[t] # "mutated" /\ (pc'[t] \in Holding => fid'[t] \in {f})
    BY <1>2, <1>7 DEF Holding
  <2>3. {f} \in SUBSET Frames BY <1>3
  <2>4. \A k \in Keys : disk'[k] = disk[k] BY <1>6
  <2> QED BY <1>7, <1>8, <2>1, <2>2, <2>3, <2>4, FramesStep
<1>10. state'[f] = "ready" /\ page'[f] = disk[req[t]]
  BY <1>0, <1>3, <1>5, <1>6 DEF FrameTypes
<1>11. DInv'
  <2>1. CleanPagesOnDisk'
    BY <1>3, <1>6, <1>9, <1>10 DEF CleanPagesOnDisk, CleanAt
  <2>2. FreshOf(t)' /\ SnapshotOK(t)'
    BY <1>7 DEF FreshOf, SnapshotOK, Filled, Writing
  <2> QED BY <1>7, <1>9, <2>1, <2>2, DataStep
<1>12. Content' = Content
  <2>1. \A k \in Keys : k # req[t] /\ page_table[k] # None =>
          /\ page_table[k] \in Frames \ {f}
          /\ state'[page_table[k]] = state[page_table[k]]
          /\ page'[page_table[k]] = page[page_table[k]]
    BY <1>3, <1>8, Residence
  <2>2. \A k \in Keys : Content'[k] = Content[k]
    BY <1>3, <1>4, <1>6, <1>10, <2>1 DEF Content
  <2> QED BY <2>2 DEF Content
<1>13. StoreStep
  <2>1. \A u \in Threads : pc[u] \in Holding => key'[fid[u]] = key[fid[u]]
    BY <1>6
  <2>2. pc[t] \notin Holding BY <1>2 DEF Holding
  <2> QED BY <1>7, <1>12, <2>1, <2>2, GuardsKept, GuardStep
<1> QED BY <1>11, <1>13

(* The read into a free frame failed. *)
LEMMA AbandonFreeData ==
  ASSUME IInv, IInv', DInv, NEW t \in Threads, AbandonFree(t)
  PROVE  DInv' /\ StoreStep
<1> USE Distinct
<1>0. FrameTypes /\ PoolTypes BY DEF IInv, TypeOK
<1>1. PICK f : f = fid[t] OBVIOUS
<1>2. pc[t] = "free_ret"
  BY DEF AbandonFree
<1>3. /\ f \in Frames /\ req[t] \in Keys /\ owner[f] = t
      /\ state[f] = "loading" /\ key[f] = req[t]
  BY <1>1, <1>2, LoaderFrame DEF Loading, FreePc, IInv, LoadsExclusive
<1>4. Guarding(f) = {} /\ page_table[req[t]] = f
  BY <1>3 DEF IInv, PinsAccounted, MappingConsistent
<1>5. /\ reset_to_free({f}) /\ disk' = disk
      /\ page_table' = [page_table EXCEPT ![req[t]] = None]
      /\ Complete(t, None, None)
  BY <1>1 DEF AbandonFree
<1>6. OthersKept(t) /\ pc'[t] \in {"finish", "idle"}
  BY <1>5, CompleteOthers DEF Opt, AfterLoad
<1>7. \A g \in Frames \ {f} :
           /\ state'[g] = state[g] /\ key'[g] = key[g] /\ page'[g] = page[g]
           /\ dirty'[g] = dirty[g] /\ touched'[g] = touched[g]
  BY <1>5 DEF reset_to_free
<1>8. WritersKept(t) /\ DiskKept /\ \A g \in Frames \ {f} : CleanAt(g)'
  <2>1. \A u \in Threads \ {t} : pc[u] \in Writing => fid[u] \notin {f}
    BY <1>3, NotWriters
  <2>2. {f} \in SUBSET Frames /\ OthersKept(t) BY <1>3, <1>6
  <2>3. /\ pc[t] # "mutated" /\ pc'[t] # "mutated"
        /\ pc'[t] \in Holding => fid'[t] \in {f}
    BY <1>2, <1>6 DEF Holding
  <2>4. \A k \in Keys : disk'[k] = disk[k] BY <1>5
  <2> QED BY <1>7, <2>1, <2>2, <2>3, <2>4, FramesStep
<1>9. DInv'
  <2>1. state'[f] = "free" BY <1>3, <1>5 DEF reset_to_free
  <2>2. CleanPagesOnDisk'
    BY <1>8, <2>1 DEF CleanPagesOnDisk, CleanAt
  <2>3. FreshOf(t)' /\ SnapshotOK(t)'
    BY <1>6 DEF FreshOf, SnapshotOK, Filled, Writing
  <2> QED BY <1>6, <1>8, <2>2, <2>3, DataStep
<1>10. Content' = Content
  <2>1. \A k \in Keys : k # req[t] =>
          /\ page_table'[k] = page_table[k]
          /\ page_table[k] # None =>
               /\ page_table[k] \in Frames \ {f}
               /\ state'[page_table[k]] = state[page_table[k]]
               /\ page'[page_table[k]] = page[page_table[k]]
    BY <1>0, <1>3, <1>5, <1>7, Residence DEF PoolTypes
  <2>2. page_table'[req[t]] = None
    BY <1>0, <1>3, <1>5 DEF PoolTypes
  <2>3. \A k \in Keys : Content'[k] = Content[k]
    BY <1>3, <1>4, <1>5, <2>1, <2>2 DEF Content
  <2> QED BY <2>3 DEF Content
<1>11. StoreStep
  <2>1. \A u \in Threads : pc[u] \in Holding => key'[fid[u]] = key[fid[u]]
    <3>1. \A g \in {f} : Guarding(g) = {} BY <1>4
    <3>2. {f} \in SUBSET Frames BY <1>3
    <3>3. \A g \in Frames \ {f} : key'[g] = key[g] BY <1>7
    <3> QED BY <3>1, <3>2, <3>3, HoldersElsewhere
  <2>2. pc[t] \notin Holding BY <1>2 DEF Holding
  <2> QED BY <1>6, <1>10, <2>1, <2>2, GuardsKept, GuardStep
<1> QED BY <1>9, <1>11

(* A victim whose content is in its file gets its new identity. *)
LEMMA CommitData ==
  ASSUME IInv, IInv', DInv, NEW t \in Threads,
         pc[t] \in {"clean_ret", "write_ret"}, scratch[t] # None,
         pin[fid[t]] = 0, page[fid[t]] = disk[old[t]], Commit(t)
  PROVE  DInv' /\ StoreStep
<1> USE Distinct
<1>0. FrameTypes /\ PoolTypes BY DEF IInv, TypeOK
<1>1. PICK f : f = fid[t] OBVIOUS
<1>2. /\ f \in Frames /\ req[t] \in Keys /\ old[t] \in Keys /\ owner[f] = t
      /\ state[f] = "ready" /\ key[f] = old[t]
      /\ page_table[old[t]] = f /\ page_table[req[t]] = None
  BY <1>1, VictimFrame DEF VictimPc
<1>3. Guarding(f) = {}
  BY <1>1, <1>2, Unpinned DEF IInv
<1>4. scratch[t] = disk[req[t]]
  BY DEF DInv, LoadedPagesFresh
<1>5. /\ key' = [key EXCEPT ![f] = req[t]]
      /\ page' = [page EXCEPT ![f] = scratch[t]]
      /\ dirty' = [dirty EXCEPT ![f] = FALSE]
      /\ page_table' = [page_table EXCEPT ![old[t]] = None, ![req[t]] = f]
      /\ UNCHANGED <<state, touched, disk>>
      /\ Complete(t, f, ticket[f] + 1)
  BY <1>1 DEF Commit, Remapped
<1>6. /\ OthersKept(t) /\ pc'[t] \in {"finish", "holding"}
      /\ pc'[t] = "holding" => fid'[t] = f
  <2>1. OthersKept(t) /\ pc'[t] = AfterLoad(t, f) /\ (t \in Clients => fid'[t] = f)
    BY <1>2, <1>5, CompleteOthers DEF Opt
  <2> QED BY <1>2, <2>1 DEF AfterLoad
<1>7. \A g \in Frames \ {f} :
           /\ state'[g] = state[g] /\ key'[g] = key[g] /\ page'[g] = page[g]
           /\ dirty'[g] = dirty[g] /\ touched'[g] = touched[g]
  BY <1>0, <1>5 DEF FrameTypes
<1>8. WritersKept(t) /\ DiskKept /\ \A g \in Frames \ {f} : CleanAt(g)'
  <2>1. \A u \in Threads \ {t} : pc[u] \in Writing => fid[u] \notin {f}
    BY <1>2, NotWriters
  <2>2. pc[t] # "mutated" /\ pc'[t] # "mutated" /\ (pc'[t] \in Holding => fid'[t] \in {f})
    BY <1>2, <1>6 DEF Holding
  <2>3. {f} \in SUBSET Frames BY <1>2
  <2>4. \A k \in Keys : disk'[k] = disk[k] BY <1>5
  <2> QED BY <1>6, <1>7, <2>1, <2>2, <2>3, <2>4, FramesStep
<1>9. key'[f] = req[t] /\ page'[f] = disk[req[t]]
  BY <1>0, <1>2, <1>4, <1>5 DEF FrameTypes
<1>10. DInv'
  <2>1. CleanPagesOnDisk'
    BY <1>2, <1>5, <1>8, <1>9 DEF CleanPagesOnDisk, CleanAt
  <2>2. FreshOf(t)' /\ SnapshotOK(t)'
    BY <1>6 DEF FreshOf, SnapshotOK, Filled, Writing
  <2> QED BY <1>6, <1>8, <2>1, <2>2, DataStep
<1>11. Content' = Content
  <2>1. \A k \in Keys : k # req[t] /\ k # old[t] =>
          /\ page_table'[k] = page_table[k]
          /\ page_table[k] # None =>
               /\ page_table[k] \in Frames \ {f}
               /\ state'[page_table[k]] = state[page_table[k]]
               /\ page'[page_table[k]] = page[page_table[k]]
    BY <1>0, <1>2, <1>5, <1>7, Residence DEF PoolTypes
  <2>2. old[t] # req[t] /\ page_table'[old[t]] = None /\ page_table'[req[t]] = f
    BY <1>0, <1>2, <1>5 DEF PoolTypes
  <2>3. \A k \in Keys : Content'[k] = Content[k]
    <3> TAKE k \in Keys
    <3>1. CASE k = req[t]
      BY <1>2, <1>5, <1>9, <2>2, <3>1 DEF Content
    <3>2. CASE k = old[t]
      BY <1>1, <1>2, <1>5, <2>2, <3>2 DEF Content
    <3>3. CASE k # req[t] /\ k # old[t]
      BY <1>5, <2>1, <3>3 DEF Content
    <3> QED BY <3>1, <3>2, <3>3
  <2> QED BY <2>3 DEF Content
<1>12. StoreStep
  <2>1. \A u \in Threads : pc[u] \in Holding => key'[fid[u]] = key[fid[u]]
    <3>1. \A g \in {f} : Guarding(g) = {} BY <1>3
    <3>2. {f} \in SUBSET Frames BY <1>2
    <3>3. \A g \in Frames \ {f} : key'[g] = key[g] BY <1>7
    <3> QED BY <3>1, <3>2, <3>3, HoldersElsewhere
  <2>2. pc[t] \notin Holding BY DEF Holding
  <2> QED BY <1>6, <1>11, <2>1, <2>2, GuardsKept, GuardStep
<1> QED BY <1>10, <1>12

(* The unlocked write of the snapshot: only the file copy of a resident,   *)
(* still dirty page changes.                                               *)
LEMMA WriteBackData ==
  ASSUME IInv, IInv', DInv, NEW t \in Threads, WriteBack(t)
  PROVE  DInv' /\ StoreStep
<1> USE Distinct
<1>0. FrameTypes /\ PoolTypes /\ ThreadTypes BY DEF IInv, TypeOK
<1>1. PICK f : f = fid[t] OBVIOUS
<1>2. PICK v : disk' = [disk EXCEPT ![old[t]] = v]
  BY DEF WriteBack
<1>3. /\ pc[t] = "write_io" /\ pc' = [pc EXCEPT ![t] = "write_ret"]
      /\ UNCHANGED <<req, fid, old, scratch>>
      /\ UNCHANGED <<state, key, page, dirty, page_table, touched>>
      /\ snap' = snap \/ snap' = [snap EXCEPT ![t] = None]
  BY DEF WriteBack, pool, frames, tables
<1>4. /\ f \in Frames /\ req[t] \in Keys /\ old[t] \in Keys /\ owner[f] = t
      /\ state[f] = "ready" /\ key[f] = old[t]
      /\ page_table[old[t]] = f /\ page_table[req[t]] = None
  BY <1>1, <1>3, VictimFrame DEF VictimPc
<1>5. OthersKept(t) /\ pc'[t] = "write_ret"
  BY <1>0, <1>3 DEF OthersKept, ThreadTypes
<1>6. \A k \in Keys : k # old[t] => disk'[k] = disk[k]
  BY <1>0, <1>2 DEF PoolTypes
<1>7. WritersKept(t) /\ DiskKept /\ \A g \in Frames \ {f} : CleanAt(g)'
  <2>1. \A u \in Threads \ {t} : pc[u] \in Writing => fid[u] \notin {f}
    BY <1>4, NotWriters
  <2>2. pc[t] # "mutated" /\ pc'[t] # "mutated" /\ pc'[t] \notin Holding
    BY <1>3, <1>5 DEF Holding
  <2>3. {f} \in SUBSET Frames BY <1>4
  <2>4. \A k \in Keys : \/ disk'[k] = disk[k]
                        \/ /\ page_table[k] # None /\ page_table[k] \in {f}
                           /\ state[page_table[k]] = "ready"
    BY <1>4, <1>6
  <2>5. \A g \in Frames \ {f} :
           /\ state'[g] = state[g] /\ key'[g] = key[g] /\ page'[g] = page[g]
           /\ dirty'[g] = dirty[g] /\ touched'[g] = touched[g]
    BY <1>3
  <2> QED BY <1>5, <2>1, <2>2, <2>3, <2>4, <2>5, FramesStep
<1>8. SnapshotOK(t)
  BY DEF DInv, SnapshotCurrent
<1>9. dirty'[f]
  BY <1>1, <1>3, <1>8 DEF SnapshotOK, Writing
<1>10. CleanPagesOnDisk'
  BY <1>7, <1>9 DEF CleanPagesOnDisk, CleanAt
<1>11. FreshOf(t)'
  <2>1. scratch[t] # None => scratch[t] = disk[req[t]]
    BY <1>3 DEF DInv, LoadedPagesFresh
  <2>2. disk'[req[t]] = disk[req[t]]
    BY <1>4, <1>6
  <2> QED BY <1>3, <2>1, <2>2 DEF FreshOf
<1>12. SnapshotOK(t)'
  <2>1. Guarding(fid[t])' = Guarding(fid[t])
    BY <1>0, <1>3 DEF Guarding, ThreadTypes
  <2>2. snap'[t] # None => disk'[old[t]] = snap[t]
    BY <1>0, <1>3, <1>4 DEF WriteBack, PoolTypes, ThreadTypes
  <2>3. ~touched[f] => Guarding(fid[t]) = {} /\ page[f] = snap[t]
    BY <1>1, <1>3, <1>8 DEF SnapshotOK, Writing
  <2> QED BY <1>1, <1>3, <1>5, <1>9, <2>1, <2>2, <2>3 DEF SnapshotOK
<1>13. DInv'
  BY <1>5, <1>7, <1>10, <1>11, <1>12, DataStep
<1>14. Content' = Content
  <2>1. \A k \in Keys : Content'[k] = Content[k]
    BY <1>3, <1>4, <1>6 DEF Content
  <2> QED BY <2>1 DEF Content
<1>15. StoreStep
  <2>1. \A u \in Threads : pc[u] \in Holding => key'[fid[u]] = key[fid[u]]
    BY <1>3
  <2>2. pc[t] \notin Holding BY <1>3 DEF Holding
  <2> QED BY <1>5, <1>14, <2>1, <2>2, GuardsKept, GuardStep
<1> QED BY <1>13, <1>15

(* A change through a guard, the one step that changes a content. *)
LEMMA MutateData ==
  ASSUME IInv, IInv', DInv, NEW c \in Clients, NEW v \in Values, Mutate(c, v)
  PROVE  DInv' /\ StoreStep
<1> USE Distinct
<1>0. FrameTypes /\ PoolTypes /\ ThreadTypes BY DEF IInv, TypeOK
<1>1. PICK f : f = fid[c] OBVIOUS
<1>2. /\ pc[c] = "holding" /\ pc' = [pc EXCEPT ![c] = "mutated"]
      /\ page' = [page EXCEPT ![f] = v]
      /\ UNCHANGED <<req, fid, old, scratch, snap>>
      /\ UNCHANGED <<state, key, dirty, page_table, touched, disk>>
  BY <1>1 DEF Mutate, tables, call
<1>3. f \in Frames /\ state[f] = "ready" /\ c \in Guarding(f)
  BY <1>1, <1>2, HolderFrame DEF Guarding
<1>4. OthersKept(c) /\ pc'[c] = "mutated" /\ page'[f] = v
  BY <1>0, <1>2, <1>3 DEF OthersKept, ThreadTypes, FrameTypes
<1>5. \A g \in Frames \ {f} : page'[g] = page[g]
  BY <1>0, <1>2 DEF FrameTypes
<1>6. \A g \in Frames : Guarding(g)' = Guarding(g)
  BY <1>0, <1>2 DEF Guarding, ThreadTypes
<1>7. WritersKept(c)
  <2> SUFFICES ASSUME NEW u \in Threads \ {c}, pc[u] \in Writing
               PROVE  /\ page'[fid[u]] = page[fid[u]] \/ touched'[fid[u]]
                      /\ Guarding(fid[u])' \subseteq Guarding(fid[u])
    BY <1>2 DEF WritersKept
  <2>1. fid[u] \in Frames /\ SnapshotOK(u)
    BY WriterOwns DEF DInv, SnapshotCurrent
  <2>2. fid[u] = f => touched[f]
    BY <1>3, <2>1 DEF SnapshotOK
  <2>3. Guarding(fid[u])' \subseteq Guarding(fid[u])
    BY <1>0, <1>2 DEF Guarding, ThreadTypes
  <2> QED BY <1>2, <1>5, <2>1, <2>2, <2>3
<1>8. CleanPagesOnDisk'
  <2> SUFFICES ASSUME NEW g \in Frames, CleanAt(g) PROVE CleanAt(g)'
    BY DEF DInv, CleanPagesOnDisk, CleanAt
  <2>1. CASE g = f
    <3>1. MidMutation(f)' BY <1>1, <1>2, <1>4 DEF MidMutation
    <3> QED BY <2>1, <3>1 DEF CleanAt
  <2>2. CASE g # f
    <3>1. MidMutation(g)' = MidMutation(g)
      BY <1>0, <1>1, <1>2, <2>2 DEF MidMutation, ThreadTypes
    <3> QED BY <1>2, <1>5, <2>2, <3>1 DEF CleanAt
  <2> QED BY <2>1, <2>2
<1>9. DInv'
  <2>1. FreshOf(c)' /\ SnapshotOK(c)'
    BY <1>4 DEF FreshOf, SnapshotOK, Filled, Writing
  <2>2. DiskKept BY <1>2 DEF DiskKept
  <2> QED BY <1>4, <1>7, <1>8, <2>1, <2>2, DataStep
<1>10. StoreStep
  <2>1. PICK k \in Keys : k = key[f] /\ page_table[k] = f
    BY <1>3, Residence
  <2>2. Guard[c] = k /\ k # None
    BY <1>1, <1>2, <2>1 DEF Guard
  <2>3. Guard' = Guard
    <3>1. \A d \in Clients : Guard'[d] = Guard[d]
      BY <1>0, <1>2 DEF Guard, ThreadTypes
    <3> QED BY <3>1 DEF Guard
  <2>4. Content' = [Content EXCEPT ![k] = v]
    <3>1. \A j \in Keys : j # k => Content'[j] = Content[j]
      <4> TAKE j \in Keys
      <4>1. j # k /\ page_table[j] # None => page_table[j] \in Frames \ {f}
        BY <2>1, Residence
      <4> QED BY <1>2, <1>5, <4>1 DEF Content
    <3>2. Content'[k] = v
      BY <1>2, <1>3, <1>4, <2>1 DEF Content
    <3> QED BY <3>1, <3>2, ZenonT(40) DEF Content
  <2>5. Store!Write(c, v)
    BY <2>2, <2>3, <2>4 DEF Store!Write
  <2> QED BY <2>5 DEF StoreStep, Store!Next
<1> QED BY <1>9, <1>10

(* The holder declares its change: from here on the page counts as dirty,  *)
(* and a writer of the frame sees that it was touched.                     *)
LEMMA MarkDirtyData ==
  ASSUME IInv, IInv', DInv, NEW c \in Clients, mark_dirty(c)
  PROVE  DInv' /\ StoreStep
<1> USE Distinct
<1>0. FrameTypes /\ ThreadTypes BY DEF IInv, TypeOK
<1>1. PICK f : f = fid[c] OBVIOUS
<1>2. /\ pc[c] = "mutated" /\ pc' = [pc EXCEPT ![c] = "holding"]
      /\ dirty' = [dirty EXCEPT ![f] = TRUE] /\ touched' = Touch(f)
      /\ UNCHANGED <<req, fid, old, scratch, snap>>
      /\ UNCHANGED <<state, key, page, page_table, disk>>
  BY <1>1 DEF mark_dirty, tables, call
<1>3. f \in Frames
  BY <1>1, <1>2, HolderFrame
<1>4. OthersKept(c) /\ pc'[c] = "holding"
  BY <1>0, <1>2 DEF OthersKept, ThreadTypes
<1>5. dirty'[f] /\ \A g \in Frames \ {f} : dirty'[g] = dirty[g]
  BY <1>0, <1>2, <1>3 DEF FrameTypes
<1>6. WritersKept(c)
  <2> SUFFICES ASSUME NEW u \in Threads \ {c}, pc[u] \in Writing
               PROVE  /\ dirty'[fid[u]] = dirty[fid[u]]
                      /\ touched[fid[u]] => touched'[fid[u]]
                      /\ Guarding(fid[u])' \subseteq Guarding(fid[u])
    BY <1>2 DEF WritersKept
  <2>1. fid[u] \in Frames /\ dirty[fid[u]] = TRUE
    <3>1. SnapshotOK(u) BY DEF DInv, SnapshotCurrent
    <3>2. fid[u] \in Frames BY WriterOwns
    <3>3. dirty[fid[u]] BY <3>1 DEF SnapshotOK
    <3> QED BY <1>0, <3>2, <3>3 DEF FrameTypes
  <2>2. dirty'[fid[u]] = dirty[fid[u]]
    BY <1>0, <1>2, <1>3, <2>1 DEF FrameTypes
  <2>3. touched[fid[u]] => touched'[fid[u]]
    BY <1>0, <1>2, <1>3, <2>1, TouchMarks DEF FrameTypes
  <2>4. Guarding(fid[u])' \subseteq Guarding(fid[u])
    BY <1>0, <1>2 DEF Guarding, ThreadTypes
  <2> QED BY <2>2, <2>3, <2>4
<1>7. CleanPagesOnDisk'
  <2> SUFFICES ASSUME NEW g \in Frames, CleanAt(g) PROVE CleanAt(g)'
    BY DEF DInv, CleanPagesOnDisk, CleanAt
  <2>1. CASE g = f
    BY <1>5, <2>1 DEF CleanAt
  <2>2. CASE g # f
    <3>1. MidMutation(g)' = MidMutation(g)
      BY <1>0, <1>1, <1>2, <2>2 DEF MidMutation, ThreadTypes
    <3> QED BY <1>2, <1>5, <2>2, <3>1 DEF CleanAt
  <2> QED BY <2>1, <2>2
<1>8. DInv'
  <2>1. FreshOf(c)' /\ SnapshotOK(c)'
    BY <1>4 DEF FreshOf, SnapshotOK, Filled, Writing
  <2>2. DiskKept BY <1>2 DEF DiskKept
  <2> QED BY <1>4, <1>6, <1>7, <2>1, <2>2, DataStep
<1>9. StoreStep
  <2>1. Content' = Content BY <1>2 DEF Content
  <2>2. Guard' = Guard
    <3>1. \A d \in Clients : Guard'[d] = Guard[d]
      BY <1>0, <1>2 DEF Guard, ThreadTypes
    <3> QED BY <3>1 DEF Guard
  <2> QED BY <2>1, <2>2 DEF StoreStep, Store!vars
<1> QED BY <1>8, <1>9

(* A flush of frames that nobody is writing back. *)
LEMMA FlushData ==
  ASSUME IInv, IInv', DInv, NEW c \in Clients, OthersKept(c),
         pc[c] \notin Active, pc'[c] \notin Active,
         NEW S \in SUBSET Frames, NEW bad, FlushFrames(S, bad), page_table' = page_table,
         \A u \in Threads : pc[u] \in Writing => fid[u] \notin DirtyIn(S)
  PROVE  DInv' /\ StoreStep
<1> USE Distinct
<1>0. dirty \in [Frames -> BOOLEAN]
  BY DEF IInv, TypeOK, FrameTypes
<1>1. /\ dirty' = [f \in Frames |-> dirty[f] /\ f \notin Written(S, bad)]
      /\ bad \in Opt(DirtyIn(S))
      /\ UNCHANGED <<state, key, page, touched>>
  BY DEF FlushFrames, DirtyAfter
<1>2. DirtyIn(S) \in SUBSET Frames /\ Written(S, bad) \in SUBSET DirtyIn(S)
  BY DEF DirtyIn, Written
<1>3. \A g \in Frames \ DirtyIn(S) : dirty'[g] = dirty[g]
  BY <1>0, <1>1, <1>2
<1>4. \A k \in Keys : \/ disk'[k] = disk[k]
                      \/ /\ page_table[k] # None /\ page_table[k] \in DirtyIn(S)
                         /\ state[page_table[k]] = "ready"
  <2> TAKE k \in Keys
  <2>1. \/ disk'[k] = disk[k]
        \/ page_table[k] # None /\ page_table[k] \in Written(S, bad) \cup {bad}
    BY DEF FlushFrames
  <2>2. \/ disk'[k] = disk[k]
        \/ page_table[k] # None /\ page_table[k] \in DirtyIn(S)
    BY <1>1, <1>2, <2>1 DEF Opt
  <2> QED BY <2>2 DEF DirtyIn
<1>5. /\ pc[c] # "mutated" /\ pc'[c] # "mutated" /\ pc'[c] \notin Holding
      /\ pc[c] \notin Holding
  BY DEF Active, Holding
<1>6. WritersKept(c) /\ DiskKept /\ \A g \in Frames \ DirtyIn(S) : CleanAt(g)'
  <2>1. \A g \in Frames \ DirtyIn(S) :
           /\ state'[g] = state[g] /\ key'[g] = key[g] /\ page'[g] = page[g]
           /\ dirty'[g] = dirty[g] /\ touched'[g] = touched[g]
    BY <1>1, <1>3
  <2> QED BY <1>2, <1>4, <1>5, <2>1, FramesStep
<1>7. ASSUME NEW f \in DirtyIn(S) PROVE CleanAt(f)'
  <2>1. MidMutation(f)' = MidMutation(f)
    BY <1>5 DEF MidMutation, OthersKept, Active, Holding
  <2>2. ~dirty'[f] => f \in Written(S, bad)
    BY <1>0, <1>1, <1>2 DEF DirtyIn
  <2>3. ~dirty'[f] /\ ~MidMutation(f) => disk'[key[f]] = page[f]
    BY <2>2 DEF FlushFrames
  <2> QED BY <1>1, <2>1, <2>3 DEF CleanAt
<1>8. DInv'
  <2>1. CleanPagesOnDisk'
    BY <1>6, <1>7 DEF CleanPagesOnDisk, CleanAt
  <2>2. FreshOf(c)' /\ SnapshotOK(c)'
    BY DEF FreshOf, SnapshotOK, Filled, Writing, Active, Loading, FreePc, VictimPc
  <2> QED BY <1>6, <2>1, <2>2, DataStep
<1>9. Content' = Content
  <2>1. \A k \in Keys : Content'[k] = Content[k]
    BY <1>1, <1>4 DEF Content
  <2> QED BY <2>1 DEF Content
<1>10. StoreStep
  <2>1. \A u \in Threads : pc[u] \in Holding => key'[fid[u]] = key[fid[u]]
    BY <1>1
  <2> QED BY <1>5, <1>9, <2>1, GuardsKept, GuardStep
<1> QED BY <1>8, <1>10

(* The explicit flushes, when they are kept apart from writebacks. *)
LEMMA ExplicitFlushData ==
  ASSUME IInv, IInv', DInv, ~ConcurrentFlush, NEW c \in Clients,
         NEW S \in SUBSET Frames, Flush(c, S)
  PROVE  DInv' /\ StoreStep
<1>1. PICK bad : FlushFrames(S, bad)
  BY DEF Flush
<1>2. pc[c] = "idle" /\ UNCHANGED <<page_table, pc, req, fid, old, scratch, snap>>
  BY DEF Flush, call
<1>3. /\ OthersKept(c) /\ pc[c] \notin Active /\ pc'[c] \notin Active
  BY <1>2 DEF OthersKept, Active, Loading, FreePc, VictimPc, Holding
<1>4. \A u \in Threads : pc[u] \in Writing => fid[u] \notin DirtyIn(S)
  BY DEF Flush, FlushAllowed, Writing
<1> QED BY <1>1, <1>2, <1>3, <1>4, FlushData

(* release_table or close fails in a write. *)
LEMMA FlushFailsData ==
  ASSUME IInv, IInv', DInv, NEW c \in Clients,
         ReleaseFlushFails(c) \/ CloseFlushFails(c)
  PROVE  DInv' /\ StoreStep
<1>1. PICK where \in JoinPc : Joined(c, where) /\ LeaveJoin(c, "open")
  BY DEF ReleaseFlushFails, CloseFlushFails, JoinPc
<1>2. PICK S \in SUBSET Frames, bad \in Frames :
        FlushFrames(S, bad) /\ \A f \in S : owner[f] = None
  <2>1. CASE ReleaseFlushFails(c)
    <3>1. FramesOf(tbl[c]) \in SUBSET Frames BY DEF FramesOf
    <3>2. \A f \in FramesOf(tbl[c]) : owner[f] = None
      BY <2>1, TableUnused DEF ReleaseFlushFails
    <3> QED BY <2>1, <3>1, <3>2 DEF ReleaseFlushFails
  <2>2. CASE CloseFlushFails(c)
    BY <2>2 DEF CloseFlushFails, PoolInUse
  <2> QED BY <2>1, <2>2
<1>3. page_table' = page_table
  BY DEF ReleaseFlushFails, CloseFlushFails
<1>4. /\ OthersKept(c) /\ pc[c] \notin Active /\ pc'[c] \notin Active
  BY <1>1, LeaveJoinOthers DEF Active, Loading, FreePc, VictimPc, Holding, JoinPc
<1>5. \A u \in Threads : pc[u] \in Writing => fid[u] \notin DirtyIn(S)
  BY <1>2, WriterOwns, Distinct DEF DirtyIn
<1> QED BY <1>2, <1>3, <1>4, <1>5, FlushData

(* Unused frames are written if dirty, and become free. *)
LEMMA FreeingData ==
  ASSUME IInv, IInv', DInv, NEW c \in Clients, NEW where \in JoinPc, NEW life,
         Joined(c, where), LeaveJoin(c, life),
         NEW S \in SUBSET Frames, \A f \in S : pin[f] = 0 /\ owner[f] = None,
         reset_to_free(S),
         page_table' = [k \in Keys |-> IF page_table[k] \in S THEN None ELSE page_table[k]],
         disk' = [k \in Keys |-> IF page_table[k] \in DirtyIn(S)
                                 THEN page[page_table[k]] ELSE disk[k]]
  PROVE  DInv' /\ StoreStep
<1> USE Distinct
<1>1. /\ OthersKept(c) /\ pc[c] \notin Active /\ pc'[c] \notin Active
      /\ pc[c] \notin Holding /\ pc'[c] \notin Holding
      /\ pc[c] # "mutated" /\ pc'[c] # "mutated"
  BY LeaveJoinOthers DEF Active, Loading, FreePc, VictimPc, Holding, JoinPc
<1>2. \A f \in S : Guarding(f) = {} /\ state[f] # "loading"
  BY Unpinned DEF IInv
<1>3. \A g \in Frames \ S :
           /\ state'[g] = state[g] /\ key'[g] = key[g] /\ page'[g] = page[g]
           /\ dirty'[g] = dirty[g] /\ touched'[g] = touched[g]
  BY DEF reset_to_free
<1>4. \A f \in S : state'[f] = "free"
  BY DEF reset_to_free
<1>5. WritersKept(c) /\ DiskKept /\ \A g \in Frames \ S : CleanAt(g)'
  <2>1. \A u \in Threads \ {c} : pc[u] \in Writing => fid[u] \notin S
    BY WriterOwns
  <2>2. \A k \in Keys : \/ disk'[k] = disk[k]
                        \/ /\ page_table[k] # None /\ page_table[k] \in S
                           /\ state[page_table[k]] = "ready"
    BY DEF DirtyIn
  <2> QED BY <1>1, <1>3, <2>1, <2>2, FramesStep
<1>6. DInv'
  <2>1. CleanPagesOnDisk'
    BY <1>4, <1>5 DEF CleanPagesOnDisk, CleanAt
  <2>2. FreshOf(c)' /\ SnapshotOK(c)'
    BY <1>1 DEF FreshOf, SnapshotOK, Filled, Writing, Active, Loading, FreePc, VictimPc
  <2> QED BY <1>1, <1>5, <2>1, <2>2, DataStep
<1>7. Content' = Content
  <2>1. ASSUME NEW k \in Keys, page_table[k] \in S
        PROVE  Content'[k] = Content[k]
    <3>1. PICK f \in S : f = page_table[k] BY <2>1
    <3>2. state[f] = "ready" /\ key[f] = k /\ f # None
      BY <1>2, <3>1, Residence
    <3>3. ~MidMutation(f)
      BY <1>2 DEF MidMutation, Guarding
    <3>4. ~dirty[f] => page[f] = disk[k]
      BY <3>2, <3>3 DEF DInv, CleanPagesOnDisk
    <3>5. disk'[k] = page[f]
      BY <3>1, <3>2, <3>4 DEF DirtyIn
    <3>6. Content[k] = page[f] BY <3>1, <3>2 DEF Content
    <3>7. Content'[k] = disk'[k] BY <2>1 DEF Content
    <3> QED BY <3>5, <3>6, <3>7
  <2>2. ASSUME NEW k \in Keys, page_table[k] \notin S
        PROVE  Content'[k] = Content[k]
    <3>1. page_table'[k] = page_table[k] /\ disk'[k] = disk[k]
      BY <2>2 DEF DirtyIn
    <3>2. page_table[k] # None => page_table[k] \in Frames \ S
      BY <2>2, Residence
    <3> QED BY <1>3, <3>1, <3>2 DEF Content
  <2>3. \A k \in Keys : Content'[k] = Content[k] BY <2>1, <2>2
  <2> QED BY <2>3 DEF Content
<1>8. StoreStep
  <2>1. \A u \in Threads : pc[u] \in Holding => key'[fid[u]] = key[fid[u]]
    BY <1>2, <1>3, HoldersElsewhere
  <2> QED BY <1>1, <1>7, <2>1, GuardsKept, GuardStep
<1> QED BY <1>6, <1>8

(* release_table and close drop frames. *)
LEMMA DropData ==
  ASSUME IInv, IInv', DInv, NEW c \in Clients, ReleaseFrames(c) \/ CloseFrames(c)
  PROVE  DInv' /\ StoreStep
<1>1. CASE ReleaseFrames(c)
  <2>1. PICK S \in SUBSET Frames :
          /\ S = FramesOf(tbl[c])
          /\ Joined(c, "join_release") /\ LeaveJoin(c, "open")
          /\ reset_to_free(S)
          /\ page_table' = [k \in Keys |-> IF page_table[k] \in S THEN None ELSE page_table[k]]
          /\ disk' = [k \in Keys |-> IF page_table[k] \in DirtyIn(S)
                                     THEN page[page_table[k]] ELSE disk[k]]
    BY <1>1 DEF ReleaseFrames, FramesOf
  <2>2. \A f \in S : pin[f] = 0 /\ owner[f] = None
    BY <1>1, <2>1, TableUnused DEF ReleaseFrames
  <2> QED BY <2>1, <2>2, FreeingData DEF JoinPc
<1>2. CASE CloseFrames(c)
  <2>1. /\ Joined(c, "join_close") /\ LeaveJoin(c, "closed")
        /\ reset_to_free(Frames)
        /\ page_table' = [k \in Keys |-> None]
        /\ disk' = [k \in Keys |-> IF page_table[k] \in DirtyIn(Frames)
                                   THEN page[page_table[k]] ELSE disk[k]]
    BY <1>2 DEF CloseFrames
  <2>2. \A f \in Frames : pin[f] = 0 /\ owner[f] = None
    BY <1>2 DEF CloseFrames, PoolInUse
  <2>3. page_table' = [k \in Keys |-> IF page_table[k] \in Frames THEN None
                                     ELSE page_table[k]]
    BY <2>1 DEF IInv, TypeOK, PoolTypes, Opt
  <2> QED BY <2>1, <2>2, <2>3, FreeingData DEF JoinPc
<1> QED BY <1>1, <1>2

(***************************************************************************)
(* Every step                                                              *)
(***************************************************************************)
(* One pass of load_page's loop. *)
LEMMA LookupData ==
  ASSUME IInv, IInv', DInv, NEW t \in Threads, NEW k \in Keys,
         pc[t] \in StartPc(t), Lookup(t, k)
  PROVE  DInv' /\ StoreStep
<1>0. \A j \in Keys : page_table[j] # None => page_table[j] \in Frames
  BY DEF IInv, TypeOK, PoolTypes, Opt
<1>1. CASE Hit(t, k)
  <2>1. t \in Clients /\ pc[t] \in {"idle", "woken"}
    BY <1>1, Distinct DEF Hit, StartPc
  <2> QED BY <1>0, <1>1, <2>1, PinResidentData DEF Hit
<1>2. CASE Join(t, k)
  BY <1>2, JoinData, Distinct DEF Join, StartPc
<1>3. CASE LoadFree(t, k)
  BY <1>3, LoadFreeData
<1>4. CASE Reserve(t, k)
  BY <1>4, ReserveData
<1>5. CASE LookupFails(t, k)
  BY <1>5, ReturnData DEF LookupFails
<1> QED BY <1>1, <1>2, <1>3, <1>4, <1>5 DEF Lookup

(* The steps of a load under way. *)
LEMMA LoadStepData ==
  ASSUME IInv, IInv', DInv, NEW t \in Threads, LoadStep(t)
  PROVE  DInv' /\ StoreStep
<1>1. CASE ReadPage(t) BY <1>1, ReadPageData
<1>2. CASE PublishFree(t) BY <1>2, PublishFreeData
<1>3. CASE AbandonFree(t) BY <1>3, AbandonFreeData
<1>4. CASE CommitClean(t)
  <2>1. /\ pc[t] = "clean_ret" /\ scratch[t] # None /\ Commit(t)
        /\ state[fid[t]] = "ready" /\ dirty[fid[t]] = FALSE /\ pin[fid[t]] = 0
        /\ key[fid[t]] = old[t]
    BY <1>4 DEF CommitClean, VictimUnchanged
  <2>2. fid[t] \in Frames
    BY <2>1, VictimFrame DEF VictimPc
  <2>3. ~MidMutation(fid[t])
    BY <2>1, <2>2, Unpinned DEF IInv, MidMutation, Guarding
  <2>4. page[fid[t]] = disk[old[t]]
    BY <2>1, <2>2, <2>3 DEF DInv, CleanPagesOnDisk
  <2> QED BY <2>1, <2>4, CommitData
<1>5. CASE CancelClean(t) BY <1>5, CancelData DEF CancelClean, VictimPc
<1>6. CASE SnapshotVictim(t) BY <1>6, SnapshotVictimData
<1>7. CASE CancelDirty(t) BY <1>7, CancelData DEF CancelDirty, VictimPc
<1>8. CASE WriteBack(t) BY <1>8, WriteBackData
<1>9. CASE CommitDirty(t)
  <2>1. /\ pc[t] = "write_ret" /\ snap[t] # None /\ Commit(t)
        /\ pin[fid[t]] = 0 /\ ~touched[fid[t]]
    BY <1>9 DEF CommitDirty, VictimUnchanged
  <2>2. scratch[t] # None
    BY <2>1 DEF IInv, LocalsOK
  <2>3. page[fid[t]] = disk[old[t]]
    BY <2>1 DEF DInv, SnapshotCurrent, SnapshotOK, Writing
  <2> QED BY <2>1, <2>2, <2>3, CommitData
<1>10. CASE CancelWritten(t) BY <1>10, CancelData DEF CancelWritten, VictimPc
<1> QED
  BY <1>1, <1>2, <1>3, <1>4, <1>5, <1>6, <1>7, <1>8, <1>9, <1>10 DEF LoadStep

(* The steps of a call under way. *)
LEMMA ContinueData ==
  ASSUME IInv, IInv', DInv, NEW c \in Clients, Continue(c)
  PROVE  DInv' /\ StoreStep
<1> USE Distinct
<1>0. /\ pc[c] = "woken" => req[c] \in Keys
      /\ \A j \in Keys : page_table[j] # None => page_table[j] \in Frames
  BY DEF IInv, TypeOK, ThreadTypes, PoolTypes, LocalsOK, Opt
<1>1. CASE LoadStep(c) BY <1>1, LoadStepData
<1>2. CASE WakeReady(c)
  BY <1>0, <1>2, PinResidentData DEF WakeReady, Published
<1>3. CASE WakeRetry(c)
  BY <1>0, <1>3, LookupData DEF WakeRetry, StartPc
<1>4. CASE WakeError(c)
  BY <1>4, ReturnData DEF WakeError, StartPc
<1>5. CASE ReleaseRefused(c) \/ CloseRefused(c) BY <1>5, RefusedData
<1>6. CASE ReleaseFlushFails(c) \/ CloseFlushFails(c) BY <1>6, FlushFailsData
<1>7. CASE ReleaseFrames(c) \/ CloseFrames(c) BY <1>7, DropData
<1>8. CASE Restart(c) BY <1>8, RestartData
<1> QED
  BY <1>1, <1>2, <1>3, <1>4, <1>5, <1>6, <1>7, <1>8 DEF Continue

(* The steps that begin a call. *)
LEMMA BeginData ==
  ASSUME IInv, IInv', DInv, ~ConcurrentFlush, NEW c \in Clients, Begin(c)
  PROVE  DInv' /\ StoreStep
<1> USE Distinct
<1>1. ASSUME NEW k \in Keys, Fetch(c, k) PROVE DInv' /\ StoreStep
  BY <1>1, LookupData DEF Fetch, StartPc
<1>2. ASSUME NEW S \in SUBSET Frames, Flush(c, S) PROVE DInv' /\ StoreStep
  BY <1>2, ExplicitFlushData
<1>3. ASSUME NEW k \in Keys, flush_page(c, k) PROVE DInv' /\ StoreStep
  <2>1. {page_table[k]} \in SUBSET Frames
    BY <1>3 DEF flush_page, IInv, TypeOK, PoolTypes, Opt
  <2> QED BY <1>2, <1>3, <2>1 DEF flush_page
<1>4. CASE flush_all(c) BY <1>2, <1>4 DEF flush_all
<1>5. CASE flush_dirty_frames_for_experiment(c)
  <2>1. PICK S \in SUBSET DirtyIn({f \in Frames : pin[f] = 0}) : Flush(c, S)
    BY <1>5 DEF flush_dirty_frames_for_experiment
  <2>2. S \in SUBSET Frames BY DEF DirtyIn
  <2> QED BY <1>2, <2>1, <2>2
<1>6. ASSUME NEW k \in Keys, prefetch_page(c, k) PROVE DInv' /\ StoreStep
  BY <1>6, StandStillData DEF prefetch_page, pool, frames, tables, call
<1>7. ASSUME NEW v \in Values, Mutate(c, v) PROVE DInv' /\ StoreStep
  BY <1>7, MutateData
<1>8. CASE mark_dirty(c) BY <1>8, MarkDirtyData
<1>9. CASE ReleaseGuard(c) BY <1>9, ReleaseGuardData
<1>10. ASSUME NEW table \in Tables, release_table(c, table) PROVE DInv' /\ StoreStep
  BY <1>10, StopWorkerData DEF release_table, JoinPc
<1>11. CASE close(c)
  BY <1>11, StopWorkerData DEF close, JoinPc
<1> QED
  BY <1>1, <1>3, <1>4, <1>5, <1>6, <1>7, <1>8, <1>9, <1>10, <1>11 DEF Begin

(* The steps of the prefetch worker. *)
LEMMA WorkerStepData ==
  ASSUME IInv, IInv', DInv, WorkerStep
  PROVE  DInv' /\ StoreStep
<1> USE Distinct
<1>1. CASE LoadStep(Worker) BY <1>1, LoadStepData
<1>2. CASE WorkerExit \/ WorkerTake \/ WorkerSkip \/ WorkerFinish
  BY <1>2, WorkerLoopData
<1>3. CASE WorkerLoad
  <2>1. req[Worker] \in Keys
    BY <1>3 DEF WorkerLoad, IInv, TypeOK, ThreadTypes, LocalsOK, Opt
  <2> QED BY <1>3, <2>1, LookupData DEF WorkerLoad, StartPc
<1> QED BY <1>1, <1>2, <1>3 DEF WorkerStep

(* Every step of the pool, stuttering included. *)
LEMMA NextData ==
  ASSUME IInv, IInv', DInv, ~ConcurrentFlush, [Next]_vars
  PROVE  DInv' /\ StoreStep
<1>1. CASE WorkerStep BY <1>1, WorkerStepData
<1>2. ASSUME NEW c \in Clients, Begin(c) PROVE DInv' /\ StoreStep BY <1>2, BeginData
<1>3. ASSUME NEW c \in Clients, Continue(c) PROVE DInv' /\ StoreStep BY <1>3, ContinueData
<1>4. CASE UNCHANGED vars
  BY <1>4, StandStillData DEF vars, pool, frames, tables, call
<1> QED BY <1>1, <1>2, <1>3, <1>4 DEF Next

(* An empty pool satisfies the invariant, and is a store without guards. *)
LEMMA InitData == Init => DInv /\ Store!Init
<1> SUFFICES ASSUME Init PROVE DInv /\ Store!Init
  OBVIOUS
<1> USE Distinct
<1>1. /\ \A f \in Frames : state[f] = "free"
      /\ \A t \in Threads : pc[t] \in {"idle", "poll", "off"}
      /\ page_table = [k \in Keys |-> None] /\ disk \in [Keys -> Values]
  BY DEF Init
<1>2. DInv
  BY <1>1 DEF DInv, CleanPagesOnDisk, LoadedPagesFresh, SnapshotCurrent, SnapshotOK, Writing
<1>3. Content \in [Keys -> Values]
  BY <1>1 DEF Content
<1>4. Guard = [c \in Clients |-> None]
  BY <1>1 DEF Guard
<1> QED BY <1>2, <1>3, <1>4 DEF Store!Init

(***************************************************************************)
(* Theorems                                                                *)
(***************************************************************************)
(* The data invariant holds in every state of every behaviour in which no  *)
(* explicit flush overlaps the writeback of a frame it writes.             *)
THEOREM DataInvariance ==
  ASSUME ~ConcurrentFlush
  PROVE  Spec => []DInv
<1>1. IInv /\ IInv' /\ DInv /\ [Next]_vars => DInv'
  BY NextData
<1>2. Init => DInv BY InitData
<1> QED BY Invariance, <1>1, <1>2, PTL DEF Spec

(* A clean page that nobody is changing equals its copy in the file, so    *)
(* that load_page may replace a clean victim without writing it.           *)
THEOREM CleanPagesStayOnDisk ==
  ASSUME ~ConcurrentFlush
  PROVE  Spec => []CleanPagesOnDisk
<1>1. DInv => CleanPagesOnDisk BY DEF DInv
<1> QED BY DataInvariance, <1>1, PTL

(* What the unlocked read of load_page brought in is still what the file   *)
(* holds when it is published, whatever other threads did meanwhile.       *)
THEOREM LoadsStayFresh ==
  ASSUME ~ConcurrentFlush
  PROVE  Spec => []LoadedPagesFresh
<1>1. DInv => LoadedPagesFresh BY DEF DInv
<1> QED BY DataInvariance, <1>1, PTL

(* The pool is a page store: whatever it loads, evicts, writes back, fails *)
(* to write, prefetches, flushes, releases or closes, no page changes but  *)
(* by its holder, and no guard comes to lead to another page.              *)
THEOREM PoolImplementsPageStore ==
  ASSUME ~ConcurrentFlush
  PROVE  Spec => ImplementsPageStore
<1>1. Init => Store!Init BY InitData
<1>2. IInv /\ IInv' /\ DInv /\ [Next]_vars => [Store!Next]_(Store!vars)
  BY NextData DEF StoreStep
<1> QED BY Invariance, DataInvariance, <1>1, <1>2, PTL
        DEF Spec, ImplementsPageStore, Store!Spec
=============================================================================
