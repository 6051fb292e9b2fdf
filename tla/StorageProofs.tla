---------------------------- MODULE StorageProofs ----------------------------
(***************************************************************************)
(* Storage, proved for any tables, schemas and scenarios: a failed call is *)
(* undone completely, a directory that was closed reopens with exactly the *)
(* tables that were created, and a directory that lost something shows     *)
(* every created table with its own schema or is refused.                  *)
(***************************************************************************)
EXTENDS Storage, FiniteSetTheorems, SequenceTheorems, TLAPS

-----------------------------------------------------------------------------
(* The inductive invariant *)

RowNames == Names \cup UNION {{s[i] : i \in DOMAIN s} : s \in Schemas}

Row == [rid : Nat, kind : {"table", "column"}, id : TableIds, name : RowNames, n : Nat]

Metas == [kind : {"none", "bootstrap", "legacy"}, tables : SUBSET Tables]

CallTypes == call \in [pc : Steps, table : Tables \cup {None}, rows : Seq(Row),
                       marker : Row \cup {None}]

RowTypes ==
  /\ rows \in [pool : SUBSET Row, disk : SUBSET Row]
  /\ IsFiniteSet(rows.pool) /\ IsFiniteSet(rows.disk)

(* What the variables range over.  A table that open_storage found after a *)
(* loss may pair a name and columns that nobody asked for together, so     *)
(* nothing is said of the schemas in tables.                               *)
Types ==
  /\ scenario \in Scenarios
  /\ lifecycle \in {"closed", "opening", "open", "closing"}
  /\ cursor \in BOOLEAN
  /\ RowTypes
  /\ dir \in [meta : Metas, tmp : BOOLEAN, files : SUBSET (TableIds \cup SystemIds)]
  /\ CallTypes
  /\ created \in SUBSET Tables

Adding == {"columns", "marker", "flush", "unmark"}  \* the call adds rows

InitSteps == {"make_tables", "make_columns", "write", "rename", "load", "uninit"}

CreateSteps == Adding \cup {"undo", "unfile"}

(* Which step can be next, and who may have a cursor meanwhile. *)
Control ==
  /\ call.pc = "idle" => call = Idle
  /\ lifecycle = "closed" => call.pc = "idle"
  /\ lifecycle = "opening" => call.pc \in InitSteps
  /\ lifecycle = "open" =>
       call.pc \in {"idle"} \cup (IF Legacy THEN {"write", "rename", "unfile"} ELSE CreateSteps)
  /\ lifecycle = "closing" => call.pc \in {"idle", "write", "rename"}
  /\ call.table # None <=> lifecycle = "open" /\ call.pc # "idle"
  /\ lifecycle \in {"closed", "opening"} \/ call.pc \in Adding \cup {"undo"} => ~cursor
  /\ call.pc \in {"unmark", "undo", "uninit"} => Failures

(* The rows in the pool that are not of the call under way, those that     *)
(* are, and those the call knows of.                                       *)
Base == {r \in rows.pool : call.table = None \/ r.id # call.table.id}

Own == {r \in rows.pool : r.id = call.table.id}

Listed == {call.rows[i] : i \in DOMAIN call.rows}

Marked == IF call.pc \in {"flush", "unmark"} THEN {call.marker} ELSE {}

(* What create_table knows of the rows it has added. *)
CallRows ==
  /\ call.pc \in Adding =>
       /\ \A i \in DOMAIN call.rows :
            /\ i \in 1..Len(call.table.cols)
            /\ call.rows[i] = ColumnRow(call.rows[i].rid, call.table, i)
       /\ Listed \subseteq rows.pool
       /\ IF call.pc = "columns" THEN Len(call.rows) < Len(call.table.cols)
          ELSE Len(call.rows) = Len(call.table.cols)
  /\ call.pc \in {"flush", "unmark"} =>
       call.marker \in rows.pool /\ call.marker = TableRow(call.marker.rid, call.table)
  /\ call.pc = "undo" =>
       /\ \A i, j \in DOMAIN call.rows : call.rows[i] = call.rows[j] => i = j
       /\ \A i \in DOMAIN call.rows :
            call.rows[i].id = call.table.id /\ call.rows[i].kind = "column"

(* The table of the call under way has an id and a name of its own. *)
NewTable ==
  call.table # None =>
    /\ \A u \in tables \ {call.table} : u.id # call.table.id /\ u.name # call.table.name
    /\ call.table \in tables <=> call.pc \in {"write", "rename"}

FilesThere ==
  lifecycle = "open" =>
    /\ Ids(tables) \subseteq open_files \cap dir.files
    /\ call.table # None => call.table.id \in open_files \cap dir.files

(* No row was left behind by a failed call. *)
Clean == leftover = {} \/ ~Failures

(* The rows of the call under way apart, the pool describes the tables. *)
RowsMatch ==
  ~Legacy /\ Clean /\ lifecycle \in {"open", "closing"} =>
    /\ CatalogValid(Base) /\ CatalogTables(Base) = tables
    /\ call.table # None => Own = Listed \cup Marked
    /\ call.pc = "unfile" => call.rows = <<>>

MetaMatches ==
  ~Legacy =>
    /\ dir.meta.kind # "legacy"
    /\ dir.meta.kind = "none" \/ lifecycle = "opening" => rows.disk = {} /\ created = {}
    /\ lifecycle \in {"open", "closing"} \/ call.pc = "load" => dir.meta.kind = "bootstrap"

(* The pool is on disk before the files are closed. *)
Flushed == lifecycle = "closing" /\ lost = {} => rows.disk = rows.pool

CallFile == IF call.table = None THEN {} ELSE {call.table.id}

(* As long as nothing was left behind or lost: what the directory holds. *)
Saved ==
  ~Legacy /\ leftover = {} /\ lost = {} =>
    /\ lifecycle = "closed" =>
         \/ Fresh /\ created = {}
         \/ /\ dir.meta.kind = "bootstrap"
            /\ CatalogValid(rows.disk) /\ CatalogTables(rows.disk) = created
            /\ dir.files = SystemIds \cup Ids(created)
    /\ lifecycle = "opening" =>
         /\ call.pc \in {"make_tables", "make_columns"} => dir.meta.kind = "none" /\ ~dir.tmp
         /\ call.pc = "make_tables" => dir.files = {}
         /\ call.pc = "make_columns" => dir.files = {0}
         /\ call.pc \in {"write", "rename", "load"} => dir.files = SystemIds
    /\ lifecycle \in {"open", "closing"} =>
         /\ tables = created
         /\ dir.files = SystemIds \cup Ids(tables) \cup CallFile

(* The rows that will be found at the next open_storage if nothing is lost. *)
Current == IF lifecycle \in {"open", "closing"} THEN rows.pool ELSE rows.disk

HasMarker(R, t) == \E m \in R : m = TableRow(m.rid, t)

HasColumns(R, t) == \A i \in 1..Len(t.cols) : \E r \in R : r = ColumnRow(r.rid, t, i)

OnlyColumns(R, t) ==
  \A r \in R : r.kind = "column" /\ r.id = t.id =>
    r.n \in 1..Len(t.cols) /\ r = ColumnRow(r.rid, t, r.n)

MarkerOf(ts, m) == \E t \in ts : m = TableRow(m.rid, t)

(* Nothing was lost: the created tables have all their rows, and a marker  *)
(* that is not theirs could not be removed.                                *)
CreatedKept ==
  ~Legacy /\ lost = {} =>
    /\ \A t \in created : HasMarker(Current, t) /\ HasColumns(Current, t)
    /\ \A m \in Markers(Current) : MarkerOf(created, m) \/ m.id \in leftover \/ m \in Marked
    /\ lifecycle = "open" => created \subseteq tables

(* Nothing failed: the created tables have their markers on disk and no    *)
(* columns but their own, and every other marker is of a call that was cut *)
(* off.                                                                    *)
CommittedKept ==
  ~Legacy /\ ~Failures =>
    /\ lifecycle \in {"open", "closing"} => rows.disk \subseteq rows.pool
    /\ \A t \in created : HasMarker(rows.disk, t) /\ OnlyColumns(Current, t)
    /\ \A m \in Markers(Current) : m.id \in Ids(created) \cup begun \/ m \in Marked
    /\ lifecycle = "open" => created \subseteq tables

(* A directory of an earlier version: storage.meta has what was created. *)
LegacyMatches ==
  Legacy =>
    /\ rows.pool = {} /\ rows.disk = {}
    /\ dir.meta.kind = "legacy" /\ dir.meta.tables = created
    /\ Ids(created) \subseteq dir.files
    /\ lifecycle # "opening"
    /\ lifecycle \in {"open", "closing"} =>
         tables = created \cup (IF call.table # None /\ call.pc # "unfile"
                                THEN {call.table} ELSE {})
    /\ call.table \notin created

StorageInv ==
  /\ Types /\ Control /\ CallRows /\ NewTable /\ FilesThere /\ RowsMatch
  /\ MetaMatches /\ Flushed /\ Saved /\ CreatedKept /\ CommittedKept /\ LegacyMatches

-----------------------------------------------------------------------------
(* What load_user_catalog makes of rows *)

(* The table that it makes of marker m. *)
TableOf(R, m) ==
  [id |-> m.id, name |-> m.name,
   cols |-> [i \in {r.n : r \in ColumnsOf(R, m.id)} |->
               (CHOOSE r \in ColumnsOf(R, m.id) : r.n = i).name]]

(* A schema is a sequence of different names. *)
LEMMA SchemaSequence ==
  ASSUME NEW t \in Tables
  PROVE  /\ Len(t.cols) \in Nat \ {0} /\ DOMAIN t.cols = 1..Len(t.cols)
         /\ t.cols = [i \in 1..Len(t.cols) |-> t.cols[i]]
         /\ t.id \in TableIds /\ t.name \in Names
         /\ \A i, j \in 1..Len(t.cols) : t.cols[i] = t.cols[j] => i = j
         /\ \A i \in 1..Len(t.cols) : t.cols[i] \in RowNames
         /\ t = [id |-> t.id, name |-> t.name, cols |-> t.cols]
<1> DEFINE s == t.cols
           C == {s[i] : i \in DOMAIN s}
<1>1. s \in Schemas /\ t.id \in TableIds /\ t.name \in Names
      /\ t = [id |-> t.id, name |-> t.name, cols |-> t.cols]
  BY DEF Tables
<1>2. s # <<>> /\ s \in Seq(C) /\ \A i, j \in DOMAIN s : s[i] = s[j] => i = j
  BY <1>1, StorageAssumption
<1>3. Len(s) \in Nat /\ DOMAIN s = 1..Len(s) /\ s = [i \in 1..Len(s) |-> s[i]]
  <2> HIDE DEF C, s
  <2> QED BY <1>2
<1>4. Len(s) # 0
  BY <1>2, <1>3, EmptySeq
<1>5. \A i \in 1..Len(s) : s[i] \in RowNames
  BY <1>1, <1>3 DEF RowNames
<1> QED BY <1>1, <1>2, <1>3, <1>4, <1>5

LEMMA TablesAreMade ==
  ASSUME NEW R
  PROVE  CatalogTables(R) = {TableOf(R, m) : m \in Markers(R)}
BY DEF CatalogTables, TableOf

(* The columns of a marker are the names of its rows, in order. *)
LEMMA TableIs ==
  ASSUME NEW R, NEW m, NEW t \in Tables, m.id = t.id, m.name = t.name,
         {r.n : r \in ColumnsOf(R, t.id)} = 1..Len(t.cols),
         \A r \in ColumnsOf(R, t.id) : r.name = t.cols[r.n]
  PROVE  TableOf(R, m) = t
<1> DEFINE C == ColumnsOf(R, t.id)
           f == [i \in 1..Len(t.cols) |-> (CHOOSE r \in C : r.n = i).name]
<1>1. ASSUME NEW i \in 1..Len(t.cols)
      PROVE  (CHOOSE r \in C : r.n = i).name = t.cols[i]
  <2>1. PICK r \in C : r.n = i BY <1>1
  <2>2. (CHOOSE q \in C : q.n = i) \in C /\ (CHOOSE q \in C : q.n = i).n = i
    BY <2>1
  <2> QED BY <2>2
<1>2. f = t.cols
  BY <1>1, SchemaSequence
<1>3. TableOf(R, m) = [id |-> t.id, name |-> t.name, cols |-> f]
  BY DEF TableOf
<1> QED BY <1>2, <1>3, SchemaSequence

(* A marker makes one table, and the table names the marker. *)
LEMMA MadeOf ==
  ASSUME NEW R, NEW u \in CatalogTables(R)
  PROVE  \E m \in Markers(R) : u = TableOf(R, m) /\ u.id = m.id /\ u.name = m.name
<1>1. PICK m \in Markers(R) : u = TableOf(R, m) BY TablesAreMade
<1>2. TableOf(R, m).id = m.id /\ TableOf(R, m).name = m.name BY DEF TableOf
<1> QED BY <1>1, <1>2

(* A valid catalog has one table for an id. *)
LEMMA OneTableForId ==
  ASSUME NEW R, CatalogValid(R), NEW u \in CatalogTables(R), NEW v \in CatalogTables(R),
         u.id = v.id
  PROVE  u = v
<1>1. PICK m \in Markers(R) : u = TableOf(R, m) /\ u.id = m.id BY MadeOf
<1>2. PICK k \in Markers(R) : v = TableOf(R, k) /\ v.id = k.id BY MadeOf
<1>3. m = k BY <1>1, <1>2 DEF CatalogValid
<1> QED BY <1>1, <1>2, <1>3

LEMMA ColumnFields ==
  \A r, rid, t, i : r = ColumnRow(rid, t, i) =>
    r.rid = rid /\ r.kind = "column" /\ r.id = t.id /\ r.name = t.cols[i] /\ r.n = i
BY DEF ColumnRow

LEMMA MarkerFields ==
  \A r, rid, t : r = TableRow(rid, t) =>
    r.rid = rid /\ r.kind = "table" /\ r.id = t.id /\ r.name = t.name /\ r.n = Len(t.cols)
BY DEF TableRow

(* As many elements as there are indices. *)
LEMMA Counted ==
  ASSUME NEW n \in Nat, NEW f, \A i, j \in 1..n : f[i] = f[j] => i = j
  PROVE  /\ IsFiniteSet({f[i] : i \in 1..n}) /\ Cardinality({f[i] : i \in 1..n}) = n
<1> DEFINE S == {f[i] : i \in 1..n}
           g == [i \in 1..n |-> f[i]]
<1>1. g \in Bijection(1..n, S)
  <2>1. g \in [1..n -> S] /\ \A i \in 1..n : g[i] = f[i] OBVIOUS
  <2>2. \A y \in S : \E i \in 1..n : g[i] = y BY <2>1
  <2>3. \A i, j \in 1..n : g[i] = g[j] => i = j BY <2>1
  <2> HIDE DEF g, S
  <2> QED BY <2>1, <2>2, <2>3 DEF Bijection, Injection, Surjection, IsInjective
<1>2. ExistsBijection(1..n, S) BY <1>1 DEF ExistsBijection
<1>3. IsFiniteSet(1..n) /\ Cardinality(1..n) = n BY FS_Interval
<1> HIDE DEF S
<1>4. IsFiniteSet(S) /\ Cardinality(S) = n BY <1>2, <1>3, FS_Bijection
<1> QED BY <1>4 DEF S

(* With a marker and all its columns, a table is in every valid catalog:   *)
(* rows that were left over would be too many.                             *)
LEMMA ShownIfComplete ==
  ASSUME NEW R, IsFiniteSet(R), CatalogValid(R), NEW t \in Tables,
         HasMarker(R, t), HasColumns(R, t)
  PROVE  t \in CatalogTables(R)
<1> DEFINE n == Len(t.cols)
           C == ColumnsOf(R, t.id)
           g == [i \in 1..n |-> CHOOSE r \in R : r = ColumnRow(r.rid, t, i)]
           D == {g[i] : i \in 1..n}
<1>1. n \in Nat BY SchemaSequence
<1>2. PICK m \in R : m = TableRow(m.rid, t) BY DEF HasMarker
<1>3. m \in Markers(R) /\ m.id = t.id /\ m.name = t.name /\ m.n = n
  BY <1>2 DEF TableRow, Markers
<1>4. Cardinality(C) = n /\ {r.n : r \in C} = 1..n
  BY <1>3 DEF CatalogValid, ColumnsComplete
<1>5. ASSUME NEW i \in 1..n
      PROVE  g[i] \in R /\ g[i] = ColumnRow(g[i].rid, t, i)
  <2>1. PICK r \in R : r = ColumnRow(r.rid, t, i) BY DEF HasColumns
  <2> QED BY <2>1
<1>6. \A i \in 1..n : g[i] \in C /\ g[i].n = i /\ g[i].name = t.cols[i]
  <2> HIDE DEF g
  <2> QED BY <1>5, ColumnFields DEF ColumnsOf
<1> HIDE DEF g
<1>7. IsFiniteSet(D) /\ Cardinality(D) = n
  <2>1. \A i, j \in 1..n : g[i] = g[j] => i = j BY <1>6
  <2> HIDE DEF n
  <2> QED BY <1>1, <2>1, Counted, SMTT(40)
<1>8. IsFiniteSet(C) BY FS_Subset DEF ColumnsOf
<1>9. D \in SUBSET C BY <1>6
<1>10. C = D
  <2> HIDE DEF C, D
  <2> QED BY <1>4, <1>7, <1>8, <1>9, FS_Subset
<1>11. \A r \in C : r.name = t.cols[r.n]
  BY <1>6, <1>10
<1>12. TableOf(R, m) = t
  BY <1>3, <1>4, <1>11, TableIs
<1> QED BY <1>3, <1>12, TablesAreMade

(* So is a table with a marker that nobody else's columns can complete. *)
LEMMA ShownIfAlone ==
  ASSUME NEW R, CatalogValid(R), NEW t \in Tables,
         HasMarker(R, t), OnlyColumns(R, t)
  PROVE  t \in CatalogTables(R)
<1> DEFINE C == ColumnsOf(R, t.id)
<1>1. PICK m \in R : m = TableRow(m.rid, t) BY DEF HasMarker
<1>2. m \in Markers(R) /\ m.id = t.id /\ m.name = t.name /\ m.n = Len(t.cols)
  BY <1>1 DEF TableRow, Markers
<1>3. {r.n : r \in C} = 1..Len(t.cols)
  BY <1>2 DEF CatalogValid, ColumnsComplete
<1>4. \A r \in C : r.name = t.cols[r.n]
  BY DEF OnlyColumns, ColumnsOf, ColumnRow
<1>5. TableOf(R, m) = t
  BY <1>2, <1>3, <1>4, TableIs
<1> QED BY <1>2, <1>5, TablesAreMade

(* create_table has put in place what describes its table: the catalog is  *)
(* the old one with that table.                                            *)
LEMMA TableAdded ==
  ASSUME NEW B, CatalogValid(B), NEW t \in Tables, NEW rs, NEW m,
         \A r \in B : r.id # t.id,
         \A u \in CatalogTables(B) : u.name # t.name,
         \A i \in 1..Len(t.cols) : /\ rs[i].kind = "column" /\ rs[i].id = t.id
                                    /\ rs[i].name = t.cols[i] /\ rs[i].n = i,
         m.kind = "table", m.id = t.id, m.name = t.name, m.n = Len(t.cols)
  PROVE  LET R == B \cup {rs[i] : i \in 1..Len(t.cols)} \cup {m} IN
         CatalogValid(R) /\ CatalogTables(R) = CatalogTables(B) \cup {t}
<1> DEFINE n == Len(t.cols)
           S == {rs[i] : i \in 1..n}
           R == B \cup S \cup {m}
<1>1. n \in Nat /\ \A i, j \in 1..n : t.cols[i] = t.cols[j] => i = j
  BY SchemaSequence
<1>2. \A i \in 1..n : /\ rs[i].kind = "column" /\ rs[i].id = t.id
                      /\ rs[i].name = t.cols[i] /\ rs[i].n = i
  OBVIOUS
<1>3. m.kind = "table" /\ m.id = t.id /\ m.name = t.name /\ m.n = n
  OBVIOUS
<1>4. Cardinality(S) = n
  <2>1. n \in Nat /\ \A i, j \in 1..n : rs[i] = rs[j] => i = j BY <1>1, <1>2
  <2> HIDE DEF n
  <2>2. Cardinality({rs[i] : i \in 1..n}) = n
    BY ONLY <2>1, Counted
  <2> QED BY <2>2
<1>5. {r.n : r \in S} = 1..n /\ \A r \in S : r.name = t.cols[r.n] /\ r.n \in 1..n
  BY <1>2
<1>6. Markers(R) = Markers(B) \cup {m}
  BY <1>2, <1>3 DEF Markers
<1>7. \A k \in Markers(B) : k.id # t.id /\ k.name # t.name
  <2> SUFFICES ASSUME NEW k \in Markers(B) PROVE k.id # t.id /\ k.name # t.name
    OBVIOUS
  <2>1. TableOf(B, k) \in CatalogTables(B)
    BY TablesAreMade
  <2>2. TableOf(B, k).name = k.name
    BY DEF TableOf
  <2> QED BY <2>1, <2>2 DEF Markers
<1>8. ColumnsOf(R, t.id) = S
  BY <1>2, <1>3 DEF ColumnsOf
<1>9. \A id : id # t.id => ColumnsOf(R, id) = ColumnsOf(B, id)
  BY <1>2, <1>3 DEF ColumnsOf
<1>10. TableOf(R, m) = t
  BY <1>3, <1>5, <1>8, TableIs
<1> HIDE DEF R
<1>11. \A k \in Markers(B) : TableOf(R, k) = TableOf(B, k)
  BY <1>7, <1>9 DEF TableOf
<1>12. CatalogTables(R) = CatalogTables(B) \cup {t}
  <2>1. CatalogTables(R) = {TableOf(R, k) : k \in Markers(R)} BY TablesAreMade
  <2>2. CatalogTables(B) = {TableOf(B, k) : k \in Markers(B)} BY TablesAreMade
  <2> QED BY <2>1, <2>2, <1>6, <1>10, <1>11
<1>13. CatalogValid(R)
  <2>1. \A m1, m2 \in Markers(R) : m1.id = m2.id \/ m1.name = m2.name => m1 = m2
    BY <1>3, <1>6, <1>7 DEF CatalogValid
  <2>2. \A r \in R \ Markers(R) : r.id \in {k.id : k \in Markers(R)}
    <3>1. \A r \in B \ Markers(B) : r.id \in {k.id : k \in Markers(B)}
      BY DEF CatalogValid
    <3>2. \A r \in B : r \in Markers(R) <=> r \in Markers(B)
      BY DEF Markers, R
    <3> QED BY <1>2, <1>3, <1>6, <3>1, <3>2 DEF R
  <2>3. ColumnsComplete(R, m)
    BY <1>3, <1>4, <1>5, <1>8 DEF ColumnsComplete
  <2>4. \A r, s \in ColumnsOf(R, m.id) : r.name = s.name => r.n = s.n
    <3>1. \A r, s \in S : r.name = s.name => r.n = s.n
      <4> HIDE DEF S
      <4> QED BY <1>1, <1>5
    <3> QED BY <1>3, <1>8, <3>1
  <2>5. \A k \in Markers(B) :
          /\ ColumnsComplete(R, k)
          /\ \A r, s \in ColumnsOf(R, k.id) : r.name = s.name => r.n = s.n
    <3> SUFFICES ASSUME NEW k \in Markers(B)
                 PROVE  /\ ColumnsComplete(R, k)
                        /\ \A r, s \in ColumnsOf(R, k.id) : r.name = s.name => r.n = s.n
      OBVIOUS
    <3>1. ColumnsOf(R, k.id) = ColumnsOf(B, k.id) BY <1>7, <1>9
    <3>2. /\ ColumnsComplete(B, k)
          /\ \A r, s \in ColumnsOf(B, k.id) : r.name = s.name => r.n = s.n
      BY DEF CatalogValid
    <3> QED BY <3>1, <3>2 DEF ColumnsComplete
  <2>6. \A k \in Markers(R) :
          /\ ColumnsComplete(R, k)
          /\ \A r, s \in ColumnsOf(R, k.id) : r.name = s.name => r.n = s.n
    BY ONLY <1>6, <2>3, <2>4, <2>5
  <2> QED BY ONLY <2>1, <2>2, <2>6 DEF CatalogValid
<1> QED BY <1>12, <1>13 DEF R

(* The empty catalog. *)
LEMMA EmptyCatalog == CatalogValid({}) /\ CatalogTables({}) = {}
BY DEF CatalogValid, CatalogTables, Markers, ColumnsOf

-----------------------------------------------------------------------------
(* What an update leaves alone *)

CallIs(pc, table, added, marker) ==
  call'.pc = pc /\ call'.table = table /\ call'.rows = added /\ call'.marker = marker

LEMMA IdleCall ==
  ASSUME call = Idle
  PROVE  call.pc = "idle" /\ call.table = None /\ call.rows = <<>> /\ call.marker = None
BY DEF Idle

LEMMA CallUpdates ==
  ASSUME CallTypes
  PROVE  /\ call' = Idle => CallIs("idle", None, <<>>, None) /\ CallTypes'
         /\ \A p \in Steps : Goto(p) =>
              CallIs(p, call.table, call.rows, call.marker) /\ CallTypes'
         /\ call' = call => CallIs(call.pc, call.table, call.rows, call.marker) /\ CallTypes'
<1>1. ASSUME call' = Idle PROVE CallIs("idle", None, <<>>, None) /\ CallTypes'
  <2>1. <<>> \in Seq(Row) BY EmptySeq
  <2>2. "idle" \in Steps BY DEF Steps
  <2> QED BY <1>1, <2>1, <2>2 DEF Idle, CallTypes, CallIs
<1>2. ASSUME NEW p \in Steps, Goto(p)
      PROVE  CallIs(p, call.table, call.rows, call.marker) /\ CallTypes'
  BY <1>2 DEF Goto, CallTypes, CallIs
<1>3. ASSUME call' = call
      PROVE  CallIs(call.pc, call.table, call.rows, call.marker) /\ CallTypes'
  BY <1>3 DEF CallTypes, CallIs
<1> QED BY <1>1, <1>2, <1>3

LEMMA RowUpdates ==
  ASSUME RowTypes
  PROVE  /\ \A X : rows' = [rows EXCEPT !.pool = X] =>
              /\ rows'.pool = X /\ rows'.disk = rows.disk
              /\ X \in SUBSET Row /\ IsFiniteSet(X) => RowTypes'
         /\ \A X : rows' = [rows EXCEPT !.disk = X] =>
              /\ rows'.pool = rows.pool /\ rows'.disk = X
              /\ X \in SUBSET Row /\ IsFiniteSet(X) => RowTypes'
         /\ rows' = rows => RowTypes'
BY DEF RowTypes

LEMMA DirUpdates ==
  ASSUME Types
  PROVE  /\ \A X : dir' = [dir EXCEPT !.files = X] =>
              dir'.files = X /\ dir'.meta = dir.meta /\ dir'.tmp = dir.tmp
         /\ \A X : dir' = [dir EXCEPT !.tmp = X] =>
              dir'.files = dir.files /\ dir'.meta = dir.meta /\ dir'.tmp = X
         /\ \A X, Y : dir' = [dir EXCEPT !.meta = X, !.tmp = Y] =>
              dir'.files = dir.files /\ dir'.meta = X /\ dir'.tmp = Y
         /\ \A X, Y : dir' = [dir EXCEPT !.files = X, !.meta = Y] =>
              dir'.files = X /\ dir'.meta = Y /\ dir'.tmp = dir.tmp
BY DEF Types

RowsAre(pool, disk) == rows'.pool = pool /\ rows'.disk = disk

DirIs(meta, tmp, files) == dir'.meta = meta /\ dir'.tmp = tmp /\ dir'.files = files

SameCall(pc) == CallIs(pc, call.table, call.rows, call.marker)

IdleNext == CallIs("idle", None, <<>>, None)

Resets ==
  /\ lifecycle' = "closed" /\ tables' = {} /\ open_files' = {} /\ cursor' = FALSE
  /\ RowsAre({}, rows.disk)

Made(id) ==
  /\ DirIs(dir.meta, dir.tmp, dir.files \cup {id}) /\ open_files' = open_files \cup {id}
  /\ leftover' = leftover

NotMade(id) ==
  /\ Failures /\ open_files' = open_files
  /\ \/ dir' = dir /\ leftover' = leftover
     \/ leftover' = leftover \cup {id} /\ DirIs(dir.meta, dir.tmp, dir.files \cup {id})

(* The steps, variable by variable and field by field. *)
LEMMA MadeIs ==
  ASSUME Types, NEW id
  PROVE  (FileMade(id) => Made(id)) /\ (FileNotMade(id) => NotMade(id))
BY DirUpdates DEF FileMade, FileNotMade, NotCleaned, Made, NotMade, DirIs

LEMMA OpenEffect ==
  ASSUME Types, open_storage
  PROVE  /\ lifecycle = "closed" /\ lifecycle' = "open" /\ Openable
         /\ call.pc = "idle" /\ call.table = None /\ UNCHANGED call
         /\ tables' = Shown
         /\ open_files' = Ids(Shown) \cup (IF dir.meta.kind = "legacy" THEN {} ELSE SystemIds)
         /\ RowsAre(rows.disk, rows.disk)
         /\ UNCHANGED <<cursor, dir, created, leftover, begun, lost, scenario>>
BY RowUpdates, IdleCall DEF open_storage, Opened, RowsAre, Types

LEMMA InitializeEffect ==
  ASSUME Types, InitializeCatalog
  PROVE  /\ lifecycle = "closed" /\ lifecycle' = "opening" /\ Fresh
         /\ call.pc = "idle" /\ call.table = None
         /\ CallIs("make_tables", None, <<>>, None)
         /\ UNCHANGED <<tables, open_files, cursor, rows, dir, created, leftover, begun, lost,
                        scenario>>
BY CallUpdates, IdleCall DEF InitializeCatalog, Types, Steps

LEMMA SystemTablesEffect ==
  ASSUME Types, Control, MakeSystemTables
  PROVE  /\ lifecycle = "opening" /\ call.pc = "make_tables" /\ call.table = None
         /\ \/ Made(0) /\ SameCall("make_columns") /\ lifecycle' = "opening"
            \/ NotMade(0) /\ IdleNext /\ lifecycle' = "closed"
         /\ UNCHANGED <<tables, cursor, rows, created, begun, lost, scenario>>
<1>1. lifecycle = "opening" /\ call.pc = "make_tables" /\ call.table = None
  BY DEF MakeSystemTables, Control, CreateSteps, Adding, Types
<1> QED BY <1>1, MadeIs, CallUpdates DEF MakeSystemTables, Types, Steps, SameCall, IdleNext

LEMMA SystemColumnsEffect ==
  ASSUME Types, Control, MakeSystemColumns
  PROVE  /\ lifecycle = "opening" /\ call.pc = "make_columns" /\ call.table = None
         /\ \/ Made(1) /\ SameCall("write")
            \/ NotMade(1) /\ SameCall("uninit")
         /\ UNCHANGED <<lifecycle, tables, cursor, rows, created, begun, lost, scenario>>
<1>1. lifecycle = "opening" /\ call.pc = "make_columns" /\ call.table = None
  BY DEF MakeSystemColumns, Control, CreateSteps, Adding, Types
<1> QED BY <1>1, MadeIs, CallUpdates DEF MakeSystemColumns, Types, Steps, SameCall

LEMMA LoadEffect ==
  ASSUME Types, Control, LoadNew
  PROVE  /\ lifecycle = "opening" /\ call.pc = "load" /\ call.table = None
         /\ \/ /\ lifecycle' = "open" /\ tables' = Shown /\ RowsAre(rows.disk, rows.disk)
               /\ open_files' = Ids(Shown)
                    \cup (IF dir.meta.kind = "legacy" THEN {} ELSE SystemIds)
               /\ IdleNext
            \/ Failures /\ SameCall("uninit") /\ UNCHANGED <<lifecycle, tables, open_files, rows>>
            \/ /\ Failures /\ IdleNext /\ lifecycle' = "closed" /\ open_files' = {}
               /\ UNCHANGED <<tables, rows>>
         /\ UNCHANGED <<cursor, dir, created, leftover, begun, lost, scenario>>
<1>1. lifecycle = "opening" /\ call.pc = "load" /\ call.table = None
  BY DEF LoadNew, Control, CreateSteps, Adding, Types
<1> QED BY <1>1, RowUpdates, CallUpdates
     DEF LoadNew, Opened, RowsAre, Types, Steps, SameCall, IdleNext

LEMMA UninitEffect ==
  ASSUME Types, Control, rollback_initialization
  PROVE  /\ lifecycle = "opening" /\ call.pc = "uninit" /\ call.table = None
         /\ \E kept \in SUBSET dir.files, meta \in {NoMeta, dir.meta} :
              /\ DirIs(meta, dir.tmp, kept)
              /\ leftover' = leftover \cup kept \cup
                               (IF meta.kind # "none" \/ dir.tmp THEN SystemIds ELSE {})
         /\ IdleNext /\ lifecycle' = "closed" /\ open_files' = {}
         /\ UNCHANGED <<tables, cursor, rows, created, begun, lost, scenario>>
<1>1. lifecycle = "opening" /\ call.pc = "uninit" /\ call.table = None
  BY DEF rollback_initialization, Control, CreateSteps, Adding, Types
<1>2. PICK kept \in SUBSET dir.files, meta \in {NoMeta, dir.meta} :
        /\ dir' = [dir EXCEPT !.files = kept, !.meta = meta]
        /\ leftover' = leftover \cup kept \cup
                         (IF meta.kind # "none" \/ dir.tmp THEN SystemIds ELSE {})
  BY DEF rollback_initialization
<1>3. DirIs(meta, dir.tmp, kept) BY <1>2 DEF DirIs, Types
<1>4. IdleNext BY CallUpdates DEF rollback_initialization, IdleNext, Types
<1> QED BY <1>1, <1>2, <1>3, <1>4 DEF rollback_initialization

LEMMA WriteEffect ==
  ASSUME Types, WriteTemporary
  PROVE  /\ call.pc = "write" /\ SameCall("rename") /\ DirIs(dir.meta, TRUE, dir.files)
         /\ UNCHANGED <<lifecycle, tables, open_files, cursor, rows, created, leftover, begun,
                        lost, scenario>>
BY CallUpdates, DirUpdates DEF WriteTemporary, Types, Steps, SameCall, DirIs

LEMMA ReplaceEffect ==
  ASSUME Types, Control, ReplaceMetadata
  PROVE  /\ call.pc = "rename" /\ DirIs(NewMeta, FALSE, dir.files)
         /\ \/ /\ lifecycle = "opening" /\ SameCall("load") /\ call.table = None
               /\ UNCHANGED <<lifecycle, tables, open_files, cursor, rows, created>>
            \/ /\ lifecycle = "open" /\ Legacy /\ IdleNext /\ call.table \in Tables
               /\ created' = created \cup {call.table}
               /\ UNCHANGED <<lifecycle, tables, open_files, cursor, rows>>
            \/ lifecycle = "closing" /\ call.table = None /\ Resets /\ IdleNext
               /\ created' = created
         /\ UNCHANGED <<leftover, begun, lost, scenario>>
<1>1. call.pc = "rename" /\ DirIs(NewMeta, FALSE, dir.files)
  BY DirUpdates DEF ReplaceMetadata, DirIs
<1>2. call.table = None \/ (call.table \in Tables /\ lifecycle = "open" /\ Legacy)
  BY <1>1 DEF Control, CreateSteps, Adding, Types, CallTypes
<1>3. CASE lifecycle = "opening" /\ Goto("load")
           /\ UNCHANGED <<lifecycle, tables, open_files, cursor, rows, created>>
  BY <1>1, <1>2, <1>3, CallUpdates DEF ReplaceMetadata, Types, Steps, SameCall
<1>4. CASE lifecycle = "open" /\ call' = Idle /\ created' = created \cup {call.table}
           /\ UNCHANGED <<lifecycle, tables, open_files, cursor, rows>>
  <2>1. call.table # None BY <1>1, <1>4 DEF Control
  <2> QED BY <1>1, <1>2, <1>4, <2>1, CallUpdates DEF ReplaceMetadata, Types, IdleNext
<1>5. CASE lifecycle = "closing" /\ Reset /\ call' = Idle /\ UNCHANGED created
  <2>1. call.table = None BY <1>5 DEF Control
  <2> QED BY <1>1, <1>5, <2>1, CallUpdates, RowUpdates
       DEF ReplaceMetadata, Reset, Resets, RowsAre, Types, IdleNext
<1> QED BY <1>3, <1>4, <1>5 DEF ReplaceMetadata

LEMMA MetadataFailsEffect ==
  ASSUME Types, Control, MetadataFails
  PROVE  /\ call.pc \in {"write", "rename"} /\ Failures
         /\ dir'.meta = dir.meta /\ dir'.files = dir.files
         /\ \/ lifecycle = "opening" /\ SameCall("uninit") /\ tables' = tables
               /\ call.table = None
            \/ lifecycle = "open" /\ Legacy /\ call.table \in Tables
               /\ SameCall("unfile") /\ tables' = tables \ {call.table}
            \/ lifecycle = "closing" /\ IdleNext /\ tables' = tables /\ call.table = None
         /\ UNCHANGED <<lifecycle, open_files, cursor, rows, created, leftover, begun, lost,
                        scenario>>
<1>1. call.pc \in {"write", "rename"} /\ Failures BY DEF MetadataFails
<1>2. dir'.meta = dir.meta /\ dir'.files = dir.files
  BY DirUpdates DEF MetadataFails
<1>3. call.table = None \/ (call.table \in Tables /\ lifecycle = "open" /\ Legacy)
  BY <1>1 DEF Control, CreateSteps, Adding, Types, CallTypes
<1>4. lifecycle = "open" <=> call.table # None BY <1>1 DEF Control
<1>5. \/ lifecycle = "opening" /\ Goto("uninit") /\ tables' = tables
      \/ lifecycle = "open" /\ Goto("unfile") /\ tables' = tables \ {call.table}
      \/ lifecycle = "closing" /\ call' = Idle /\ tables' = tables
  BY DEF MetadataFails
<1>6. \/ lifecycle = "opening" /\ SameCall("uninit") /\ tables' = tables
      \/ lifecycle = "open" /\ SameCall("unfile") /\ tables' = tables \ {call.table}
      \/ lifecycle = "closing" /\ IdleNext /\ tables' = tables
  BY <1>5, CallUpdates DEF SameCall, IdleNext, Steps, Types
<1>7. UNCHANGED <<lifecycle, open_files, cursor, rows, created, leftover, begun, lost,
                  scenario>>
  BY DEF MetadataFails
<1> QED BY <1>1, <1>2, <1>3, <1>4, <1>6, <1>7

(* A free RID, if there is one. *)
LEMMA FreeRidIs ==
  ASSUME Types, HasFreeRid
  PROVE  FreeRid \in Nat
<1>1. scenario.max_rows \in Nat BY StorageAssumption DEF Types, Scenario
<1>2. FreeRid \in RowIds BY DEF HasFreeRid, FreeRid
<1> QED BY <1>1, <1>2 DEF RowIds

LEMMA CreateEffect ==
  ASSUME Types, NEW t \in Tables, create_table(t)
  PROVE  /\ Admissible(t)
         /\ \/ /\ CallIs(IF Legacy THEN "write" ELSE IF cursor THEN "unfile" ELSE "columns",
                         t, <<>>, None)
               /\ FileMade(t.id)
               /\ tables' = IF Legacy THEN tables \cup {t} ELSE tables
            \/ FileNotMade(t.id) /\ UNCHANGED <<call, tables>>
         /\ CallTypes'
<1>1. CASE FileNotMade(t.id) /\ UNCHANGED <<call, tables>>
  BY <1>1 DEF create_table, Types, CallTypes
<1>2. CASE ~(FileNotMade(t.id) /\ UNCHANGED <<call, tables>>)
  <2> DEFINE p == IF Legacy THEN "write" ELSE IF cursor THEN "unfile" ELSE "columns"
  <2>1. <<>> \in Seq(Row) /\ p \in Steps BY EmptySeq DEF Steps
  <2>2. /\ call' = [pc |-> p, table |-> t, rows |-> <<>>, marker |-> None]
        /\ Admissible(t) /\ FileMade(t.id)
        /\ tables' = IF Legacy THEN tables \cup {t} ELSE tables
    BY <1>2 DEF create_table, CatalogBusy, Types
  <2> HIDE DEF p
  <2>3. CallIs(p, t, <<>>, None) BY <2>2 DEF CallIs
  <2>4. CallTypes' BY <2>1, <2>2 DEF CallTypes
  <2> QED BY <2>2, <2>3, <2>4 DEF p
<1> QED BY <1>1, <1>2

LEMMA InsertColumnEffect ==
  ASSUME Types, Control, CallRows, InsertColumn
  PROVE  \/ Failures /\ CallIs("undo", call.table, call.rows, call.marker) /\ rows' = rows
            /\ CallTypes'
         \/ \E row \in Row :
              /\ row.kind = "column" /\ row.id = call.table.id
              /\ row = ColumnRow(row.rid, call.table, Len(call.rows) + 1)
              /\ rows'.pool = rows.pool \cup {row} /\ rows'.disk = rows.disk /\ RowTypes'
              /\ CallIs(IF Len(call.rows) + 1 = Len(call.table.cols) THEN "marker"
                        ELSE "columns",
                        call.table, Append(call.rows, row), call.marker)
              /\ CallTypes'
<1>1. CASE Failures /\ Goto("undo") /\ UNCHANGED rows
  BY <1>1, CallUpdates DEF Types, Steps
<1>2. CASE ~(Failures /\ Goto("undo") /\ UNCHANGED rows)
  <2> DEFINE i == Len(call.rows) + 1
             row == ColumnRow(FreeRid, call.table, i)
             p == IF i = Len(call.table.cols) THEN "marker" ELSE "columns"
  <2>1. /\ HasFreeRid /\ rows' = [rows EXCEPT !.pool = rows.pool \cup {row}]
        /\ call' = [call EXCEPT !.rows = Append(call.rows, row), !.pc = p]
    BY <1>2 DEF InsertColumn
  <2>2. call.pc = "columns" /\ call.table \in Tables /\ call.rows \in Seq(Row)
        /\ Len(call.rows) < Len(call.table.cols)
    BY DEF InsertColumn, Types, CallTypes, Control, CallRows, Adding, InitSteps
  <2>3. i \in 1..Len(call.table.cols) /\ i \in Nat
    BY <2>2, SchemaSequence
  <2>4. row \in Row /\ row.rid = FreeRid /\ row.kind = "column" /\ row.id = call.table.id
    BY <2>1, <2>2, <2>3, FreeRidIs, SchemaSequence DEF Row, ColumnRow
  <2>5. row = ColumnRow(row.rid, call.table, i) BY <2>4
  <2>6. p \in Steps BY DEF Steps
  <2> HIDE DEF row, p, i
  <2>7. rows.pool \cup {row} \in SUBSET Row /\ IsFiniteSet(rows.pool \cup {row})
    BY <2>4, FS_AddElement DEF Types, RowTypes
  <2>8. rows'.pool = rows.pool \cup {row} /\ rows'.disk = rows.disk /\ RowTypes'
    BY <2>1, <2>7, RowUpdates DEF Types
  <2>9. Append(call.rows, row) \in Seq(Row) BY <2>2, <2>4
  <2>10. CallIs(p, call.table, Append(call.rows, row), call.marker) /\ CallTypes'
    BY <2>1, <2>6, <2>9 DEF Types, CallTypes, CallIs
  <2>11. /\ row.kind = "column" /\ row.id = call.table.id
         /\ row = ColumnRow(row.rid, call.table, Len(call.rows) + 1)
         /\ CallIs(IF Len(call.rows) + 1 = Len(call.table.cols) THEN "marker"
                   ELSE "columns",
                   call.table, Append(call.rows, row), call.marker)
    BY <2>4, <2>5, <2>10 DEF p, i
  <2> QED BY <2>4, <2>8, <2>10, <2>11
<1> QED BY <1>1, <1>2

LEMMA InsertMarkerEffect ==
  ASSUME Types, Control, InsertMarker
  PROVE  \/ Failures /\ CallIs("undo", call.table, call.rows, call.marker) /\ rows' = rows
            /\ CallTypes'
         \/ \E row \in Row :
              /\ row.kind = "table" /\ row.id = call.table.id
              /\ row = TableRow(row.rid, call.table)
              /\ rows'.pool = rows.pool \cup {row} /\ rows'.disk = rows.disk /\ RowTypes'
              /\ CallIs("flush", call.table, call.rows, row)
              /\ CallTypes'
<1>1. CASE Failures /\ Goto("undo") /\ UNCHANGED rows
  BY <1>1, CallUpdates DEF Types, Steps
<1>2. CASE ~(Failures /\ Goto("undo") /\ UNCHANGED rows)
  <2> DEFINE row == TableRow(FreeRid, call.table)
  <2>1. /\ HasFreeRid /\ rows' = [rows EXCEPT !.pool = rows.pool \cup {row}]
        /\ call' = [call EXCEPT !.pc = "flush", !.marker = row]
    BY <1>2 DEF InsertMarker
  <2>2. call.pc = "marker" /\ call.table \in Tables
    BY DEF InsertMarker, Types, CallTypes, Control, InitSteps
  <2>4. row \in Row /\ row.rid = FreeRid /\ row.kind = "table" /\ row.id = call.table.id
    BY <2>1, <2>2, FreeRidIs, SchemaSequence DEF Row, TableRow, RowNames
  <2>5. row = TableRow(row.rid, call.table) BY <2>4
  <2> HIDE DEF row
  <2>7. rows.pool \cup {row} \in SUBSET Row /\ IsFiniteSet(rows.pool \cup {row})
    BY <2>4, FS_AddElement DEF Types, RowTypes
  <2>8. rows'.pool = rows.pool \cup {row} /\ rows'.disk = rows.disk /\ RowTypes'
    BY <2>1, <2>7, RowUpdates DEF Types
  <2>10. CallIs("flush", call.table, call.rows, row) /\ CallTypes'
    BY <2>1, <2>4 DEF Types, CallTypes, CallIs, Steps
  <2> QED BY <2>4, <2>5, <2>8, <2>10
<1> QED BY <1>1, <1>2

LEMMA UndoEffect ==
  ASSUME Types, Control, rollback_catalog_create
  PROVE  \/ /\ call.rows = <<>> /\ CallIs("unfile", call.table, <<>>, call.marker)
            /\ UNCHANGED <<rows, leftover>> /\ CallTypes'
         \/ /\ call.rows # <<>> /\ UNCHANGED leftover
            /\ rows'.pool = rows.pool \ {call.rows[1]} /\ rows'.disk = rows.disk
            /\ RowTypes'
            /\ CallIs("undo", call.table, Tail(call.rows), call.marker) /\ CallTypes'
         \/ /\ NotCleaned(call.table.id) /\ UNCHANGED rows
            /\ CallIs("unfile", call.table, call.rows, call.marker) /\ CallTypes'
<1> USE DEF Types
<1>0. call.pc = "undo" BY DEF rollback_catalog_create
<1>1. CASE call.rows = <<>> /\ Goto("unfile") /\ UNCHANGED <<rows, leftover>>
  BY <1>1, CallUpdates DEF Steps
<1>2. CASE NotCleaned(call.table.id) /\ Goto("unfile") /\ UNCHANGED rows
  BY <1>2, CallUpdates DEF Steps
<1>3. CASE /\ call.rows # <<>> /\ UNCHANGED leftover
           /\ rows' = [rows EXCEPT !.pool = rows.pool \ {Head(call.rows)}]
           /\ call' = [call EXCEPT !.rows = Tail(call.rows)]
  <2>1. call.rows \in Seq(Row) BY DEF CallTypes
  <2>2. Head(call.rows) = call.rows[1] /\ Tail(call.rows) \in Seq(Row)
    BY <1>3, <2>1
  <2>3. rows.pool \ {call.rows[1]} \in SUBSET Row /\ IsFiniteSet(rows.pool \ {call.rows[1]})
    BY FS_RemoveElement DEF RowTypes
  <2>4. rows'.pool = rows.pool \ {call.rows[1]} /\ rows'.disk = rows.disk /\ RowTypes'
    BY <1>3, <2>2, <2>3, RowUpdates
  <2>5. CallIs("undo", call.table, Tail(call.rows), call.marker) /\ CallTypes'
    BY <1>0, <1>3, <2>2 DEF CallTypes, CallIs
  <2> QED BY <1>3, <2>4, <2>5
<1> QED BY <1>1, <1>2, <1>3 DEF rollback_catalog_create

LEMMA Creating ==
  ASSUME Types, Control, call.pc \in Adding \cup {"undo"}
  PROVE  lifecycle = "open" /\ ~Legacy /\ call.table \in Tables /\ call.table # None
         /\ ~cursor
BY DEF Types, CallTypes, Control, Adding, InitSteps

LEMMA CreateTableEffect ==
  ASSUME Types, NEW t \in Tables, create_table(t)
  PROVE  /\ lifecycle = "open" /\ call.pc = "idle" /\ call.table = None /\ t # None
         /\ \A u \in tables : u.id # t.id /\ u.name # t.name
         /\ t.id \notin open_files \cup dir.files
         /\ \/ /\ Made(t.id)
               /\ CallIs(IF Legacy THEN "write" ELSE IF cursor THEN "unfile" ELSE "columns",
                         t, <<>>, None)
               /\ tables' = IF Legacy THEN tables \cup {t} ELSE tables
            \/ NotMade(t.id) /\ UNCHANGED <<call, tables>>
         /\ UNCHANGED <<lifecycle, cursor, rows, created, begun, lost, scenario>>
<1>1. t # None BY StorageAssumption DEF Tables
<1>2. UNCHANGED <<lifecycle, cursor, rows, created, begun, lost, scenario>>
  BY DEF create_table
<1> QED BY <1>1, <1>2, CreateEffect, MadeIs, IdleCall DEF Admissible

LEMMA FlushEffect ==
  ASSUME Types, Control, FlushMarker
  PROVE  /\ call.pc = "flush" /\ lifecycle = "open" /\ ~Legacy
         /\ call.table \in Tables /\ call.table # None
         /\ \/ /\ RowsAre(rows.pool, rows.disk \cup {call.marker})
               /\ tables' = tables \cup {call.table}
               /\ created' = created \cup {call.table}
               /\ IdleNext
            \/ Failures /\ SameCall("unmark") /\ UNCHANGED <<rows, tables, created>>
         /\ UNCHANGED <<lifecycle, open_files, cursor, dir, leftover, begun, lost, scenario>>
<1>1. call.pc \in Adding BY DEF FlushMarker, Adding
<1> QED BY <1>1, Creating, CallUpdates, RowUpdates
     DEF FlushMarker, Types, RowsAre, IdleNext, SameCall, Steps

LEMMA UnmarkEffect ==
  ASSUME Types, Control, DeleteMarker
  PROVE  /\ call.pc = "unmark" /\ lifecycle = "open" /\ ~Legacy /\ Failures
         /\ call.table \in Tables /\ call.table # None
         /\ SameCall("undo")
         /\ \/ RowsAre(rows.pool \ {call.marker}, rows.disk) /\ leftover' = leftover
            \/ leftover' = leftover \cup {call.table.id} /\ rows' = rows
         /\ UNCHANGED <<lifecycle, tables, open_files, cursor, dir, created, begun, lost,
                        scenario>>
<1>1. call.pc \in Adding /\ Failures BY DEF DeleteMarker, Adding, Control
<1> QED BY <1>1, Creating, CallUpdates, RowUpdates
     DEF DeleteMarker, NotCleaned, Types, RowsAre, SameCall, Steps

LEMMA UnfileEffect ==
  ASSUME Types, Control, remove_table_file
  PROVE  /\ call.pc = "unfile" /\ lifecycle = "open"
         /\ call.table \in Tables /\ call.table # None
         /\ IdleNext
         /\ \/ /\ DirIs(dir.meta, dir.tmp, dir.files \ {call.table.id})
               /\ open_files' = open_files \ {call.table.id} /\ leftover' = leftover
            \/ /\ leftover' = leftover \cup {call.table.id}
               /\ open_files' \in {open_files, open_files \ {call.table.id}} /\ dir' = dir
         /\ UNCHANGED <<lifecycle, tables, cursor, rows, created, begun, lost, scenario>>
<1>1. call.pc = "unfile" /\ lifecycle = "open" /\ call.table \in Tables /\ call.table # None
  BY DEF remove_table_file, Types, CallTypes, Control, InitSteps
<1> QED BY <1>1, CallUpdates, DirUpdates
     DEF remove_table_file, NotCleaned, Types, DirIs, IdleNext

LEMMA WriteBackEffect ==
  ASSUME Types, WriteBack
  PROVE  /\ lifecycle = "open"
         /\ \/ \E r \in rows.pool \ rows.disk : RowsAre(rows.pool, rows.disk \cup {r})
            \/ \E r \in rows.disk \ rows.pool : RowsAre(rows.pool, rows.disk \ {r})
         /\ UNCHANGED <<lifecycle, tables, open_files, cursor, dir, call, created, leftover,
                        begun, lost, scenario>>
<1>1. CASE \E r \in rows.pool \ rows.disk : rows' = [rows EXCEPT !.disk = rows.disk \cup {r}]
  BY <1>1, RowUpdates DEF WriteBack, RowsAre, Types
<1>2. CASE \E r \in rows.disk \ rows.pool : rows' = [rows EXCEPT !.disk = rows.disk \ {r}]
  BY <1>2, RowUpdates DEF WriteBack, RowsAre, Types
<1> QED BY <1>1, <1>2 DEF WriteBack

LEMMA ClosePoolEffect ==
  ASSUME Types, ClosePool
  PROVE  /\ lifecycle = "open" /\ lifecycle' = "closing"
         /\ call.pc = "idle" /\ call.table = None
         /\ \/ RowsAre(rows.pool, rows.pool) /\ lost' = lost
            \/ lost' = lost \cup {"throw"} /\ rows' = rows
         /\ UNCHANGED <<tables, open_files, cursor, dir, call, created, leftover, begun,
                        scenario>>
BY RowUpdates, IdleCall DEF ClosePool, RowsAre, Types

LEMMA CloseFilesEffect ==
  ASSUME Types, CloseFiles
  PROVE  /\ lifecycle = "closing" /\ call.pc = "idle" /\ call.table = None
         /\ CallIs("write", None, <<>>, None) \/ UNCHANGED call
         /\ UNCHANGED <<lifecycle, tables, cursor, rows, dir, created, leftover, begun, lost,
                        scenario>>
BY CallUpdates, IdleCall DEF CloseFiles, Steps, Types

LEMMA CrashEffect ==
  ASSUME Types, Crash
  PROVE  /\ lifecycle # "closed" /\ Resets /\ IdleNext
         /\ begun' = IF call.table = None THEN begun ELSE begun \cup {call.table.id}
         /\ lost' = lost \cup {"crash"}
         /\ UNCHANGED <<dir, created, leftover, scenario>>
BY CallUpdates, RowUpdates DEF Crash, Reset, Resets, RowsAre, IdleNext, Types

LEMMA ColumnStep ==
  ASSUME Types, Control, CallRows, InsertColumn
  PROVE  /\ call.pc = "columns" /\ lifecycle = "open" /\ ~Legacy
         /\ call.table \in Tables /\ call.table # None
         /\ \/ Failures /\ SameCall("undo") /\ rows' = rows
            \/ \E row \in Row :
                 /\ row.kind = "column" /\ row.id = call.table.id
                 /\ row = ColumnRow(row.rid, call.table, Len(call.rows) + 1)
                 /\ RowsAre(rows.pool \cup {row}, rows.disk)
                 /\ CallIs(IF Len(call.rows) + 1 = Len(call.table.cols) THEN "marker"
                           ELSE "columns",
                           call.table, Append(call.rows, row), call.marker)
         /\ UNCHANGED <<lifecycle, tables, open_files, cursor, dir, created, leftover, begun,
                        lost, scenario>>
<1>1. call.pc = "columns" /\ call.pc \in Adding BY DEF InsertColumn, Adding
<1>2. UNCHANGED <<lifecycle, tables, open_files, cursor, dir, created, leftover, begun,
                  lost, scenario>>
  BY DEF InsertColumn
<1> QED BY <1>1, <1>2, Creating, InsertColumnEffect DEF SameCall, RowsAre

LEMMA MarkerStep ==
  ASSUME Types, Control, InsertMarker
  PROVE  /\ call.pc = "marker" /\ lifecycle = "open" /\ ~Legacy
         /\ call.table \in Tables /\ call.table # None
         /\ \/ Failures /\ SameCall("undo") /\ rows' = rows
            \/ \E row \in Row :
                 /\ row.kind = "table" /\ row.id = call.table.id
                 /\ row = TableRow(row.rid, call.table)
                 /\ RowsAre(rows.pool \cup {row}, rows.disk)
                 /\ CallIs("flush", call.table, call.rows, row)
         /\ UNCHANGED <<lifecycle, tables, open_files, cursor, dir, created, leftover, begun,
                        lost, scenario>>
<1>1. call.pc = "marker" /\ call.pc \in Adding BY DEF InsertMarker, Adding
<1>2. UNCHANGED <<lifecycle, tables, open_files, cursor, dir, created, leftover, begun,
                  lost, scenario>>
  BY DEF InsertMarker
<1> QED BY <1>1, <1>2, Creating, InsertMarkerEffect DEF SameCall, RowsAre

LEMMA UndoStep ==
  ASSUME Types, Control, rollback_catalog_create
  PROVE  /\ call.pc = "undo" /\ lifecycle = "open" /\ ~Legacy /\ Failures
         /\ call.table \in Tables /\ call.table # None
         /\ \/ /\ call.rows = <<>> /\ SameCall("unfile") /\ UNCHANGED <<rows, leftover>>
            \/ /\ call.rows # <<>> /\ UNCHANGED leftover
               /\ RowsAre(rows.pool \ {call.rows[1]}, rows.disk)
               /\ CallIs("undo", call.table, Tail(call.rows), call.marker)
            \/ /\ leftover' = leftover \cup {call.table.id} /\ UNCHANGED rows
               /\ SameCall("unfile")
         /\ UNCHANGED <<lifecycle, tables, open_files, cursor, dir, created, begun, lost,
                        scenario>>
<1>1. call.pc = "undo" /\ call.pc \in Adding \cup {"undo"} BY DEF rollback_catalog_create
<1>2. UNCHANGED <<lifecycle, tables, open_files, cursor, dir, created, begun, lost, scenario>>
  BY DEF rollback_catalog_create
<1>3. Failures BY <1>1 DEF Control
<1> QED BY <1>1, <1>2, <1>3, Creating, UndoEffect DEF SameCall, RowsAre, NotCleaned, CallIs

-----------------------------------------------------------------------------
(* Every step keeps the invariant *)

LEMMA CallTypesStep ==
  ASSUME StorageInv, [Next]_vars
  PROVE  CallTypes'
<1> USE DEF StorageInv, Types
<1>1. CASE open_storage BY <1>1, CallUpdates
  DEF Steps, open_storage, Opened, Openable, Shown
<1>2. CASE InitializeCatalog BY <1>2, CallUpdates DEF Steps, InitializeCatalog
<1>3. CASE MakeSystemTables BY <1>3, CallUpdates
  DEF Steps, MakeSystemTables, FileMade, FileNotMade, NotCleaned
<1>4. CASE MakeSystemColumns BY <1>4, CallUpdates
  DEF Steps, MakeSystemColumns, FileMade, FileNotMade, NotCleaned
<1>5. CASE LoadNew BY <1>5, CallUpdates DEF Steps, LoadNew, Opened
<1>6. CASE rollback_initialization BY <1>6, CallUpdates DEF Steps, rollback_initialization
<1>7. CASE WriteTemporary BY <1>7, CallUpdates DEF Steps, WriteTemporary
<1>8. CASE ReplaceMetadata BY <1>8, CallUpdates DEF Steps, ReplaceMetadata, Reset, NewMeta
<1>9. CASE MetadataFails BY <1>9, CallUpdates DEF Steps, MetadataFails
<1>10. CASE \E t \in Tables : create_table(t)
  BY <1>10, CreateEffect
<1>11. CASE InsertColumn BY <1>11, InsertColumnEffect
<1>12. CASE InsertMarker BY <1>12, InsertMarkerEffect
<1>13. CASE FlushMarker BY <1>13, CallUpdates DEF Steps, FlushMarker
<1>14. CASE DeleteMarker BY <1>14, CallUpdates DEF Steps, DeleteMarker, NotCleaned
<1>15. CASE rollback_catalog_create BY <1>15, UndoEffect
<1>16. CASE remove_table_file BY <1>16, CallUpdates DEF Steps, remove_table_file, NotCleaned
<1>17. CASE ToggleCursor BY <1>17, CallUpdates DEF Steps, ToggleCursor
<1>18. CASE WriteBack BY <1>18, CallUpdates DEF Steps, WriteBack
<1>19. CASE ClosePool BY <1>19, CallUpdates DEF Steps, ClosePool
<1>20. CASE CloseFiles BY <1>20, CallUpdates DEF Steps, CloseFiles
<1>21. CASE Crash BY <1>21, CallUpdates DEF Steps, Crash, Reset
<1>22. CASE UNCHANGED vars BY <1>22, CallUpdates DEF Steps, vars
<1> QED BY <1>1, <1>2, <1>3, <1>4, <1>5, <1>6, <1>7, <1>8, <1>9, <1>10, <1>11,
          <1>12, <1>13, <1>14, <1>15, <1>16, <1>17, <1>18, <1>19, <1>20,
          <1>21, <1>22 DEF Next

LEMMA RowTypesStep ==
  ASSUME StorageInv, [Next]_vars
  PROVE  RowTypes'
<1> USE DEF StorageInv, Types
<1>1. CASE open_storage
  BY <1>1, RowUpdates DEF open_storage, Opened, RowTypes
<1>2. CASE InitializeCatalog BY <1>2, RowUpdates DEF InitializeCatalog
<1>3. CASE MakeSystemTables BY <1>3, RowUpdates
  DEF MakeSystemTables, FileMade, FileNotMade, NotCleaned
<1>4. CASE MakeSystemColumns BY <1>4, RowUpdates
  DEF MakeSystemColumns, FileMade, FileNotMade, NotCleaned
<1>5. CASE LoadNew
  BY <1>5, RowUpdates DEF LoadNew, Opened, RowTypes
<1>6. CASE rollback_initialization BY <1>6, RowUpdates DEF rollback_initialization
<1>7. CASE WriteTemporary BY <1>7, RowUpdates DEF WriteTemporary
<1>8. CASE ReplaceMetadata
  <2>1. {} \in SUBSET Row /\ IsFiniteSet({}) BY FS_EmptySet
  <2> QED BY <1>8, <2>1, RowUpdates DEF ReplaceMetadata, Reset
<1>9. CASE MetadataFails BY <1>9, RowUpdates DEF MetadataFails
<1>10. CASE \E t \in Tables : create_table(t) BY <1>10, RowUpdates
  DEF create_table, Admissible, CatalogBusy, FileMade, FileNotMade, NotCleaned
<1>11. CASE InsertColumn BY <1>11, InsertColumnEffect, RowUpdates
<1>12. CASE InsertMarker BY <1>12, InsertMarkerEffect, RowUpdates
<1>13. CASE FlushMarker
  <2>1. CASE rows' = [rows EXCEPT !.disk = rows.disk \cup {call.marker}]
    <3>1. call.marker \in Row BY <1>13, RowUpdates DEF FlushMarker, CallRows, RowTypes
    <3>2. rows.disk \cup {call.marker} \in SUBSET Row /\ IsFiniteSet(rows.disk \cup {call.marker})
      BY <3>1, FS_AddElement DEF RowTypes
    <3> QED BY <2>1, <3>2, RowUpdates
  <2>2. CASE UNCHANGED rows BY <2>2, RowUpdates
  <2> QED BY <1>13, <2>1, <2>2 DEF FlushMarker
<1>14. CASE DeleteMarker
  <2>1. rows.pool \ {call.marker} \in SUBSET Row /\ IsFiniteSet(rows.pool \ {call.marker})
    BY FS_RemoveElement DEF RowTypes
  <2> QED BY <1>14, <2>1, RowUpdates DEF DeleteMarker
<1>15. CASE rollback_catalog_create BY <1>15, UndoEffect, RowUpdates
<1>16. CASE remove_table_file BY <1>16, RowUpdates DEF remove_table_file, NotCleaned
<1>17. CASE ToggleCursor BY <1>17, RowUpdates DEF ToggleCursor
<1>18. CASE WriteBack
  <2>1. CASE \E r \in rows.pool \ rows.disk : rows' = [rows EXCEPT !.disk = rows.disk \cup {r}]
    <3>1. PICK r \in rows.pool : rows' = [rows EXCEPT !.disk = rows.disk \cup {r}] BY <2>1
    <3>2. rows.disk \cup {r} \in SUBSET Row /\ IsFiniteSet(rows.disk \cup {r})
      BY FS_AddElement DEF RowTypes
    <3> QED BY <3>1, <3>2, RowUpdates
  <2>2. CASE \E r \in rows.disk \ rows.pool : rows' = [rows EXCEPT !.disk = rows.disk \ {r}]
    <3>1. PICK r \in rows.disk : rows' = [rows EXCEPT !.disk = rows.disk \ {r}] BY <2>2
    <3>2. rows.disk \ {r} \in SUBSET Row /\ IsFiniteSet(rows.disk \ {r})
      BY FS_RemoveElement DEF RowTypes
    <3> QED BY <3>1, <3>2, RowUpdates
  <2> QED BY <1>18, <2>1, <2>2 DEF WriteBack
<1>19. CASE ClosePool BY <1>19, RowUpdates DEF ClosePool, RowTypes
<1>20. CASE CloseFiles BY <1>20, RowUpdates DEF CloseFiles
<1>21. CASE Crash
  <2>1. {} \in SUBSET Row /\ IsFiniteSet({}) BY FS_EmptySet
  <2> QED BY <1>21, <2>1, RowUpdates DEF Crash, Reset
<1>22. CASE UNCHANGED vars BY <1>22, RowUpdates DEF vars
<1> QED BY <1>1, <1>2, <1>3, <1>4, <1>5, <1>6, <1>7, <1>8, <1>9, <1>10, <1>11,
          <1>12, <1>13, <1>14, <1>15, <1>16, <1>17, <1>18, <1>19, <1>20,
          <1>21, <1>22 DEF Next

LEMMA DirTypesStep ==
  ASSUME StorageInv, [Next]_vars
  PROVE  dir' \in [meta : Metas, tmp : BOOLEAN, files : SUBSET (TableIds \cup SystemIds)]
<1> USE DEF StorageInv, Types
<1>1. CASE open_storage BY <1>1 DEF open_storage, Opened, Openable, Shown
<1>2. CASE InitializeCatalog BY <1>2 DEF InitializeCatalog
<1>3. CASE MakeSystemTables BY <1>3
  DEF MakeSystemTables, SystemIds, FileMade, FileNotMade
<1>4. CASE MakeSystemColumns BY <1>4
  DEF MakeSystemColumns, SystemIds, FileMade, FileNotMade
<1>5. CASE LoadNew BY <1>5 DEF LoadNew, Opened
<1>6. CASE rollback_initialization
  <2>1. NoMeta \in Metas BY DEF NoMeta, Metas
  <2> QED BY <1>6, <2>1 DEF rollback_initialization
<1>7. CASE WriteTemporary BY <1>7 DEF WriteTemporary
<1>8. CASE ReplaceMetadata
  <2>1. Legacy => tables \in SUBSET Tables
    BY <1>8 DEF ReplaceMetadata, Control, CallTypes, LegacyMatches, InitSteps
  <2>2. NewMeta \in Metas BY <2>1 DEF NewMeta, LegacyMeta, Bootstrap, Metas
  <2> QED BY <1>8, <2>2 DEF ReplaceMetadata
<1>9. CASE MetadataFails
  <2>1. scenario.cleanup \in BOOLEAN BY StorageAssumption DEF Scenario
  <2>2. \E tmp \in BOOLEAN : dir' = [dir EXCEPT !.tmp = tmp] BY <1>9, <2>1
    DEF MetadataFails
  <2> QED BY <2>2
<1>10. CASE \E t \in Tables : create_table(t)
  <2>1. PICK t \in Tables : create_table(t) BY <1>10
  <2>2. t.id \in TableIds BY SchemaSequence
  <2> QED BY <2>1, <2>2, CreateEffect DEF FileMade, FileNotMade
<1>11. CASE InsertColumn BY <1>11 DEF InsertColumn
<1>12. CASE InsertMarker BY <1>12 DEF InsertMarker
<1>13. CASE FlushMarker BY <1>13 DEF FlushMarker
<1>14. CASE DeleteMarker BY <1>14 DEF DeleteMarker
<1>15. CASE rollback_catalog_create BY <1>15
  DEF rollback_catalog_create
<1>16. CASE remove_table_file BY <1>16 DEF remove_table_file
<1>17. CASE ToggleCursor BY <1>17 DEF ToggleCursor
<1>18. CASE WriteBack BY <1>18 DEF WriteBack
<1>19. CASE ClosePool BY <1>19 DEF ClosePool
<1>20. CASE CloseFiles BY <1>20 DEF CloseFiles
<1>21. CASE Crash BY <1>21 DEF Crash, Reset
<1>22. CASE UNCHANGED vars BY <1>22 DEF vars
<1> QED BY <1>1, <1>2, <1>3, <1>4, <1>5, <1>6, <1>7, <1>8, <1>9, <1>10, <1>11,
          <1>12, <1>13, <1>14, <1>15, <1>16, <1>17, <1>18, <1>19, <1>20,
          <1>21, <1>22 DEF Next

LEMMA TypesStep ==
  ASSUME StorageInv, [Next]_vars
  PROVE  Types'
<1> USE DEF Types
<1>0. CallTypes' /\ RowTypes' /\ StorageInv
      /\ dir' \in [meta : Metas, tmp : BOOLEAN, files : SUBSET (TableIds \cup SystemIds)]
  BY CallTypesStep, RowTypesStep, DirTypesStep
<1> USE DEF StorageInv
<1>1. CASE open_storage BY <1>0, <1>1 DEF open_storage, Opened, Openable, Shown
<1>2. CASE InitializeCatalog BY <1>0, <1>2 DEF InitializeCatalog
<1>3. CASE MakeSystemTables BY <1>0, <1>3
  DEF MakeSystemTables
<1>4. CASE MakeSystemColumns BY <1>0, <1>4
  DEF MakeSystemColumns
<1>5. CASE LoadNew BY <1>0, <1>5 DEF LoadNew, Opened
<1>6. CASE rollback_initialization BY <1>0, <1>6 DEF rollback_initialization
<1>7. CASE WriteTemporary BY <1>0, <1>7 DEF WriteTemporary
<1>8. CASE ReplaceMetadata
  BY <1>0, <1>8 DEF ReplaceMetadata, Reset, Control, CallTypes, InitSteps
<1>9. CASE MetadataFails BY <1>0, <1>9 DEF MetadataFails
<1>10. CASE \E t \in Tables : create_table(t) BY <1>0, <1>10 DEF create_table
<1>11. CASE InsertColumn BY <1>0, <1>11 DEF InsertColumn
<1>12. CASE InsertMarker BY <1>0, <1>12 DEF InsertMarker
<1>13. CASE FlushMarker BY <1>0, <1>13 DEF FlushMarker, Control, CallTypes, InitSteps
<1>14. CASE DeleteMarker BY <1>0, <1>14 DEF DeleteMarker
<1>15. CASE rollback_catalog_create BY <1>0, <1>15
  DEF rollback_catalog_create
<1>16. CASE remove_table_file BY <1>0, <1>16 DEF remove_table_file
<1>17. CASE ToggleCursor BY <1>0, <1>17 DEF ToggleCursor
<1>18. CASE WriteBack BY <1>0, <1>18 DEF WriteBack
<1>19. CASE ClosePool BY <1>0, <1>19 DEF ClosePool
<1>20. CASE CloseFiles BY <1>0, <1>20 DEF CloseFiles
<1>21. CASE Crash BY <1>0, <1>21 DEF Crash, Reset
<1>22. CASE UNCHANGED vars BY <1>0, <1>22 DEF vars
<1> QED BY <1>0, <1>1, <1>2, <1>3, <1>4, <1>5, <1>6, <1>7, <1>8, <1>9, <1>10, <1>11,
          <1>12, <1>13, <1>14, <1>15, <1>16, <1>17, <1>18, <1>19, <1>20,
          <1>21, <1>22 DEF Next

(* The call under way goes on where the code goes on. *)
LEMMA ControlStep ==
  ASSUME StorageInv, [Next]_vars
  PROVE  Control'
<1> USE
  DEF StorageInv, Types, Control, CallIs, InitSteps, CreateSteps, Adding,
      Legacy, Failures, LegacyMatches, Steps
<1>1. CASE open_storage BY <1>1, CallUpdates, IdleCall
  DEF open_storage, Opened, Openable, Shown
<1>2. CASE InitializeCatalog BY <1>2, CallUpdates, IdleCall DEF InitializeCatalog
<1>3. CASE MakeSystemTables BY <1>3, CallUpdates, IdleCall
  DEF MakeSystemTables, FileMade, FileNotMade, NotCleaned
<1>4. CASE MakeSystemColumns BY <1>4, CallUpdates, IdleCall
  DEF MakeSystemColumns, FileMade, FileNotMade, NotCleaned
<1>5. CASE LoadNew BY <1>5, CallUpdates, IdleCall DEF LoadNew, Opened
<1>6. CASE rollback_initialization BY <1>6, CallUpdates, IdleCall
  DEF rollback_initialization
<1>7. CASE WriteTemporary BY <1>7, CallUpdates, IdleCall DEF WriteTemporary
<1>8. CASE ReplaceMetadata BY <1>8, CallUpdates, IdleCall
  DEF ReplaceMetadata, Reset, NewMeta
<1>9. CASE MetadataFails
  <2>1. call.pc \in {"write", "rename"} /\ Failures
        /\ UNCHANGED <<lifecycle, cursor, scenario>>
    BY <1>9, CallUpdates, IdleCall DEF MetadataFails
  <2>2. \/ lifecycle = "opening" /\ Goto("uninit")
        \/ lifecycle = "open" /\ Goto("unfile")
        \/ lifecycle = "closing" /\ call' = Idle
    BY <1>9, CallUpdates, IdleCall DEF MetadataFails
  <2> QED BY <2>1, <2>2, CallUpdates
<1>10. CASE \E t \in Tables : create_table(t)
  <2>1. PICK t \in Tables : create_table(t) BY <1>10
  <2>2. t # None BY StorageAssumption DEF Tables
  <2> QED BY <2>1, <2>2, CreateEffect, IdleCall
    DEF create_table, Admissible, FileNotMade
<1>11. CASE InsertColumn BY <1>11, InsertColumnEffect DEF InsertColumn
<1>12. CASE InsertMarker BY <1>12, InsertMarkerEffect DEF InsertMarker
<1>13. CASE FlushMarker BY <1>13, CallUpdates, IdleCall DEF FlushMarker
<1>14. CASE DeleteMarker BY <1>14, CallUpdates, IdleCall DEF DeleteMarker, NotCleaned
<1>15. CASE rollback_catalog_create BY <1>15, UndoEffect DEF rollback_catalog_create
<1>16. CASE remove_table_file BY <1>16, CallUpdates, IdleCall
  DEF remove_table_file, NotCleaned
<1>17. CASE ToggleCursor BY <1>17, CallUpdates, IdleCall DEF ToggleCursor
<1>18. CASE WriteBack BY <1>18, CallUpdates, IdleCall DEF WriteBack
<1>19. CASE ClosePool BY <1>19, CallUpdates, IdleCall DEF ClosePool
<1>20. CASE CloseFiles BY <1>20, CallUpdates, IdleCall DEF CloseFiles
<1>21. CASE Crash BY <1>21, CallUpdates, IdleCall DEF Crash, Reset
<1>22. CASE UNCHANGED vars BY <1>22, CallUpdates, IdleCall DEF vars
<1> QED BY <1>1, <1>2, <1>3, <1>4, <1>5, <1>6, <1>7, <1>8, <1>9, <1>10, <1>11,
          <1>12, <1>13, <1>14, <1>15, <1>16, <1>17, <1>18, <1>19, <1>20,
          <1>21, <1>22 DEF Next

(* create_table knows its rows. *)
LEMMA CallRowsStep ==
  ASSUME StorageInv, [Next]_vars
  PROVE  CallRows'
<1> USE DEF StorageInv, Types, Adding
<1>1. CASE open_storage BY <1>1, CallUpdates, IdleCall
  DEF CallRows, CallIs, Control, InitSteps, CreateSteps, Steps, open_storage, Opened,
      Openable, Shown
<1>2. CASE InitializeCatalog BY <1>2, CallUpdates, IdleCall
  DEF CallRows, CallIs, Control, InitSteps, CreateSteps, Steps, InitializeCatalog
<1>3. CASE MakeSystemTables BY <1>3, CallUpdates, IdleCall
 
    DEF CallRows, CallIs, Control, InitSteps, CreateSteps, Steps, MakeSystemTables,
        FileMade, FileNotMade, NotCleaned
<1>4. CASE MakeSystemColumns BY <1>4, CallUpdates, IdleCall
 
    DEF CallRows, CallIs, Control, InitSteps, CreateSteps, Steps, MakeSystemColumns,
        FileMade, FileNotMade, NotCleaned
<1>5. CASE LoadNew BY <1>5, CallUpdates, IdleCall
  DEF CallRows, CallIs, Control, InitSteps, CreateSteps, Steps, LoadNew, Opened
<1>6. CASE rollback_initialization BY <1>6, CallUpdates, IdleCall
  DEF CallRows, CallIs, Control, InitSteps, CreateSteps, Steps, rollback_initialization
<1>7. CASE WriteTemporary BY <1>7, CallUpdates, IdleCall
  DEF CallRows, CallIs, Control, InitSteps, CreateSteps, Steps, WriteTemporary
<1>8. CASE ReplaceMetadata BY <1>8, CallUpdates, IdleCall
  DEF CallRows, CallIs, Control, InitSteps, CreateSteps, Steps, ReplaceMetadata, Reset,
      NewMeta
<1>9. CASE MetadataFails BY <1>9, CallUpdates, IdleCall
  DEF CallRows, CallIs, Control, InitSteps, CreateSteps, Steps, MetadataFails
<1>10. CASE \E t \in Tables : create_table(t)
  <2>1. PICK t \in Tables : create_table(t) BY <1>10
  <2>2. CASE UNCHANGED call
    <3>1. call.pc = "idle" BY <2>1, CreateEffect, IdleCall DEF Admissible
    <3> QED BY <2>2, <3>1 DEF CallRows
  <2>3. CASE CallIs(IF Legacy THEN "write" ELSE IF cursor THEN "unfile" ELSE "columns",
                    t, <<>>, None)
    <3>1. call'.rows = <<>> /\ call'.table = t
          /\ call'.pc \in {"write", "unfile", "columns"}
      BY <2>3 DEF CallIs
    <3>2. DOMAIN call'.rows = {} /\ Len(call'.rows) = 0
      <4>1. call'.rows \in Seq(Row) BY CallTypesStep DEF CallTypes
      <4>2. Len(call'.rows) = 0 BY <3>1, <4>1, EmptySeq
      <4>3. DOMAIN call'.rows = 1..0 BY <4>1, <4>2
      <4> QED BY <4>2, <4>3
    <3>3. Len(t.cols) \in Nat \ {0} BY SchemaSequence
    <3>4. Len(t.cols) \in Nat /\ Len(t.cols) > 0 BY ONLY <3>3
    <3> QED BY <3>1, <3>2, <3>4 DEF CallRows, Listed
  <2> QED BY <2>1, <2>2, <2>3, CreateEffect
<1>11. CASE InsertColumn
  <2>0. call.pc = "columns" BY <1>11, CallUpdates, IdleCall
    DEF CallRows, CallIs, Control, InitSteps, CreateSteps, Steps, InsertColumn
  <2>1. CASE CallIs("undo", call.table, call.rows, call.marker) /\ rows' = rows
    <3>1. \A i \in DOMAIN call.rows :
            /\ call.rows[i].n = i
            /\ call.rows[i].id = call.table.id /\ call.rows[i].kind = "column"
      BY <2>0, ColumnFields DEF CallRows
    <3> QED BY <2>1, <3>1 DEF CallRows, CallIs
  <2>2. ASSUME NEW row \in Row,
               row = ColumnRow(row.rid, call.table, Len(call.rows) + 1),
               rows'.pool = rows.pool \cup {row},
               CallIs(IF Len(call.rows) + 1 = Len(call.table.cols) THEN "marker"
                      ELSE "columns",
                      call.table, Append(call.rows, row), call.marker)
        PROVE  CallRows'
    <3> DEFINE n == Len(call.rows)
               s == Append(call.rows, row)
    <3>1. n \in Nat /\ n < Len(call.table.cols) /\ Len(call.table.cols) \in Nat
      BY <2>0, SchemaSequence DEF CallRows, CallTypes, Control, InitSteps
    <3>2. /\ DOMAIN s = 1..n + 1 /\ Len(s) = n + 1 /\ s[n + 1] = row
          /\ \A i \in 1..n : s[i] = call.rows[i] /\ i \in DOMAIN call.rows
      BY DEF CallTypes
    <3> HIDE DEF s, n
    <3>3. \A i \in DOMAIN s : /\ i \in 1..Len(call.table.cols)
                             /\ s[i] = ColumnRow(s[i].rid, call.table, i)
      <4>1. ASSUME NEW i \in 1..n
            PROVE  /\ i \in 1..Len(call.table.cols)
                   /\ s[i] = ColumnRow(s[i].rid, call.table, i)
        BY <2>0, <3>2 DEF CallRows
      <4>2. /\ n + 1 \in 1..Len(call.table.cols)
            /\ s[n + 1] = ColumnRow(s[n + 1].rid, call.table, n + 1)
        BY <2>2, <3>1, <3>2 DEF n
      <4>3. \A i \in DOMAIN s : i \in 1..n \/ i = n + 1 BY <3>1, <3>2
      <4> QED BY <4>1, <4>2, <4>3
    <3>4. {s[i] : i \in DOMAIN s} \subseteq rows'.pool
      <4>1. ASSUME NEW i \in DOMAIN s PROVE s[i] \in rows'.pool
        BY <2>0, <2>2, <3>1, <3>2 DEF CallRows, Listed
      <4> QED BY <4>1
    <3>5. /\ call'.rows = s /\ call'.table = call.table
          /\ call'.pc = IF n + 1 = Len(call.table.cols) THEN "marker" ELSE "columns"
      BY <2>2 DEF CallIs, s, n
    <3> QED BY <3>1, <3>2, <3>3, <3>4, <3>5 DEF CallRows, Listed
  <2> QED BY <1>11, <2>1, <2>2, InsertColumnEffect
<1>12. CASE InsertMarker
  <2>0. call.pc = "marker" BY <1>12, CallUpdates, IdleCall
    DEF CallRows, CallIs, Control, InitSteps, CreateSteps, Steps, InsertMarker
  <2>1. CASE CallIs("undo", call.table, call.rows, call.marker) /\ rows' = rows
    <3>1. \A i \in DOMAIN call.rows :
            /\ call.rows[i].n = i
            /\ call.rows[i].id = call.table.id /\ call.rows[i].kind = "column"
      BY <2>0, ColumnFields DEF CallRows
    <3> QED BY <2>1, <3>1 DEF CallRows, CallIs
  <2>2. ASSUME NEW row \in Row, row = TableRow(row.rid, call.table),
               rows'.pool = rows.pool \cup {row},
               CallIs("flush", call.table, call.rows, row)
        PROVE  CallRows'
    BY <2>0, <2>2 DEF CallRows, CallIs, Listed
  <2> QED BY <1>12, <2>1, <2>2, InsertMarkerEffect
<1>13. CASE FlushMarker
  <2>1. CASE call' = Idle BY <2>1, CallUpdates DEF CallRows, CallIs
  <2>2. CASE Goto("unmark") /\ rows' = rows
    BY <1>13, <2>2, CallUpdates DEF FlushMarker, CallRows, Listed, CallIs, Steps
  <2> QED BY <1>13, <2>1, <2>2 DEF FlushMarker
<1>14. CASE DeleteMarker
  <2>1. CallIs("undo", call.table, call.rows, call.marker)
    BY <1>14, CallUpdates DEF DeleteMarker, Steps
  <2>2. \A i \in DOMAIN call.rows :
          /\ call.rows[i].n = i
          /\ call.rows[i].id = call.table.id /\ call.rows[i].kind = "column"
    BY <1>14, ColumnFields DEF DeleteMarker, CallRows
  <2> QED BY <2>1, <2>2 DEF CallRows, CallIs
<1>15. CASE rollback_catalog_create
  <2>0. call.pc = "undo" BY <1>15, CallUpdates, IdleCall
    DEF CallRows, CallIs, Control, InitSteps, CreateSteps, Steps, rollback_catalog_create
  <2>1. CASE call'.pc = "unfile" BY <2>1 DEF CallRows
  <2>2. CASE call.rows # <<>> /\ CallIs("undo", call.table, Tail(call.rows), call.marker)
    <3>1. call.rows \in Seq(Row) BY DEF CallTypes
    <3>2. \A i \in DOMAIN Tail(call.rows) :
            i + 1 \in DOMAIN call.rows /\ Tail(call.rows)[i] = call.rows[i + 1] /\ i \in Nat
      BY <2>2, <3>1
    <3>3. call'.rows = Tail(call.rows) /\ call'.table = call.table /\ call'.pc = "undo"
      BY <2>2 DEF CallIs
    <3>4. \A i, j \in DOMAIN Tail(call.rows) :
            Tail(call.rows)[i] = Tail(call.rows)[j] => i = j
      BY <2>0, <3>2 DEF CallRows
    <3> QED BY <2>0, <3>2, <3>3, <3>4 DEF CallRows
  <2> QED BY <1>15, <2>1, <2>2, UndoEffect DEF CallIs
<1>16. CASE remove_table_file BY <1>16, CallUpdates, IdleCall
  DEF CallRows, CallIs, Control, InitSteps, CreateSteps, Steps, remove_table_file,
      NotCleaned
<1>17. CASE ToggleCursor BY <1>17, CallUpdates, IdleCall
  DEF CallRows, CallIs, Control, InitSteps, CreateSteps, Steps, ToggleCursor
<1>18. CASE WriteBack
  BY <1>18, CallUpdates, RowUpdates DEF WriteBack, CallRows, Listed, CallIs
<1>19. CASE ClosePool BY <1>19, CallUpdates, IdleCall
  DEF CallRows, CallIs, Control, InitSteps, CreateSteps, Steps, ClosePool
<1>20. CASE CloseFiles BY <1>20, CallUpdates, IdleCall
  DEF CallRows, CallIs, Control, InitSteps, CreateSteps, Steps, CloseFiles
<1>21. CASE Crash BY <1>21, CallUpdates, IdleCall
  DEF CallRows, CallIs, Control, InitSteps, CreateSteps, Steps, Crash, Reset
<1>22. CASE UNCHANGED vars
  BY <1>22, CallUpdates, IdleCall
    DEF CallRows, CallIs, Control, InitSteps, CreateSteps, Steps, vars, CallRows, Listed
<1> QED BY <1>1, <1>2, <1>3, <1>4, <1>5, <1>6, <1>7, <1>8, <1>9, <1>10, <1>11,
          <1>12, <1>13, <1>14, <1>15, <1>16, <1>17, <1>18, <1>19, <1>20,
          <1>21, <1>22 DEF Next

(* No table is called None. *)
LEMMA NoneIsNoTable == None \notin Tables
BY StorageAssumption DEF Tables

(* The table of a call is not there yet. *)
LEMMA NewTableStep ==
  ASSUME StorageInv, [Next]_vars
  PROVE  NewTable'
<1> USE DEF StorageInv, CallIs, SameCall, IdleNext, RowsAre, DirIs, Made, NotMade,
            Resets, NewTable
<1>1. CASE open_storage BY <1>1, OpenEffect
<1>2. CASE InitializeCatalog BY <1>2, InitializeEffect
<1>3. CASE MakeSystemTables BY <1>3, SystemTablesEffect
<1>4. CASE MakeSystemColumns BY <1>4, SystemColumnsEffect
<1>5. CASE LoadNew BY <1>5, LoadEffect
<1>6. CASE rollback_initialization BY <1>6, UninitEffect
<1>7. CASE WriteTemporary BY <1>7, WriteEffect
<1>8. CASE ReplaceMetadata BY <1>8, ReplaceEffect DEF Control
<1>9. CASE MetadataFails BY <1>9, MetadataFailsEffect
<1>10. CASE \E t \in Tables : create_table(t)
  BY <1>10, CreateTableEffect
<1>11. CASE InsertColumn BY <1>11, ColumnStep
<1>12. CASE InsertMarker BY <1>12, MarkerStep
<1>13. CASE FlushMarker BY <1>13, FlushEffect
<1>14. CASE DeleteMarker BY <1>14, UnmarkEffect
<1>15. CASE rollback_catalog_create BY <1>15, UndoStep
<1>16. CASE remove_table_file BY <1>16, UnfileEffect
<1>17. CASE ToggleCursor BY <1>17 DEF ToggleCursor
<1>18. CASE WriteBack BY <1>18, WriteBackEffect
<1>19. CASE ClosePool BY <1>19, ClosePoolEffect
<1>20. CASE CloseFiles BY <1>20, CloseFilesEffect
<1>21. CASE Crash BY <1>21, CrashEffect
<1>22. CASE UNCHANGED vars BY <1>22 DEF vars
<1> QED BY <1>1, <1>2, <1>3, <1>4, <1>5, <1>6, <1>7, <1>8, <1>9, <1>10, <1>11,
          <1>12, <1>13, <1>14, <1>15, <1>16, <1>17, <1>18, <1>19, <1>20, <1>21,
          <1>22 DEF Next

(* The files of the tables are open. *)
LEMMA FilesThereStep ==
  ASSUME StorageInv, [Next]_vars
  PROVE  FilesThere'
<1> USE DEF StorageInv, CallIs, SameCall, IdleNext, RowsAre, DirIs, Made, NotMade,
            Resets, FilesThere, NewTable, Ids
<1>1. CASE open_storage BY <1>1, OpenEffect DEF Openable, Shown, FilesMatch
<1>2. CASE InitializeCatalog BY <1>2, InitializeEffect
<1>3. CASE MakeSystemTables BY <1>3, SystemTablesEffect
<1>4. CASE MakeSystemColumns BY <1>4, SystemColumnsEffect
<1>5. CASE LoadNew
  <2>1. ~Legacy /\ rows.disk = {} /\ dir.meta.kind = "bootstrap"
    BY <1>5, LoadEffect DEF MetaMatches, LegacyMatches
  <2>2. Shown = {} /\ Ids(Shown) = {} BY <2>1, EmptyCatalog DEF Shown, Ids
  <2> QED BY <1>5, <2>2, LoadEffect
<1>6. CASE rollback_initialization BY <1>6, UninitEffect
<1>7. CASE WriteTemporary BY <1>7, WriteEffect
<1>8. CASE ReplaceMetadata BY <1>8, ReplaceEffect
<1>9. CASE MetadataFails BY <1>9, MetadataFailsEffect
<1>10. CASE \E t \in Tables : create_table(t) BY <1>10, CreateTableEffect
<1>11. CASE InsertColumn BY <1>11, ColumnStep
<1>12. CASE InsertMarker BY <1>12, MarkerStep
<1>13. CASE FlushMarker BY <1>13, FlushEffect
<1>14. CASE DeleteMarker BY <1>14, UnmarkEffect
<1>15. CASE rollback_catalog_create BY <1>15, UndoStep
<1>16. CASE remove_table_file BY <1>16, UnfileEffect
<1>17. CASE ToggleCursor BY <1>17 DEF ToggleCursor
<1>18. CASE WriteBack BY <1>18, WriteBackEffect
<1>19. CASE ClosePool BY <1>19, ClosePoolEffect
<1>20. CASE CloseFiles BY <1>20, CloseFilesEffect
<1>21. CASE Crash BY <1>21, CrashEffect
<1>22. CASE UNCHANGED vars BY <1>22 DEF vars
<1> QED BY <1>1, <1>2, <1>3, <1>4, <1>5, <1>6, <1>7, <1>8, <1>9, <1>10, <1>11,
          <1>12, <1>13, <1>14, <1>15, <1>16, <1>17, <1>18, <1>19, <1>20, <1>21,
          <1>22 DEF Next

(* storage.meta is there before the first row is. *)
LEMMA MetaMatchesStep ==
  ASSUME StorageInv, [Next]_vars
  PROVE  MetaMatches'
<1> USE DEF StorageInv, CallIs, SameCall, IdleNext, RowsAre, DirIs, Made, NotMade,
            Resets, MetaMatches, Legacy
<1>1. CASE open_storage BY <1>1, OpenEffect DEF Openable
<1>2. CASE InitializeCatalog BY <1>2, InitializeEffect DEF Fresh
<1>3. CASE MakeSystemTables BY <1>3, SystemTablesEffect
<1>4. CASE MakeSystemColumns BY <1>4, SystemColumnsEffect
<1>5. CASE LoadNew BY <1>5, LoadEffect DEF LegacyMatches
<1>6. CASE rollback_initialization BY <1>6, UninitEffect DEF NoMeta
<1>7. CASE WriteTemporary BY <1>7, WriteEffect DEF Control
<1>8. CASE ReplaceMetadata
  <2>1. ~Legacy => NewMeta.kind = "bootstrap" BY DEF NewMeta, Bootstrap
  <2> QED BY <1>8, <2>1, ReplaceEffect
<1>9. CASE MetadataFails BY <1>9, MetadataFailsEffect
<1>10. CASE \E t \in Tables : create_table(t) BY <1>10, CreateTableEffect
<1>11. CASE InsertColumn BY <1>11, ColumnStep
<1>12. CASE InsertMarker BY <1>12, MarkerStep
<1>13. CASE FlushMarker BY <1>13, FlushEffect
<1>14. CASE DeleteMarker BY <1>14, UnmarkEffect
<1>15. CASE rollback_catalog_create BY <1>15, UndoStep
<1>16. CASE remove_table_file BY <1>16, UnfileEffect
<1>17. CASE ToggleCursor BY <1>17 DEF ToggleCursor
<1>18. CASE WriteBack BY <1>18, WriteBackEffect
<1>19. CASE ClosePool BY <1>19, ClosePoolEffect DEF Control
<1>20. CASE CloseFiles BY <1>20, CloseFilesEffect DEF Control
<1>21. CASE Crash BY <1>21, CrashEffect
<1>22. CASE UNCHANGED vars BY <1>22 DEF vars
<1> QED BY <1>1, <1>2, <1>3, <1>4, <1>5, <1>6, <1>7, <1>8, <1>9, <1>10, <1>11,
          <1>12, <1>13, <1>14, <1>15, <1>16, <1>17, <1>18, <1>19, <1>20, <1>21,
          <1>22 DEF Next

(* Nothing changes the pool after it was flushed. *)
LEMMA FlushedStep ==
  ASSUME StorageInv, [Next]_vars
  PROVE  Flushed'
<1> USE DEF StorageInv, CallIs, SameCall, IdleNext, RowsAre, DirIs, Made, NotMade,
            Resets, Flushed
<1>1. CASE open_storage BY <1>1, OpenEffect
<1>2. CASE InitializeCatalog BY <1>2, InitializeEffect
<1>3. CASE MakeSystemTables BY <1>3, SystemTablesEffect
<1>4. CASE MakeSystemColumns BY <1>4, SystemColumnsEffect
<1>5. CASE LoadNew BY <1>5, LoadEffect
<1>6. CASE rollback_initialization BY <1>6, UninitEffect
<1>7. CASE WriteTemporary BY <1>7, WriteEffect
<1>8. CASE ReplaceMetadata BY <1>8, ReplaceEffect
<1>9. CASE MetadataFails BY <1>9, MetadataFailsEffect
<1>10. CASE \E t \in Tables : create_table(t) BY <1>10, CreateTableEffect
<1>11. CASE InsertColumn BY <1>11, ColumnStep
<1>12. CASE InsertMarker BY <1>12, MarkerStep
<1>13. CASE FlushMarker BY <1>13, FlushEffect
<1>14. CASE DeleteMarker BY <1>14, UnmarkEffect
<1>15. CASE rollback_catalog_create BY <1>15, UndoStep
<1>16. CASE remove_table_file BY <1>16, UnfileEffect
<1>17. CASE ToggleCursor BY <1>17 DEF ToggleCursor
<1>18. CASE WriteBack BY <1>18, WriteBackEffect
<1>19. CASE ClosePool BY <1>19, ClosePoolEffect
<1>20. CASE CloseFiles BY <1>20, CloseFilesEffect
<1>21. CASE Crash BY <1>21, CrashEffect
<1>22. CASE UNCHANGED vars BY <1>22 DEF vars
<1> QED BY <1>1, <1>2, <1>3, <1>4, <1>5, <1>6, <1>7, <1>8, <1>9, <1>10, <1>11,
          <1>12, <1>13, <1>14, <1>15, <1>16, <1>17, <1>18, <1>19, <1>20, <1>21,
          <1>22 DEF Next

(* With a legacy storage.meta the rename commits a table. *)
LEMMA LegacyMatchesStep ==
  ASSUME StorageInv, [Next]_vars
  PROVE  LegacyMatches'
<1> USE DEF StorageInv, CallIs, SameCall, IdleNext, RowsAre, DirIs, Made, NotMade,
            Resets, LegacyMatches, Legacy
<1>1. CASE open_storage BY <1>1, OpenEffect DEF Openable, Shown, Control
<1>2. CASE InitializeCatalog BY <1>2, InitializeEffect DEF Fresh
<1>3. CASE MakeSystemTables BY <1>3, SystemTablesEffect
<1>4. CASE MakeSystemColumns BY <1>4, SystemColumnsEffect
<1>5. CASE LoadNew BY <1>5, LoadEffect
<1>6. CASE rollback_initialization BY <1>6, UninitEffect
<1>7. CASE WriteTemporary BY <1>7, WriteEffect
<1>8. CASE ReplaceMetadata
  <2>1. Legacy => NewMeta.kind = "legacy" /\ NewMeta.tables = tables
    BY DEF NewMeta, LegacyMeta
  <2>2. lifecycle = "open" => Ids(created \cup {call.table}) \subseteq dir.files
    BY <1>8, ReplaceEffect, NoneIsNoTable DEF FilesThere, Ids
  <2>3. created' \subseteq Tables BY TypesStep DEF Types
  <2> QED BY <1>8, <2>1, <2>2, <2>3, NoneIsNoTable, ReplaceEffect
<1>9. CASE MetadataFails BY <1>9, MetadataFailsEffect DEF NewTable
<1>10. CASE \E t \in Tables : create_table(t)
  BY <1>10, CreateTableEffect DEF FilesThere
<1>11. CASE InsertColumn BY <1>11, ColumnStep
<1>12. CASE InsertMarker BY <1>12, MarkerStep
<1>13. CASE FlushMarker BY <1>13, FlushEffect
<1>14. CASE DeleteMarker BY <1>14, UnmarkEffect
<1>15. CASE rollback_catalog_create BY <1>15, UndoStep
<1>16. CASE remove_table_file
  <2>1. Legacy => \A u \in created : u.id # call.table.id
    BY <1>16, UnfileEffect DEF NewTable
  <2>2. Legacy => Ids(created) \subseteq dir'.files BY <1>16, <2>1, UnfileEffect DEF Ids
  <2> QED BY <1>16, <2>2, NoneIsNoTable, UnfileEffect DEF Types
<1>17. CASE ToggleCursor BY <1>17 DEF ToggleCursor
<1>18. CASE WriteBack BY <1>18, WriteBackEffect
<1>19. CASE ClosePool BY <1>19, ClosePoolEffect
<1>20. CASE CloseFiles BY <1>20, CloseFilesEffect
<1>21. CASE Crash
  BY <1>21, CrashEffect, NoneIsNoTable DEF Types
<1>22. CASE UNCHANGED vars BY <1>22 DEF vars
<1> QED BY <1>1, <1>2, <1>3, <1>4, <1>5, <1>6, <1>7, <1>8, <1>9, <1>10, <1>11,
          <1>12, <1>13, <1>14, <1>15, <1>16, <1>17, <1>18, <1>19, <1>20, <1>21,
          <1>22 DEF Next

(* A row of a valid catalog is of one of its tables. *)
LEMMA RowsOfTables ==
  ASSUME NEW R, CatalogValid(R), NEW r \in R
  PROVE  r.id \in Ids(CatalogTables(R))
<1>1. \E m \in Markers(R) : m.id = r.id BY DEF CatalogValid
<1>2. PICK m \in Markers(R) : m.id = r.id BY <1>1
<1>3. TableOf(R, m) \in CatalogTables(R) BY TablesAreMade
<1>4. TableOf(R, m).id = r.id BY <1>2 DEF TableOf
<1> QED BY <1>3, <1>4 DEF Ids

(* Without a failure of the clean-up, what was there is what is there. *)
LEMMA CleanStays ==
  ASSUME scenario' = scenario,
         leftover' = leftover \/ (Failures /\ \E id : leftover' = leftover \cup {id})
  PROVE  Clean' => Clean /\ leftover' = leftover
BY DEF Clean, Failures

LEMMA Added ==
  ASSUME NEW S, NEW s \in Seq(S), NEW x \in S
  PROVE  {Append(s, x)[i] : i \in DOMAIN Append(s, x)} = {s[i] : i \in DOMAIN s} \cup {x}
<1> DEFINE a == Append(s, x)
<1>1. /\ DOMAIN a = 1..Len(s) + 1 /\ a[Len(s) + 1] = x /\ DOMAIN s = 1..Len(s)
      /\ \A i \in 1..Len(s) : a[i] = s[i]
      /\ Len(s) \in Nat
  OBVIOUS
<1> HIDE DEF a
<1>2. \A i \in DOMAIN a : i \in DOMAIN s \/ i = Len(s) + 1 BY <1>1
<1>3. DOMAIN s \subseteq DOMAIN a /\ Len(s) + 1 \in DOMAIN a BY <1>1
<1>4. {a[i] : i \in DOMAIN a} = {s[i] : i \in DOMAIN s} \cup {x} BY <1>1, <1>2, <1>3
<1> QED BY <1>4 DEF a

LEMMA FirstRemoved ==
  ASSUME NEW S, NEW s \in Seq(S), s # <<>>,
         \A i, j \in DOMAIN s : s[i] = s[j] => i = j
  PROVE  {Tail(s)[i] : i \in DOMAIN Tail(s)} = {s[i] : i \in DOMAIN s} \ {s[1]}
<1> DEFINE a == Tail(s)
           n == Len(s)
<1>1. /\ n \in Nat /\ n # 0 /\ DOMAIN s = 1..n /\ DOMAIN a = 1..n - 1
      /\ \A i \in 1..n - 1 : a[i] = s[i + 1]
  BY EmptySeq
<1> HIDE DEF a, n
<1>2. ASSUME NEW i \in DOMAIN a PROVE a[i] \in {s[j] : j \in DOMAIN s} \ {s[1]}
  <2>1. i + 1 \in DOMAIN s /\ 1 \in DOMAIN s /\ i + 1 # 1 /\ a[i] = s[i + 1] BY <1>1
  <2> QED BY <2>1
<1>3. ASSUME NEW j \in DOMAIN s, s[j] # s[1] PROVE s[j] \in {a[i] : i \in DOMAIN a}
  <2>1. j - 1 \in DOMAIN a /\ a[j - 1] = s[j] BY <1>1, <1>3
  <2> QED BY <2>1
<1>4. {a[i] : i \in DOMAIN a} = {s[i] : i \in DOMAIN s} \ {s[1]} BY <1>2, <1>3
<1> QED BY <1>4 DEF a

(* The marker's flush: the rows describe the tables and the new one. *)
LEMMA Committed ==
  ASSUME StorageInv, call.pc = "flush", call.table \in Tables,
         CatalogValid(Base), CatalogTables(Base) = tables
  PROVE  LET R == Base \cup Listed \cup {call.marker} IN
         CatalogValid(R) /\ CatalogTables(R) = tables \cup {call.table}
<1> DEFINE t == call.table
           n == Len(t.cols)
<1>1. call.rows \in Seq(Row) /\ t # None BY NoneIsNoTable DEF StorageInv, Types, CallTypes
<1>2. /\ \A i \in DOMAIN call.rows : call.rows[i] = ColumnRow(call.rows[i].rid, t, i)
      /\ Len(call.rows) = n /\ call.marker = TableRow(call.marker.rid, t)
  BY DEF StorageInv, CallRows, Adding
<1>3. DOMAIN call.rows = 1..n BY <1>1, <1>2
<1>4. \A i \in 1..n : /\ call.rows[i].kind = "column" /\ call.rows[i].id = t.id
                      /\ call.rows[i].name = t.cols[i] /\ call.rows[i].n = i
  BY <1>2, <1>3, ColumnFields
<1>5. call.marker.kind = "table" /\ call.marker.id = t.id /\ call.marker.name = t.name
      /\ call.marker.n = n
  BY <1>2, MarkerFields
<1>6. \A r \in Base : r.id # t.id BY <1>1 DEF Base
<1>7. \A u \in tables : u.name # t.name BY <1>1 DEF StorageInv, NewTable
<1>8. Listed = {call.rows[i] : i \in 1..n} BY <1>3 DEF Listed
<1> HIDE DEF t, n
<1> DEFINE B == Base
           rs == call.rows
           m == call.marker
<1> HIDE DEF B, rs, m
<1>9. LET R == B \cup {rs[i] : i \in 1..Len(t.cols)} \cup {m} IN
      CatalogValid(R) /\ CatalogTables(R) = CatalogTables(B) \cup {t}
  <2>1. t \in Tables /\ CatalogValid(B) BY DEF t, B
  <2>2. \A r \in B : r.id # t.id BY <1>6 DEF B
  <2>3. \A u \in CatalogTables(B) : u.name # t.name BY <1>7 DEF B
  <2>4. \A i \in 1..Len(t.cols) : /\ rs[i].kind = "column" /\ rs[i].id = t.id
                                 /\ rs[i].name = t.cols[i] /\ rs[i].n = i
    BY <1>4 DEF n, rs
  <2>5. m.kind = "table" /\ m.id = t.id /\ m.name = t.name /\ m.n = Len(t.cols)
    BY <1>5 DEF n, m
  <2> QED BY ONLY <2>1, <2>2, <2>3, <2>4, <2>5, TableAdded
<1> QED BY <1>8, <1>9 DEF B, rs, m, n, t

(* The rows in the pool describe the tables. *)
LEMMA RowsMatchStep ==
  ASSUME StorageInv, [Next]_vars
  PROVE  RowsMatch'
<1> USE DEF StorageInv, CallIs, SameCall, IdleNext, RowsAre, DirIs, Made, NotMade,
            Resets, RowsMatch, Legacy
<1>1. CASE open_storage
  <2>1. ~Legacy => CatalogValid(rows.disk) /\ Shown = CatalogTables(rows.disk)
    BY <1>1, OpenEffect DEF Openable, Shown, MetaMatches
  <2>2. Base' = rows.disk BY <1>1, OpenEffect DEF Base
  <2> QED BY <1>1, <2>1, <2>2, OpenEffect
<1>2. CASE InitializeCatalog BY <1>2, InitializeEffect
<1>3. CASE MakeSystemTables BY <1>3, SystemTablesEffect
<1>4. CASE MakeSystemColumns BY <1>4, SystemColumnsEffect
<1>5. CASE LoadNew
  <2>1. ~Legacy /\ rows.disk = {} /\ dir.meta.kind = "bootstrap"
    BY <1>5, LoadEffect DEF MetaMatches, LegacyMatches
  <2>2. Shown = {} BY <2>1, EmptyCatalog DEF Shown
  <2>3. lifecycle' = "open" => Base' = {} BY <1>5, <2>1, LoadEffect DEF Base
  <2> QED BY <1>5, <2>2, <2>3, LoadEffect, EmptyCatalog
<1>6. CASE rollback_initialization BY <1>6, UninitEffect
<1>7. CASE WriteTemporary
  <2>1. ~Legacy /\ lifecycle \in {"open", "closing"} => call.table = None
    BY <1>7, WriteEffect DEF Control, CreateSteps, Adding
  <2>2. Base' = Base BY <1>7, WriteEffect DEF Base
  <2> QED BY <1>7, <2>1, <2>2, WriteEffect, CleanStays
<1>8. CASE ReplaceMetadata BY <1>8, ReplaceEffect
<1>9. CASE MetadataFails
  <2>1. lifecycle = "closing" => Base' = Base BY <1>9, MetadataFailsEffect DEF Base
  <2> QED BY <1>9, <2>1, MetadataFailsEffect, CleanStays
<1>10. CASE \E t \in Tables : create_table(t)
  <2>1. PICK t \in Tables : create_table(t) BY <1>10
  <2>2. CASE Made(t.id) /\ UNCHANGED <<lifecycle, rows, scenario>>
             /\ CallIs(IF Legacy THEN "write" ELSE IF cursor THEN "unfile" ELSE "columns",
                       t, <<>>, None)
             /\ (~Legacy => tables' = tables)
    <3> SUFFICES ASSUME RowsMatch!1' PROVE RowsMatch!2'
      BY DEF RowsMatch
    <3>1. ~Legacy /\ Clean /\ lifecycle = "open" /\ call.table = None
      BY <2>1, <2>2, CreateTableEffect, CleanStays
    <3>2. Base = rows.pool BY <3>1 DEF Base
    <3>3. CatalogValid(rows.pool) /\ CatalogTables(rows.pool) = tables
      BY <3>1, <3>2
    <3>4. \A r \in rows.pool : r.id # t.id
      BY <2>1, <3>3, RowsOfTables, CreateTableEffect DEF Ids
    <3>5. Base' = rows.pool /\ Own' = {} BY <2>2, <3>4 DEF Base, Own
    <3>6. Listed' = {} /\ Marked' = {}
      <4>1. call'.rows = <<>> /\ call'.rows \in Seq(Row) BY <2>2, CallTypesStep
        DEF CallTypes
      <4>2. Len(call'.rows) = 0 BY <4>1, EmptySeq
      <4>3. DOMAIN call'.rows = 1..0 BY <4>1, <4>2
      <4> QED BY <2>2, <4>3 DEF Listed, Marked
    <3> QED BY <2>2, <3>1, <3>3, <3>5, <3>6
  <2>3. CASE NotMade(t.id) /\ UNCHANGED <<lifecycle, rows, scenario, call, tables>>
    <3>1. Base' = Base /\ Own' = Own /\ Listed' = Listed /\ Marked' = Marked
      BY <2>3 DEF Base, Own, Listed, Marked
    <3> QED BY <2>3, <3>1, CleanStays
  <2> QED BY <2>1, <2>2, <2>3, CreateTableEffect
<1>11. CASE InsertColumn
  <2>1. CASE SameCall("undo") /\ rows' = rows
    <3>1. Base' = Base /\ Own' = Own /\ Listed' = Listed /\ Marked' = Marked
      BY <1>11, <2>1, ColumnStep DEF Base, Own, Listed, Marked
    <3> QED BY <1>11, <2>1, <3>1, ColumnStep, CleanStays
  <2>2. ASSUME NEW row \in Row, row.id = call.table.id,
               RowsAre(rows.pool \cup {row}, rows.disk),
               CallIs(IF Len(call.rows) + 1 = Len(call.table.cols) THEN "marker"
                      ELSE "columns",
                      call.table, Append(call.rows, row), call.marker)
        PROVE  RowsMatch'
    <3>1. call.rows \in Seq(Row) BY DEF Types, CallTypes
    <3>2. Base' = Base /\ Own' = Own \cup {row}
      BY <1>11, <2>2, ColumnStep DEF Base, Own
    <3>3. Listed' = Listed \cup {row}
      BY <2>2, <3>1, Added, SMTT(40) DEF Listed
    <3>4. Marked' = Marked BY <1>11, <2>2, ColumnStep DEF Marked
    <3>5. call'.pc # "unfile" BY <2>2
    <3> QED BY <1>11, <2>2, <3>2, <3>3, <3>4, <3>5, ColumnStep, CleanStays
  <2> QED BY <1>11, <2>1, <2>2, ColumnStep
<1>12. CASE InsertMarker
  <2>1. CASE SameCall("undo") /\ rows' = rows
    <3>1. Base' = Base /\ Own' = Own /\ Listed' = Listed /\ Marked' = Marked
      BY <1>12, <2>1, MarkerStep DEF Base, Own, Listed, Marked
    <3> QED BY <1>12, <2>1, <3>1, MarkerStep, CleanStays
  <2>2. ASSUME NEW row \in Row, row.id = call.table.id,
               RowsAre(rows.pool \cup {row}, rows.disk),
               CallIs("flush", call.table, call.rows, row)
        PROVE  RowsMatch'
    <3>1. Base' = Base /\ Own' = Own \cup {row} /\ Listed' = Listed
      BY <1>12, <2>2, MarkerStep DEF Base, Own, Listed
    <3>2. Marked' = {row} /\ Marked = {} BY <1>12, <2>2, MarkerStep DEF Marked
    <3> QED BY <1>12, <2>2, <3>1, <3>2, MarkerStep, CleanStays
  <2> QED BY <1>12, <2>1, <2>2, MarkerStep
<1>13. CASE FlushMarker
  <2>1. CASE SameCall("unmark") /\ UNCHANGED <<rows, tables>>
    <3>1. Base' = Base /\ Own' = Own /\ Listed' = Listed /\ Marked' = Marked
      BY <1>13, <2>1, FlushEffect DEF Base, Own, Listed, Marked
    <3> QED BY <1>13, <2>1, <3>1, FlushEffect, CleanStays
  <2>2. CASE rows'.pool = rows.pool /\ tables' = tables \cup {call.table} /\ IdleNext
    <3> SUFFICES ASSUME RowsMatch!1' PROVE RowsMatch!2'
      BY DEF RowsMatch
    <3>1. ~Legacy /\ Clean /\ lifecycle = "open" /\ call.pc = "flush" /\ call.table \in Tables
          /\ call.table # None
      BY <1>13, FlushEffect, CleanStays
    <3>2. /\ CatalogValid(Base) /\ CatalogTables(Base) = tables
          /\ Own = Listed \cup {call.marker}
      BY <3>1 DEF Marked
    <3>3. Base' = Base \cup Listed \cup {call.marker}
      <4>1. Base' = rows.pool BY <2>2 DEF Base
      <4>2. rows.pool = Base \cup Own BY <3>1 DEF Base, Own
      <4> QED BY <3>2, <4>1, <4>2
    <3>4. CatalogValid(Base') /\ CatalogTables(Base') = tables \cup {call.table}
      BY <3>1, <3>2, <3>3, Committed
    <3> QED BY <2>2, <3>4
  <2> QED BY <1>13, <2>1, <2>2, FlushEffect
<1>14. CASE DeleteMarker
  <2>1. CASE rows'.pool = rows.pool \ {call.marker} /\ leftover' = leftover
    <3>1. call.marker.id = call.table.id /\ call.marker.kind = "table"
      BY <1>14, UnmarkEffect, MarkerFields DEF CallRows
    <3>2. \A r \in Listed : r.kind = "column"
      BY <1>14, UnmarkEffect, ColumnFields DEF CallRows, Adding, Listed
    <3>3. Base' = Base /\ Own' = Own \ {call.marker} /\ Listed' = Listed
      BY <1>14, <2>1, <3>1, UnmarkEffect DEF Base, Own, Listed
    <3>4. Marked' = {} /\ Marked = {call.marker} BY <1>14, UnmarkEffect DEF Marked
    <3>5. call.marker \notin Listed BY <3>1, <3>2
    <3> QED BY <1>14, <2>1, <3>3, <3>4, <3>5, UnmarkEffect, CleanStays
  <2>2. CASE leftover' = leftover \cup {call.table.id}
    <3>1. ~Clean' BY <1>14, <2>2, UnmarkEffect DEF Clean, Failures
    <3> QED BY <3>1
  <2> QED BY <1>14, <2>1, <2>2, UnmarkEffect
<1>15. CASE rollback_catalog_create
  <2>1. CASE call.rows = <<>> /\ SameCall("unfile") /\ UNCHANGED <<rows, leftover>>
    <3>1. Base' = Base /\ Own' = Own /\ Listed' = Listed /\ Marked' = Marked
      BY <1>15, <2>1, UndoStep DEF Base, Own, Listed, Marked
    <3> QED BY <1>15, <2>1, <3>1, UndoStep, CleanStays
  <2>2. CASE /\ call.rows # <<>> /\ UNCHANGED leftover
             /\ RowsAre(rows.pool \ {call.rows[1]}, rows.disk)
             /\ CallIs("undo", call.table, Tail(call.rows), call.marker)
    <3>1. call.rows \in Seq(Row) BY DEF Types, CallTypes
    <3>2. /\ \A i, j \in DOMAIN call.rows : call.rows[i] = call.rows[j] => i = j
          /\ \A i \in DOMAIN call.rows : call.rows[i].id = call.table.id
      BY <1>15, UndoStep DEF CallRows
    <3>3. 1 \in DOMAIN call.rows BY <2>2, <3>1, EmptySeq
    <3>4. Base' = Base /\ Own' = Own \ {call.rows[1]}
      BY <1>15, <2>2, <3>2, <3>3, UndoStep DEF Base, Own
    <3>5. Listed' = Listed \ {call.rows[1]}
      <4>1. {Tail(call.rows)[i] : i \in DOMAIN Tail(call.rows)}
              = {call.rows[i] : i \in DOMAIN call.rows} \ {call.rows[1]}
        BY ONLY <2>2, <3>1, <3>2, FirstRemoved
      <4>2. call'.rows = Tail(call.rows) BY <2>2
      <4> QED BY ONLY <4>1, <4>2 DEF Listed
    <3>6. Marked' = {} /\ Marked = {} BY <1>15, <2>2, UndoStep DEF Marked
    <3> QED BY <1>15, <2>2, <3>4, <3>5, <3>6, UndoStep, CleanStays
  <2>3. CASE leftover' = leftover \cup {call.table.id}
    <3>1. ~Clean' BY <1>15, <2>3, UndoStep DEF Clean, Failures
    <3> QED BY <3>1
  <2> QED BY <1>15, <2>1, <2>2, <2>3, UndoStep
<1>16. CASE remove_table_file
  <2> SUFFICES ASSUME RowsMatch!1' PROVE RowsMatch!2'
    BY DEF RowsMatch
  <2>1. ~Legacy /\ Clean BY <1>16, UnfileEffect DEF Clean, Failures
  <2>2. /\ CatalogValid(Base) /\ CatalogTables(Base) = tables
        /\ Own = Listed \cup Marked /\ call.rows = <<>>
    BY <1>16, <2>1, UnfileEffect
  <2>3. Listed = {} /\ Marked = {}
    <3>1. call.rows \in Seq(Row) BY DEF Types, CallTypes
    <3>2. DOMAIN call.rows = 1..0 BY <2>2, <3>1, EmptySeq
    <3> QED BY <1>16, <3>2, UnfileEffect DEF Listed, Marked
  <2>4. Base' = Base
    BY <1>16, <2>2, <2>3, UnfileEffect DEF Base, Own
  <2> QED BY <1>16, <2>2, <2>4, UnfileEffect
<1>17. CASE ToggleCursor
  <2>1. Base' = Base /\ Own' = Own /\ Listed' = Listed /\ Marked' = Marked
    BY <1>17, TRUE DEF Base, Own, Listed, Marked, ToggleCursor
  <2> QED BY <1>17, <2>1, CleanStays DEF ToggleCursor
<1>18. CASE WriteBack
  <2>1. Base' = Base /\ Own' = Own /\ Listed' = Listed /\ Marked' = Marked
    BY <1>18, WriteBackEffect DEF Base, Own, Listed, Marked
  <2> QED BY <1>18, <2>1, WriteBackEffect, CleanStays
<1>19. CASE ClosePool
  <2>1. Base' = Base /\ Own' = Own /\ Listed' = Listed /\ Marked' = Marked
    BY <1>19, ClosePoolEffect DEF Base, Own, Listed, Marked
  <2> QED BY <1>19, <2>1, ClosePoolEffect, CleanStays
<1>20. CASE CloseFiles
  <2>1. Base' = Base BY <1>20, CloseFilesEffect DEF Base
  <2> QED BY <1>20, <2>1, CloseFilesEffect, CleanStays
<1>21. CASE Crash BY <1>21, CrashEffect
<1>22. CASE UNCHANGED vars
  <2>1. Base' = Base /\ Own' = Own /\ Listed' = Listed /\ Marked' = Marked
    BY <1>22, TRUE DEF Base, Own, Listed, Marked, vars
  <2> QED BY <1>22, <2>1, CleanStays DEF vars
<1> QED BY <1>1, <1>2, <1>3, <1>4, <1>5, <1>6, <1>7, <1>8, <1>9, <1>10, <1>11,
          <1>12, <1>13, <1>14, <1>15, <1>16, <1>17, <1>18, <1>19, <1>20, <1>21,
          <1>22 DEF Next

(* What the directory holds is what was created. *)
LEMMA SavedStep ==
  ASSUME StorageInv, [Next]_vars
  PROVE  Saved'
<1> USE DEF StorageInv, CallIs, SameCall, IdleNext, RowsAre, DirIs, Made, NotMade,
            Resets, Saved, Legacy
<1>1. CASE open_storage
  <2>1. ~Legacy /\ leftover = {} /\ lost = {} =>
          Shown = created /\ dir.files = SystemIds \cup Ids(created)
    BY <1>1, OpenEffect DEF Openable, Shown, MetaMatches, Fresh
  <2> QED BY <1>1, <2>1, OpenEffect DEF CallFile
<1>2. CASE InitializeCatalog
  BY <1>2, InitializeEffect DEF Fresh
<1>3. CASE MakeSystemTables
  <2>1. ~Legacy => created = {} BY <1>3, SystemTablesEffect DEF MetaMatches
  <2> QED BY <1>3, <2>1, SystemTablesEffect DEF Fresh
<1>4. CASE MakeSystemColumns
  BY <1>4, SystemColumnsEffect DEF SystemIds
<1>5. CASE LoadNew
  <2>1. ~Legacy /\ rows.disk = {} /\ dir.meta.kind = "bootstrap" /\ created = {}
    BY <1>5, LoadEffect DEF MetaMatches, LegacyMatches
  <2>2. Shown = {} /\ Ids({}) = {} BY <2>1, EmptyCatalog DEF Shown, Ids
  <2> QED BY <1>5, <2>1, <2>2, EmptyCatalog, LoadEffect DEF CallFile
<1>6. CASE rollback_initialization
  <2>1. ~Legacy => created = {} BY <1>6, UninitEffect DEF MetaMatches
  <2>2. leftover' = {} => dir'.files = {} /\ dir'.meta.kind = "none" /\ ~dir'.tmp
    BY <1>6, UninitEffect DEF SystemIds
  <2> QED BY <1>6, <2>1, <2>2, UninitEffect DEF Fresh
<1>7. CASE WriteTemporary BY <1>7, WriteEffect DEF CallFile, Control
<1>8. CASE ReplaceMetadata
  <2>1. ~Legacy => NewMeta.kind = "bootstrap" BY DEF NewMeta, Bootstrap
  <2>2. ASSUME ~Legacy, leftover = {}, lost = {}, lifecycle = "closing"
        PROVE  /\ CatalogValid(rows.disk) /\ CatalogTables(rows.disk) = created
               /\ dir.files = SystemIds \cup Ids(created)
    <3>1. call.table = None BY <1>8, <2>2, ReplaceEffect
    <3>2. Base = rows.disk BY <2>2, <3>1 DEF Base, Flushed
    <3> QED BY <2>2, <3>1, <3>2 DEF RowsMatch, Clean, CallFile
  <2> QED BY <1>8, <2>1, <2>2, ReplaceEffect
<1>9. CASE MetadataFails BY <1>9, MetadataFailsEffect DEF CallFile
<1>10. CASE \E t \in Tables : create_table(t)
  BY <1>10, CreateTableEffect DEF CallFile
<1>11. CASE InsertColumn BY <1>11, ColumnStep DEF CallFile
<1>12. CASE InsertMarker BY <1>12, MarkerStep DEF CallFile
<1>13. CASE FlushMarker
  <2>1. Ids(tables \cup {call.table}) = Ids(tables) \cup {call.table.id} BY DEF Ids
  <2> QED BY <1>13, <2>1, FlushEffect DEF CallFile
<1>14. CASE DeleteMarker BY <1>14, UnmarkEffect DEF CallFile
<1>15. CASE rollback_catalog_create BY <1>15, UndoStep DEF CallFile
<1>16. CASE remove_table_file
  <2>1. call.table.id \notin SystemIds /\ call.table.id \notin Ids(tables)
    <3>1. call.table.id \in TableIds BY <1>16, UnfileEffect, SchemaSequence
    <3>2. \A u \in tables : u.id # call.table.id BY <1>16, UnfileEffect DEF NewTable
    <3> QED BY <3>1, <3>2, StorageAssumption DEF Ids
  <2> QED BY <1>16, <2>1, UnfileEffect DEF CallFile
<1>17. CASE ToggleCursor BY <1>17 DEF ToggleCursor, CallFile
<1>18. CASE WriteBack BY <1>18, WriteBackEffect DEF CallFile
<1>19. CASE ClosePool BY <1>19, ClosePoolEffect DEF CallFile
<1>20. CASE CloseFiles BY <1>20, CloseFilesEffect DEF CallFile
<1>21. CASE Crash BY <1>21, CrashEffect
<1>22. CASE UNCHANGED vars BY <1>22 DEF vars, CallFile, Fresh
<1> QED BY <1>1, <1>2, <1>3, <1>4, <1>5, <1>6, <1>7, <1>8, <1>9, <1>10, <1>11,
          <1>12, <1>13, <1>14, <1>15, <1>16, <1>17, <1>18, <1>19, <1>20, <1>21,
          <1>22 DEF Next

(* More rows keep what a table has, fewer rows keep what it has not; rows  *)
(* of other tables do not matter.                                          *)
LEMMA MoreRows ==
  ASSUME NEW R, NEW S, R \subseteq S, NEW t
  PROVE  /\ HasMarker(R, t) => HasMarker(S, t)
         /\ HasColumns(R, t) => HasColumns(S, t)
         /\ OnlyColumns(S, t) => OnlyColumns(R, t)
<1>1. HasMarker(R, t) => HasMarker(S, t) BY DEF HasMarker
<1>2. HasColumns(R, t) => HasColumns(S, t)
  <2> SUFFICES ASSUME HasColumns(R, t), NEW i \in 1..Len(t.cols)
               PROVE  \E r \in S : r = ColumnRow(r.rid, t, i)
    BY DEF HasColumns
  <2>1. PICK r \in R : r = ColumnRow(r.rid, t, i) BY DEF HasColumns
  <2> QED BY <2>1
<1>3. OnlyColumns(S, t) => OnlyColumns(R, t) BY DEF OnlyColumns
<1> QED BY <1>1, <1>2, <1>3

LEMMA OthersRemoved ==
  ASSUME NEW R, NEW x, NEW t, x.id # t.id, HasMarker(R, t), HasColumns(R, t)
  PROVE  HasMarker(R \ {x}, t) /\ HasColumns(R \ {x}, t)
<1>1. HasMarker(R \ {x}, t)
  <2>1. PICK m \in R : m = TableRow(m.rid, t) BY DEF HasMarker
  <2>2. m.id = t.id BY ONLY <2>1, MarkerFields
  <2>3. m \in R \ {x} BY <2>2
  <2> QED BY <2>1, <2>3 DEF HasMarker
<1>2. HasColumns(R \ {x}, t)
  <2> SUFFICES ASSUME NEW i \in 1..Len(t.cols)
               PROVE  \E r \in R \ {x} : r = ColumnRow(r.rid, t, i)
    BY DEF HasColumns
  <2>1. PICK r \in R : r = ColumnRow(r.rid, t, i) BY DEF HasColumns
  <2>2. r.id = t.id BY ONLY <2>1, ColumnFields
  <2>3. r \in R \ {x} BY <2>2
  <2> QED BY <2>1, <2>3
<1> QED BY <1>1, <1>2

LEMMA OthersAdded ==
  ASSUME NEW R, NEW x, NEW t, x.kind # "column" \/ x.id # t.id, OnlyColumns(R, t)
  PROVE  OnlyColumns(R \cup {x}, t)
<1> SUFFICES ASSUME NEW r \in R \cup {x}, r.kind = "column", r.id = t.id
             PROVE  r.n \in 1..Len(t.cols) /\ r = ColumnRow(r.rid, t, r.n)
  BY DEF OnlyColumns
<1>1. r \in R OBVIOUS
<1> QED BY <1>1 DEF OnlyColumns

(* The rows of the call whose marker is about to be flushed. *)
LEMMA OwnRows ==
  ASSUME StorageInv, call.pc \in {"flush", "unmark"}
  PROVE  /\ call.table \in Tables /\ call.table # None /\ ~Legacy /\ lifecycle = "open"
         /\ call.marker \in rows.pool /\ call.marker = TableRow(call.marker.rid, call.table)
         /\ call.marker.kind = "table" /\ call.marker.id = call.table.id
         /\ HasColumns(rows.pool, call.table)
         /\ Own = Listed \cup {call.marker} => OnlyColumns(rows.pool, call.table)
         /\ \A u \in tables : u.id # call.table.id
<1> DEFINE t == call.table
<1>1. t \in Tables /\ t # None /\ ~Legacy /\ lifecycle = "open" /\ call.rows \in Seq(Row)
  BY Creating DEF StorageInv, Types, CallTypes, Adding
<1>2. /\ \A i \in DOMAIN call.rows : call.rows[i] = ColumnRow(call.rows[i].rid, t, i)
      /\ Len(call.rows) = Len(t.cols) /\ Listed \subseteq rows.pool
      /\ call.marker \in rows.pool /\ call.marker = TableRow(call.marker.rid, t)
  BY DEF StorageInv, CallRows, Adding
<1>3. DOMAIN call.rows = 1..Len(t.cols) BY <1>1, <1>2
<1>4. call.marker.kind = "table" /\ call.marker.id = t.id BY <1>2, MarkerFields
<1>5. HasColumns(rows.pool, t)
  <2> SUFFICES ASSUME NEW i \in 1..Len(t.cols)
               PROVE  \E r \in rows.pool : r = ColumnRow(r.rid, t, i)
    BY DEF HasColumns
  <2>1. call.rows[i] \in rows.pool /\ call.rows[i] = ColumnRow(call.rows[i].rid, t, i)
    BY <1>2, <1>3 DEF Listed
  <2> QED BY <2>1
<1>6. ASSUME Own = Listed \cup {call.marker} PROVE OnlyColumns(rows.pool, t)
  <2> SUFFICES ASSUME NEW r \in rows.pool, r.kind = "column", r.id = t.id
               PROVE  r.n \in 1..Len(t.cols) /\ r = ColumnRow(r.rid, t, r.n)
    BY DEF OnlyColumns
  <2>1. r \in Own BY DEF Own
  <2>2. r \in Listed BY <1>4, <1>6, <2>1
  <2>3. PICK i \in DOMAIN call.rows : r = call.rows[i] BY <2>2 DEF Listed
  <2>4. r = ColumnRow(r.rid, t, i) /\ i \in 1..Len(t.cols) BY <1>2, <1>3, <2>3
  <2>5. r.n = i BY ONLY <2>4, ColumnFields
  <2> QED BY <2>4, <2>5
<1>7. \A u \in tables : u.id # t.id
  BY <1>1 DEF StorageInv, NewTable
<1> QED BY <1>1, <1>2, <1>4, <1>5, <1>6, <1>7

(* What was created is kept as long as nothing is lost. *)
LEMMA CreatedKeptStep ==
  ASSUME StorageInv, [Next]_vars
  PROVE  CreatedKept'
<1> USE DEF StorageInv, CallIs, SameCall, IdleNext, RowsAre, DirIs, Made, NotMade,
            Resets, CreatedKept, Legacy
<1>1. CASE open_storage
  <2>1. Current = rows.disk /\ Current' = rows.disk /\ Marked = {} /\ Marked' = {}
    BY <1>1, OpenEffect DEF Current, Marked
  <2>2. ASSUME ~Legacy, lost = {}, NEW t \in created PROVE t \in Shown
    <3>1. HasMarker(rows.disk, t) /\ HasColumns(rows.disk, t) BY <2>1, <2>2
    <3>2. /\ CatalogValid(rows.disk) /\ Shown = CatalogTables(rows.disk)
          /\ IsFiniteSet(rows.disk) /\ t \in Tables
      BY <1>1, <2>2, OpenEffect DEF Openable, Shown, MetaMatches, Types, RowTypes
    <3> QED BY ONLY <3>1, <3>2, ShownIfComplete
  <2> QED BY <1>1, <2>1, <2>2, OpenEffect
<1>2. CASE InitializeCatalog
  <2>1. ~Legacy /\ lost' = {} => Current' = Current /\ Marked' = Marked
    BY <1>2, InitializeEffect DEF Current, Marked
  <2> QED BY <1>2, <2>1, InitializeEffect
<1>3. CASE MakeSystemTables
  <2>1. ~Legacy /\ lost' = {} => Current' = Current /\ Marked' = Marked
    BY <1>3, SystemTablesEffect DEF Current, Marked
  <2> QED BY <1>3, <2>1, SystemTablesEffect
<1>4. CASE MakeSystemColumns
  <2>1. ~Legacy /\ lost' = {} => Current' = Current /\ Marked' = Marked
    BY <1>4, SystemColumnsEffect DEF Current, Marked
  <2> QED BY <1>4, <2>1, SystemColumnsEffect
<1>5. CASE LoadNew
  <2>1. ~Legacy /\ rows.disk = {} /\ dir.meta.kind = "bootstrap" /\ created = {}
    BY <1>5, LoadEffect DEF MetaMatches, LegacyMatches
  <2>2. Current' = {} /\ Markers(Current') = {}
    BY <1>5, <2>1, LoadEffect DEF Current, Markers
  <2> QED BY <1>5, <2>1, <2>2, LoadEffect
<1>6. CASE rollback_initialization
  <2>1. ~Legacy /\ lost' = {} => Current' = Current /\ Marked' = Marked
    BY <1>6, UninitEffect DEF Current, Marked
  <2> QED BY <1>6, <2>1, UninitEffect
<1>7. CASE WriteTemporary
  <2>1. Current' = Current /\ Marked' = Marked BY <1>7, WriteEffect DEF Current, Marked
  <2> QED BY <1>7, <2>1, WriteEffect
<1>8. CASE ReplaceMetadata
  <2>1. ~Legacy /\ lost = {} => Current' = Current /\ Marked' = Marked /\ created' = created
    BY <1>8, ReplaceEffect DEF Current, Marked, Flushed
  <2> QED BY <1>8, <2>1, ReplaceEffect
<1>9. CASE MetadataFails
  <2>1. ~Legacy /\ lost' = {} => Current' = Current /\ Marked' = Marked
    BY <1>9, MetadataFailsEffect DEF Current, Marked
  <2> QED BY <1>9, <2>1, MetadataFailsEffect
<1>10. CASE \E t \in Tables : create_table(t)
  <2>1. ~Legacy => Current' = Current /\ Marked' = Marked /\ tables' = tables
    BY <1>10, CreateTableEffect DEF Current, Marked
  <2> QED BY <1>10, <2>1, CreateTableEffect
<1>11. CASE InsertColumn
  <2>1. CASE SameCall("undo") /\ rows' = rows
    <3>1. Current' = Current /\ Marked' = Marked
      BY <1>11, <2>1, ColumnStep DEF Current, Marked
    <3> QED BY <1>11, <2>1, <3>1, ColumnStep
  <2>2. ASSUME NEW row \in Row, row.kind = "column",
               RowsAre(rows.pool \cup {row}, rows.disk),
               CallIs(IF Len(call.rows) + 1 = Len(call.table.cols) THEN "marker"
                      ELSE "columns",
                      call.table, Append(call.rows, row), call.marker)
        PROVE  CreatedKept'
    <3>1. Current = rows.pool /\ Current' = rows.pool \cup {row}
      BY <1>11, <2>2, ColumnStep DEF Current
    <3>2. Markers(Current') = Markers(Current) BY <2>2, <3>1 DEF Markers
    <3>3. ASSUME ~Legacy, lost = {}, NEW t \in created
          PROVE  HasMarker(Current', t) /\ HasColumns(Current', t)
      <4>1. HasMarker(rows.pool, t) /\ HasColumns(rows.pool, t) BY <3>1, <3>3
      <4> QED BY ONLY <3>1, <4>1, MoreRows
    <3>4. Marked = {} BY <1>11, ColumnStep DEF Marked
    <3>5. UNCHANGED <<lifecycle, tables, created, leftover, lost, scenario>>
      BY <1>11, ColumnStep
    <3> QED BY <3>2, <3>3, <3>4, <3>5
  <2> QED BY <1>11, <2>1, <2>2, ColumnStep
<1>12. CASE InsertMarker
  <2>1. CASE SameCall("undo") /\ rows' = rows
    <3>1. Current' = Current /\ Marked' = Marked
      BY <1>12, <2>1, MarkerStep DEF Current, Marked
    <3> QED BY <1>12, <2>1, <3>1, MarkerStep
  <2>2. ASSUME NEW row \in Row,
               RowsAre(rows.pool \cup {row}, rows.disk),
               CallIs("flush", call.table, call.rows, row)
        PROVE  CreatedKept'
    <3>1. Current = rows.pool /\ Current' = rows.pool \cup {row}
      BY <1>12, <2>2, MarkerStep DEF Current
    <3>2. Markers(Current') \subseteq Markers(Current) \cup {row} BY <3>1 DEF Markers
    <3>3. ASSUME ~Legacy, lost = {}, NEW t \in created
          PROVE  HasMarker(Current', t) /\ HasColumns(Current', t)
      <4>1. HasMarker(rows.pool, t) /\ HasColumns(rows.pool, t) BY <3>1, <3>3
      <4> QED BY ONLY <3>1, <4>1, MoreRows
    <3>4. Marked = {} /\ Marked' = {row} BY <1>12, <2>2, MarkerStep DEF Marked
    <3>5. UNCHANGED <<lifecycle, tables, created, leftover, lost, scenario>>
      BY <1>12, MarkerStep
    <3> QED BY <3>2, <3>3, <3>4, <3>5
  <2> QED BY <1>12, <2>1, <2>2, MarkerStep
<1>13. CASE FlushMarker
  <2>1. CASE SameCall("unmark") /\ UNCHANGED <<rows, tables, created>>
    <3>1. Current' = Current /\ Marked' = Marked
      BY <1>13, <2>1, FlushEffect DEF Current, Marked
    <3> QED BY <1>13, <2>1, <3>1, FlushEffect
  <2>2. CASE /\ RowsAre(rows.pool, rows.disk \cup {call.marker}) /\ IdleNext
             /\ tables' = tables \cup {call.table} /\ created' = created \cup {call.table}
    <3>1. Current = rows.pool /\ Current' = rows.pool /\ Marked = {call.marker}
      BY <1>13, <2>2, FlushEffect DEF Current, Marked
    <3>2. /\ HasColumns(rows.pool, call.table)
          /\ call.marker \in rows.pool /\ call.marker = TableRow(call.marker.rid, call.table)
      BY <1>13, FlushEffect, OwnRows
    <3>3. HasMarker(rows.pool, call.table) BY <3>2 DEF HasMarker
    <3>4. \A m : MarkerOf(created, m) => MarkerOf(created', m) BY <2>2 DEF MarkerOf
    <3>5. MarkerOf(created', call.marker) BY <2>2, <3>2 DEF MarkerOf
    <3> QED BY <1>13, <2>2, <3>1, <3>2, <3>3, <3>4, <3>5, FlushEffect
  <2> QED BY <1>13, <2>1, <2>2, FlushEffect
<1>14. CASE DeleteMarker
  <2>0. /\ call.marker.id = call.table.id /\ \A u \in tables : u.id # call.table.id
        /\ Current = rows.pool /\ Marked = {call.marker} /\ Marked' = {}
    BY <1>14, UnmarkEffect, OwnRows DEF Current, Marked
  <2>1. CASE RowsAre(rows.pool \ {call.marker}, rows.disk) /\ leftover' = leftover
    <3>1. Current' = rows.pool \ {call.marker} BY <1>14, <2>1, UnmarkEffect DEF Current
    <3>2. Markers(Current') = Markers(Current) \ {call.marker} BY <2>0, <3>1 DEF Markers
    <3>3. ~Legacy /\ lost = {} =>
            \A t \in created : HasMarker(Current', t) /\ HasColumns(Current', t)
      BY <1>14, <2>0, <3>1, OthersRemoved, UnmarkEffect
    <3> QED BY <1>14, <2>0, <2>1, <3>2, <3>3, UnmarkEffect
  <2>2. CASE leftover' = leftover \cup {call.table.id} /\ rows' = rows
    <3>1. Current' = Current BY <1>14, <2>2, UnmarkEffect DEF Current
    <3> QED BY <1>14, <2>0, <2>2, <3>1, UnmarkEffect
  <2> QED BY <1>14, <2>1, <2>2, UnmarkEffect
<1>15. CASE rollback_catalog_create
  <2>0. Current = rows.pool /\ Marked = {} /\ Marked' = {}
    BY <1>15, UndoStep DEF Current, Marked
  <2>1. CASE rows' = rows
    <3>1. Current' = Current BY <1>15, <2>1, UndoStep DEF Current
    <3> QED BY <1>15, <2>0, <2>1, <3>1, UndoStep
  <2>2. CASE /\ call.rows # <<>> /\ UNCHANGED leftover
             /\ RowsAre(rows.pool \ {call.rows[1]}, rows.disk)
    <3>1. call.rows \in Seq(Row) BY DEF Types, CallTypes
    <3>2. 1 \in DOMAIN call.rows BY <2>2, <3>1, EmptySeq
    <3>3. call.rows[1].id = call.table.id /\ call.rows[1].kind = "column"
      BY <1>15, <3>2, UndoStep DEF CallRows
    <3>4. \A u \in tables : u.id # call.table.id BY <1>15, UndoStep DEF NewTable
    <3>5. Current' = rows.pool \ {call.rows[1]} BY <1>15, <2>2, UndoStep DEF Current
    <3>6. Markers(Current') = Markers(Current) BY <2>0, <3>3, <3>5 DEF Markers
    <3>7. ~Legacy /\ lost = {} =>
            \A t \in created : HasMarker(Current', t) /\ HasColumns(Current', t)
      <4>1. ASSUME ~Legacy, lost = {}, NEW t \in created
            PROVE  HasMarker(Current', t) /\ HasColumns(Current', t)
        <5>1. HasMarker(rows.pool, t) /\ HasColumns(rows.pool, t) /\ call.rows[1].id # t.id
          BY <1>15, <2>0, <3>3, <3>4, <4>1, UndoStep
        <5> QED BY ONLY <3>5, <5>1, OthersRemoved
      <4> QED BY <4>1
    <3> QED BY <1>15, <2>0, <2>2, <3>6, <3>7, UndoStep
  <2> QED BY <1>15, <2>1, <2>2, UndoStep
<1>16. CASE remove_table_file
  <2>1. ~Legacy /\ lost' = {} => Current' = Current /\ Marked' = Marked
    BY <1>16, UnfileEffect DEF Current, Marked
  <2> QED BY <1>16, <2>1, UnfileEffect
<1>17. CASE ToggleCursor
  <2>1. ~Legacy /\ lost' = {} => Current' = Current /\ Marked' = Marked
    BY <1>17 DEF Current, Marked, ToggleCursor
  <2> QED BY <1>17, <2>1 DEF ToggleCursor
<1>18. CASE WriteBack
  <2>1. ~Legacy /\ lost' = {} => Current' = Current /\ Marked' = Marked
    BY <1>18, WriteBackEffect DEF Current, Marked
  <2> QED BY <1>18, <2>1, WriteBackEffect
<1>19. CASE ClosePool
  <2>1. ~Legacy /\ lost' = {} => Current' = Current /\ Marked' = Marked
    BY <1>19, ClosePoolEffect DEF Current, Marked
  <2> QED BY <1>19, <2>1, ClosePoolEffect
<1>20. CASE CloseFiles
  <2>1. ~Legacy /\ lost' = {} => Current' = Current /\ Marked' = Marked
    BY <1>20, CloseFilesEffect DEF Current, Marked
  <2> QED BY <1>20, <2>1, CloseFilesEffect
<1>21. CASE Crash
  BY <1>21, CrashEffect
<1>22. CASE UNCHANGED vars
  <2>1. ~Legacy /\ lost' = {} => Current' = Current /\ Marked' = Marked
    BY <1>22 DEF Current, Marked, vars
  <2> QED BY <1>22, <2>1 DEF vars
<1> QED BY <1>1, <1>2, <1>3, <1>4, <1>5, <1>6, <1>7, <1>8, <1>9, <1>10, <1>11,
          <1>12, <1>13, <1>14, <1>15, <1>16, <1>17, <1>18, <1>19, <1>20, <1>21,
          <1>22 DEF Next

(* A marker that was flushed stays, and its table with it. *)
LEMMA CommittedKeptStep ==
  ASSUME StorageInv, [Next]_vars
  PROVE  CommittedKept'
<1> USE DEF StorageInv, CallIs, SameCall, IdleNext, RowsAre, DirIs, Made, NotMade,
            Resets, CommittedKept, Legacy, Failures
<1>1. CASE open_storage
  <2>1. Current = rows.disk /\ Current' = rows.disk /\ Marked = {} /\ Marked' = {}
    BY <1>1, OpenEffect DEF Current, Marked
  <2>2. ASSUME ~Legacy, ~Failures, NEW t \in created PROVE t \in Shown
    <3>1. HasMarker(rows.disk, t) /\ OnlyColumns(rows.disk, t) BY <2>1, <2>2
    <3>2. /\ CatalogValid(rows.disk) /\ Shown = CatalogTables(rows.disk) /\ t \in Tables
      BY <1>1, <2>2, OpenEffect DEF Openable, Shown, MetaMatches, Types
    <3> QED BY ONLY <3>1, <3>2, ShownIfAlone
  <2> QED BY <1>1, <2>1, <2>2, OpenEffect
<1>2. CASE InitializeCatalog
  <2>1. Current' = Current /\ Marked' = Marked
    BY <1>2, InitializeEffect DEF Current, Marked
  <2> QED BY <1>2, <2>1, InitializeEffect
<1>3. CASE MakeSystemTables
  <2>1. Current' = Current /\ Marked' = Marked
    BY <1>3, SystemTablesEffect DEF Current, Marked
  <2> QED BY <1>3, <2>1, SystemTablesEffect
<1>4. CASE MakeSystemColumns
  <2>1. Current' = Current /\ Marked' = Marked
    BY <1>4, SystemColumnsEffect DEF Current, Marked
  <2> QED BY <1>4, <2>1, SystemColumnsEffect
<1>5. CASE LoadNew
  <2>1. ~Legacy /\ rows.disk = {} /\ dir.meta.kind = "bootstrap" /\ created = {}
    BY <1>5, LoadEffect DEF MetaMatches, LegacyMatches
  <2>2. Current' = {} /\ Markers(Current') = {}
    BY <1>5, <2>1, LoadEffect DEF Current, Markers
  <2> QED BY <1>5, <2>1, <2>2, LoadEffect
<1>6. CASE rollback_initialization
  <2>1. Current' = Current /\ Marked' = Marked
    BY <1>6, UninitEffect DEF Current, Marked
  <2> QED BY <1>6, <2>1, UninitEffect
<1>7. CASE WriteTemporary
  <2>1. Current' = Current /\ Marked' = Marked
    BY <1>7, WriteEffect DEF Current, Marked
  <2> QED BY <1>7, <2>1, WriteEffect
<1>8. CASE ReplaceMetadata
  <2>1. CASE ~Legacy /\ ~Failures
    <3>1. Current' \subseteq Current /\ created' = created /\ Marked' = Marked
      BY <1>8, <2>1, ReplaceEffect DEF Current, Marked
    <3>2. Markers(Current') \subseteq Markers(Current) BY <3>1 DEF Markers
    <3>3. ASSUME NEW t \in created PROVE OnlyColumns(Current', t)
      <4>1. OnlyColumns(Current, t) BY <2>1
      <4> QED BY ONLY <3>1, <4>1, MoreRows
    <3> QED BY <1>8, <2>1, <3>1, <3>2, <3>3, ReplaceEffect
  <2> QED BY <1>8, <2>1, ReplaceEffect
<1>9. CASE MetadataFails
  <2>1. Current' = Current /\ Marked' = Marked
    BY <1>9, MetadataFailsEffect DEF Current, Marked
  <2> QED BY <1>9, <2>1, MetadataFailsEffect
<1>10. CASE \E t \in Tables : create_table(t)
  <2>1. ~Legacy => Current' = Current /\ Marked' = Marked /\ tables' = tables
    BY <1>10, CreateTableEffect DEF Current, Marked
  <2> QED BY <1>10, <2>1, CreateTableEffect
<1>11. CASE InsertColumn
  <2>1. CASE Failures BY <1>11, <2>1, ColumnStep
  <2>2. ASSUME ~Failures, NEW row \in Row, row.kind = "column", row.id = call.table.id,
               RowsAre(rows.pool \cup {row}, rows.disk),
               CallIs(IF Len(call.rows) + 1 = Len(call.table.cols) THEN "marker"
                      ELSE "columns",
                      call.table, Append(call.rows, row), call.marker)
        PROVE  CommittedKept'
    <3>0. /\ UNCHANGED <<lifecycle, tables, created, begun, scenario>>
          /\ ~Legacy /\ lifecycle = "open" /\ call.table # None /\ call.pc = "columns"
      BY <1>11, ColumnStep
    <3>1. Current = rows.pool /\ Current' = rows.pool \cup {row}
      BY <2>2, <3>0 DEF Current
    <3>2. Markers(Current') = Markers(Current) BY <2>2, <3>1 DEF Markers
    <3>3. ASSUME NEW t \in created PROVE OnlyColumns(Current', t)
      <4>1. OnlyColumns(rows.pool, t) BY <2>2, <3>0, <3>1
      <4>2. row.id # t.id BY <2>2, <3>0 DEF NewTable
      <4> QED BY ONLY <3>1, <4>1, <4>2, OthersAdded
    <3>4. Marked = {} BY <3>0 DEF Marked
    <3> QED BY <2>2, <3>0, <3>2, <3>3, <3>4
  <2> QED BY <1>11, <2>1, <2>2, ColumnStep
<1>12. CASE InsertMarker
  <2>1. CASE Failures BY <1>12, <2>1, MarkerStep
  <2>2. ASSUME ~Failures, NEW row \in Row, row.kind = "table", row.id = call.table.id,
               RowsAre(rows.pool \cup {row}, rows.disk),
               CallIs("flush", call.table, call.rows, row)
        PROVE  CommittedKept'
    <3>0. /\ UNCHANGED <<lifecycle, tables, created, begun, scenario>>
          /\ ~Legacy /\ lifecycle = "open" /\ call.pc = "marker"
      BY <1>12, MarkerStep
    <3>1. Current = rows.pool /\ Current' = rows.pool \cup {row}
      BY <2>2, <3>0 DEF Current
    <3>2. Markers(Current') \subseteq Markers(Current) \cup {row} BY <3>1 DEF Markers
    <3>3. ASSUME NEW t \in created PROVE OnlyColumns(Current', t)
      <4>1. OnlyColumns(rows.pool, t) BY <2>2, <3>0, <3>1
      <4>2. row.kind # "column" BY <2>2
      <4> QED BY ONLY <3>1, <4>1, <4>2, OthersAdded
    <3>4. Marked = {} /\ Marked' = {row} BY <2>2, <3>0 DEF Marked
    <3> QED BY <2>2, <3>0, <3>2, <3>3, <3>4
  <2> QED BY <1>12, <2>1, <2>2, MarkerStep
<1>13. CASE FlushMarker
  <2>1. CASE Failures BY <1>13, <2>1, FlushEffect
  <2>2. CASE ~Failures
    <3>0. /\ UNCHANGED <<lifecycle, begun, scenario>> /\ IdleNext
          /\ ~Legacy /\ lifecycle = "open" /\ call.pc = "flush"
          /\ RowsAre(rows.pool, rows.disk \cup {call.marker})
          /\ tables' = tables \cup {call.table} /\ created' = created \cup {call.table}
      BY <1>13, <2>2, FlushEffect
    <3>1. Current = rows.pool /\ Current' = rows.pool /\ Marked = {call.marker}
      BY <3>0 DEF Current, Marked
    <3>2. /\ call.marker \in rows.pool /\ call.marker.id = call.table.id
          /\ call.marker = TableRow(call.marker.rid, call.table)
          /\ Own = Listed \cup {call.marker} => OnlyColumns(rows.pool, call.table)
          /\ call.table # None
      BY <3>0, OwnRows
    <3>3. Own = Listed \cup {call.marker}
      BY <2>2, <3>0, <3>1, <3>2 DEF RowsMatch, Clean
    <3>4. HasMarker(rows.disk \cup {call.marker}, call.table) BY <3>2 DEF HasMarker
    <3>5. ASSUME NEW t \in created
          PROVE  HasMarker(rows.disk \cup {call.marker}, t) /\ OnlyColumns(rows.pool, t)
      <4>1. HasMarker(rows.disk, t) /\ OnlyColumns(rows.pool, t) BY <2>2, <3>0, <3>1
      <4> QED BY ONLY <4>1, MoreRows
    <3>6. call.marker.id \in Ids(created') /\ Ids(created) \subseteq Ids(created')
      BY <3>0, <3>2 DEF Ids
    <3>7. \A t \in created' : HasMarker(rows'.disk, t) /\ OnlyColumns(Current', t)
      BY <3>0, <3>1, <3>2, <3>3, <3>4, <3>5
    <3>8. \A m \in Markers(Current') : m.id \in Ids(created') \cup begun'
      BY <2>2, <3>0, <3>1, <3>6
    <3>9. rows'.disk \subseteq rows'.pool BY <2>2, <3>0, <3>2
    <3>10. created' \subseteq tables' BY <2>2, <3>0
    <3> QED BY <3>7, <3>8, <3>9, <3>10
  <2> QED BY <2>1, <2>2
<1>14. CASE DeleteMarker
  BY <1>14, UnmarkEffect DEF Failures
<1>15. CASE rollback_catalog_create
  BY <1>15, UndoStep DEF Failures
<1>16. CASE remove_table_file
  <2>1. Current' = Current /\ Marked' = Marked
    BY <1>16, UnfileEffect DEF Current, Marked
  <2> QED BY <1>16, <2>1, UnfileEffect
<1>17. CASE ToggleCursor
  <2>1. Current' = Current /\ Marked' = Marked
    BY <1>17 DEF Current, Marked, ToggleCursor
  <2> QED BY <1>17, <2>1 DEF ToggleCursor
<1>18. CASE WriteBack
  <2>1. CASE ~Legacy /\ ~Failures
    <3>0. UNCHANGED <<lifecycle, tables, created, begun, scenario, call>> /\ lifecycle = "open"
      BY <1>18, WriteBackEffect
    <3>1. PICK r \in rows.pool : RowsAre(rows.pool, rows.disk \cup {r})
      BY <1>18, <2>1, <3>0, WriteBackEffect
    <3>2. Current' = Current /\ Marked' = Marked BY <3>0, <3>1 DEF Current, Marked
    <3>3. ASSUME NEW t \in created PROVE HasMarker(rows'.disk, t)
      <4>1. HasMarker(rows.disk, t) /\ rows.disk \subseteq rows'.disk BY <2>1, <3>1
      <4> QED BY ONLY <4>1, MoreRows
    <3> QED BY <2>1, <3>0, <3>1, <3>2, <3>3
  <2> QED BY <1>18, <2>1, WriteBackEffect DEF Failures
<1>19. CASE ClosePool
  <2>1. CASE ~Legacy /\ ~Failures
    <3>1. /\ Current' = Current /\ Marked' = Marked
          /\ rows.disk \subseteq rows'.disk /\ rows'.disk \subseteq rows'.pool
      BY <1>19, <2>1, ClosePoolEffect DEF Current, Marked
    <3>2. ASSUME NEW t \in created PROVE HasMarker(rows'.disk, t)
      <4>1. HasMarker(rows.disk, t) BY <2>1
      <4> QED BY ONLY <3>1, <4>1, MoreRows
    <3> QED BY <1>19, <2>1, <3>1, <3>2, ClosePoolEffect
  <2> QED BY <1>19, <2>1, ClosePoolEffect DEF Failures
<1>20. CASE CloseFiles
  <2>1. Current' = Current /\ Marked' = Marked
    BY <1>20, CloseFilesEffect DEF Current, Marked
  <2> QED BY <1>20, <2>1, CloseFilesEffect
<1>21. CASE Crash
  <2>1. CASE ~Legacy /\ ~Failures
    <3>1. Current' = rows.disk /\ Current' \subseteq Current
      BY <1>21, <2>1, CrashEffect DEF Current
    <3>2. Markers(Current') \subseteq Markers(Current) BY <3>1 DEF Markers
    <3>3. ASSUME NEW t \in created PROVE OnlyColumns(Current', t)
      <4>1. OnlyColumns(Current, t) BY <2>1
      <4> QED BY ONLY <3>1, <4>1, MoreRows
    <3>4. \A m \in Marked : m.id \in begun'
      <4>1. CASE call.pc \in {"flush", "unmark"}
        BY <1>21, <4>1, CrashEffect, OwnRows DEF Marked
      <4> QED BY <4>1 DEF Marked
    <3>5. begun \subseteq begun' BY <1>21, CrashEffect
    <3> QED BY <1>21, <2>1, <3>1, <3>2, <3>3, <3>4, <3>5, CrashEffect
  <2> QED BY <1>21, <2>1, CrashEffect DEF Failures
<1>22. CASE UNCHANGED vars
  <2>1. Current' = Current /\ Marked' = Marked
    BY <1>22 DEF Current, Marked, vars
  <2> QED BY <1>22, <2>1 DEF vars
<1> QED BY <1>1, <1>2, <1>3, <1>4, <1>5, <1>6, <1>7, <1>8, <1>9, <1>10, <1>11,
          <1>12, <1>13, <1>14, <1>15, <1>16, <1>17, <1>18, <1>19, <1>20, <1>21,
          <1>22 DEF Next

-----------------------------------------------------------------------------
(* The theorems *)

LEMMA InitInv ==
  ASSUME Init
  PROVE  StorageInv
<1>1. /\ call.pc = "idle" /\ call.table = None /\ call.rows = <<>> /\ call.marker = None
      /\ rows.pool = {} /\ rows.disk = {}
  BY IdleCall DEF Init
<1>2. dir.tmp = FALSE /\ dir.files = {} /\ dir.meta.tables = {}
      /\ dir.meta.kind = IF Legacy THEN "legacy" ELSE "none"
  BY DEF Init, LegacyMeta, NoMeta
<1>3. Types
  <2>1. CallTypes
    <3>1. <<>> \in Seq(Row) BY EmptySeq
    <3> QED BY <3>1 DEF Init, Idle, CallTypes, Steps
  <2>2. RowTypes BY FS_EmptySet DEF Init, RowTypes
  <2>3. (IF Legacy THEN LegacyMeta({}) ELSE NoMeta) \in Metas
    BY DEF LegacyMeta, NoMeta, Metas
  <2> QED BY <2>1, <2>2, <2>3 DEF Init, Types
<1>4. Control BY <1>1 DEF Init, Control, Adding
<1>5. CallRows /\ NewTable /\ FilesThere BY <1>1
  DEF Init, CallRows, NewTable, FilesThere, Adding
<1>6. RowsMatch /\ Flushed BY DEF Init, RowsMatch, Flushed
<1>7. MetaMatches BY <1>1, <1>2 DEF Init, MetaMatches
<1>8. Saved BY <1>2 DEF Init, Saved, Fresh
<1>9. CreatedKept /\ CommittedKept
  <2>1. Current = {} /\ Markers(Current) = {} BY <1>1 DEF Init, Current, Markers
  <2> QED BY <2>1 DEF Init, CreatedKept, CommittedKept
<1>10. LegacyMatches BY <1>1, <1>2 DEF Init, LegacyMatches, Ids
<1> QED BY <1>3, <1>4, <1>5, <1>6, <1>7, <1>8, <1>9, <1>10 DEF StorageInv

LEMMA NextInv ==
  ASSUME StorageInv, [Next]_vars
  PROVE  StorageInv'
BY TypesStep, ControlStep, CallRowsStep, NewTableStep, FilesThereStep, RowsMatchStep,
   MetaMatchesStep, FlushedStep, SavedStep, CreatedKeptStep, CommittedKeptStep,
   LegacyMatchesStep
   DEF StorageInv

(* The inductive invariant holds in every reachable state, whatever fails,  *)
(* crashes or is lost.                                                     *)
THEOREM Invariance == Spec => []StorageInv
BY InitInv, NextInv, PTL DEF Spec

(* A failed create_table leaves nothing behind: unless a step of the       *)
(* rollback failed as well, the rows of the system tables are, between     *)
(* calls, a catalog that load_user_catalog accepts and that describes      *)
(* exactly the tables in memory, and the files of those are there.         *)
THEOREM CatalogAlwaysAgrees == Spec => []CatalogAgrees
<1>1. StorageInv => CatalogAgrees
  <2> SUFFICES ASSUME StorageInv, lifecycle = "open", call = Idle, leftover = {}
               PROVE  /\ ~Legacy => CatalogValid(rows.pool) /\ CatalogTables(rows.pool) = tables
                      /\ Ids(tables) \subseteq open_files \cap dir.files
    BY DEF CatalogAgrees
  <2>1. call.table = None BY IdleCall
  <2>2. Base = rows.pool BY <2>1 DEF Base
  <2>3. ~Legacy => CatalogValid(rows.pool) /\ CatalogTables(rows.pool) = tables
    BY <2>2 DEF StorageInv, RowsMatch, Clean
  <2>4. Ids(tables) \subseteq open_files \cap dir.files BY DEF StorageInv, FilesThere
  <2> QED BY <2>3, <2>4
<1> QED BY <1>1, Invariance, PTL

(* A closed directory reopens with exactly the tables whose create_table   *)
(* has succeeded, whatever calls have failed, if their clean-up did not    *)
(* fail and nothing the pool held was lost; a legacy directory also after  *)
(* a crash.                                                                *)
THEOREM ReopensAsCreated == Spec => []ReopenShowsCreated
<1>1. StorageInv => ReopenShowsCreated
  <2> SUFFICES ASSUME StorageInv, lifecycle = "closed", call = Idle, leftover = {},
                      Legacy \/ lost = {}
               PROVE  Reopens
    BY DEF ReopenShowsCreated
  <2>1. CASE Legacy
    BY <2>1 DEF StorageInv, LegacyMatches, Reopens, Openable, Shown
  <2>2. CASE ~Legacy
    <3>1. \/ Fresh /\ created = {}
          \/ /\ dir.meta.kind = "bootstrap"
             /\ CatalogValid(rows.disk) /\ CatalogTables(rows.disk) = created
             /\ dir.files = SystemIds \cup Ids(created)
      BY <2>2 DEF StorageInv, Saved
    <3> QED BY <3>1 DEF Reopens, Openable, Shown, FilesMatch
  <2> QED BY <2>1, <2>2
<1> QED BY <1>1, Invariance, PTL

(* Every table of an accepted catalog that no one created has a marker     *)
(* that is not of a created table.                                         *)
LEMMA OtherMarkers ==
  ASSUME NEW R, CatalogValid(R), NEW ts, ts \subseteq CatalogTables(R),
         NEW u \in CatalogTables(R) \ ts
  PROVE  \E m \in Markers(R) : m.id = u.id /\ m.id \notin Ids(ts)
<1>1. PICK m \in Markers(R) : u.id = m.id BY MadeOf
<1>2. ASSUME m.id \in Ids(ts) PROVE FALSE
  <2>1. PICK v \in ts : v.id = m.id BY <1>2 DEF Ids
  <2>2. v = u BY <1>1, <2>1, OneTableForId
  <2> QED BY <2>1, <2>2
<1> QED BY <1>1, <1>2

(* open_storage never accepts a directory that misses a table whose        *)
(* create_table has succeeded, or that has it with another schema, and a   *)
(* table that it shows besides is of a call that could not be undone or    *)
(* that a crash cut off.  It holds when file operations may fail, when     *)
(* pages may be lost, and for a legacy directory; with failures and losses *)
(* together it does not, since columns that were undone in the pool only   *)
(* may complete the marker of a later table with the same id.              *)
THEOREM FailsClosed ==
  Spec => []((Legacy \/ ~Failures \/ lost = {}) => FailClosed)
<1>1. StorageInv => ((Legacy \/ ~Failures \/ lost = {}) => FailClosed)
  <2> SUFFICES ASSUME StorageInv, Legacy \/ ~Failures \/ lost = {},
                      lifecycle = "closed", call = Idle, Openable
               PROVE  created \subseteq Shown /\ Ids(Shown \ created) \subseteq leftover \cup begun
    BY DEF FailClosed
  <2>1. CASE Legacy
    <3>1. Shown = created BY <2>1 DEF StorageInv, LegacyMatches, Shown
    <3> QED BY <3>1 DEF Ids
  <2>2. CASE ~Legacy
    <3> DEFINE D == rows.disk
    <3>1. CatalogValid(D) /\ Shown = CatalogTables(D)
      BY <2>2 DEF Openable, Shown, StorageInv, MetaMatches
    <3>2. Current = D /\ Marked = {} BY IdleCall DEF Current, Marked
    <3>3. IsFiniteSet(D) /\ created \subseteq Tables BY DEF StorageInv, Types, RowTypes
    <3>4. created \subseteq Shown
      <4> SUFFICES ASSUME NEW t \in created PROVE t \in CatalogTables(D)
        BY <3>1
      <4>1. CASE lost = {}
        <5>1. HasMarker(D, t) /\ HasColumns(D, t)
          BY <2>2, <3>2, <4>1 DEF StorageInv, CreatedKept
        <5> QED BY <3>1, <3>3, <5>1, ShownIfComplete
      <4>2. CASE ~Failures
        <5>1. HasMarker(D, t) /\ OnlyColumns(D, t)
          BY <2>2, <3>2, <4>2 DEF StorageInv, CommittedKept
        <5> QED BY <3>1, <3>3, <5>1, ShownIfAlone
      <4> QED BY <2>2, <4>1, <4>2
    <3>5. \A m \in Markers(D) : m.id \in Ids(created) \cup leftover \cup begun
      <4>1. CASE lost = {}
        <5> SUFFICES ASSUME NEW m \in Markers(D) PROVE m.id \in Ids(created) \cup leftover
          OBVIOUS
        <5>1. MarkerOf(created, m) \/ m.id \in leftover
          BY <2>2, <3>2, <4>1 DEF StorageInv, CreatedKept
        <5>2. ASSUME NEW t \in created, m = TableRow(m.rid, t) PROVE m.id \in Ids(created)
          <6>1. m.id = t.id BY ONLY <5>2, MarkerFields
          <6> QED BY <6>1 DEF Ids
        <5> QED BY <5>1, <5>2 DEF MarkerOf
      <4>2. CASE ~Failures
        BY <2>2, <3>2, <4>2 DEF StorageInv, CommittedKept
      <4> QED BY <2>2, <4>1, <4>2
    <3>6. ASSUME NEW u \in Shown \ created PROVE u.id \in leftover \cup begun
      <4>1. \E m \in Markers(D) : m.id = u.id /\ m.id \notin Ids(created)
        BY ONLY <3>1, <3>4, u \in Shown \ created, OtherMarkers
      <4> QED BY <3>5, <4>1
    <3> QED BY <3>4, <3>6 DEF Ids
  <2> QED BY <2>1, <2>2
<1> QED BY <1>1, Invariance, PTL

(* A cursor on a system table sees a catalog that does not change under    *)
(* it: create_table refuses before its first row, and no other step        *)
(* touches the pool's rows while the storage stays open.                   *)
THEOREM CatalogStableUnderCursor == Spec => StableUnderCursor
<1>1. StorageInv /\ [Next]_vars => [cursor /\ cursor' => rows'.pool = rows.pool]_vars
  <2> SUFFICES ASSUME StorageInv, Next, cursor, cursor' PROVE rows'.pool = rows.pool
    OBVIOUS
  <2>0. /\ Types /\ Control /\ CallRows /\ lifecycle \notin {"closed", "opening"}
        /\ call.pc \notin Adding \cup {"undo"}
    BY DEF StorageInv, Control
  <2> USE DEF RowsAre, Resets, Adding
  <2>1. CASE open_storage \/ InitializeCatalog \/ MakeSystemTables \/ MakeSystemColumns
             \/ LoadNew \/ rollback_initialization
    BY <2>0, <2>1, OpenEffect, InitializeEffect, SystemTablesEffect, SystemColumnsEffect,
       LoadEffect, UninitEffect
  <2>2. CASE WriteTemporary \/ ReplaceMetadata \/ MetadataFails
    BY <2>0, <2>2, WriteEffect, ReplaceEffect, MetadataFailsEffect
  <2>3. CASE \E t \in Tables : create_table(t)
    BY <2>0, <2>3, CreateTableEffect
  <2>4. CASE InsertColumn \/ InsertMarker \/ FlushMarker \/ DeleteMarker
             \/ rollback_catalog_create \/ remove_table_file
    BY <2>0, <2>4, ColumnStep, MarkerStep, FlushEffect, UnmarkEffect, UndoStep, UnfileEffect
  <2>5. CASE ToggleCursor BY <2>5 DEF ToggleCursor
  <2>6. CASE WriteBack \/ ClosePool \/ CloseFiles \/ Crash
    BY <2>0, <2>6, WriteBackEffect, ClosePoolEffect, CloseFilesEffect, CrashEffect
  <2> QED BY <2>1, <2>2, <2>3, <2>4, <2>5, <2>6 DEF Next
<1> QED BY <1>1, Invariance, PTL DEF Spec, StableUnderCursor
=============================================================================
