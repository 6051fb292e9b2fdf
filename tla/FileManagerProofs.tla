------------------------- MODULE FileManagerProofs -------------------------
(***************************************************************************)
(* The guarantees of FileManager for any number of callers, leases and     *)
(* tables.                                                                 *)
(***************************************************************************)
EXTENDS FileManager, FiniteSetTheorems, TLAPS

(* Whoever is past its wait closes files without leases. *)
ClosersDrained ==
  \A c \in Callers :
    /\ pc[c] \in {"close_table", "finish_table"} => in_flight[tbl[c]] = 0
    /\ pc[c] = "close_files" => \A b \in Tables : in_flight[b] = 0

(* Which PageFiles are closed, and by whom. *)
FilesAccounted ==
  /\ \A b \in Tables : b \in open_files <=> file[b] # "none"
  /\ \A b \in Tables : file[b] = "closed" => b \in closing_tables
  /\ \A c \in Callers :
       /\ pc[c] \in {"drain_table", "close_table"} => file[tbl[c]] # "closed"
       /\ pc[c] = "finish_table" => (tbl[c] \in failed[c] <=> file[tbl[c]] # "closed")
       /\ pc[c] = "close_files" =>
            /\ closing_tables = open_files
            /\ todo[c] \subseteq open_files
            /\ failed[c] \cap todo[c] = {}
            /\ \A b \in open_files : file[b] = "closed" <=> b \notin todo[c] \cup failed[c]
       /\ pc[c] \notin {"finish_table", "close_files"} => failed[c] = {}

(* What a lease refers to exists. *)
LeasesValid ==
  \A l \in Leases : lease[l] # None =>
    lease[l] \in open_files /\ file[lease[l]] \in {"open", "stuck"}

(* The inductive invariant. *)
IInv ==
  /\ TypeOK
  /\ LeasesCounted
  /\ ClosersExclusive
  /\ ClosersDrained
  /\ FilesAccounted
  /\ LeasesValid

(***************************************************************************)
(* Counting leases                                                         *)
(***************************************************************************)
LeasesOn(b) == {l \in Leases : lease[l] = b}

(* The leases on a table are finitely many. *)
LEMMA LeasesFinite ==
  \A b : IsFiniteSet(LeasesOn(b)) /\ Cardinality(LeasesOn(b)) \in Nat
BY FilesAssumption, FS_Subset, FS_CardinalityType DEF LeasesOn

(* A table with a lease is not drained. *)
LEMMA LeasedNotDrained ==
  ASSUME LeasesCounted, NEW l \in Leases, lease[l] \in Tables
  PROVE  in_flight[lease[l]] # 0
<1>1. l \in LeasesOn(lease[l]) BY DEF LeasesOn
<1>2. Cardinality(LeasesOn(lease[l])) # 0
  BY <1>1, LeasesFinite, FS_EmptySet
<1> QED BY <1>2 DEF LeasesCounted, LeasesOn

(***************************************************************************)
(* One lemma per action                                                    *)
(***************************************************************************)
(* The invariant holds before any call. *)
LEMMA InitIInv == Init => IInv
<1> SUFFICES ASSUME Init PROVE IInv OBVIOUS
<1>1. TypeOK
  BY DEF Init, TypeOK, FileStates
<1>2. LeasesCounted
  <2>1. \A b \in Tables : {l \in Leases : lease[l] = b} = {}
    BY FilesAssumption DEF Init
  <2> QED BY <2>1, FS_EmptySet DEF Init, LeasesCounted
<1>3. ClosersExclusive
  BY DEF Init, ClosersExclusive, TablePc, AllPc
<1>4. ClosersDrained
  BY DEF Init, ClosersDrained
<1>5. FilesAccounted
  BY DEF Init, FilesAccounted
<1>6. LeasesValid
  BY DEF Init, LeasesValid
<1> QED BY <1>1, <1>2, <1>3, <1>4, <1>5, <1>6 DEF IInv

(* A new lease is counted, and only on a file that nobody is closing. *)
LEMMA AcquireStep ==
  ASSUME IInv, NEW l \in Leases, NEW b \in Tables, acquire_file(l, b)
  PROVE  IInv'
<1> USE DEF IInv
<1>1. TypeOK'
  BY DEF TypeOK, acquire_file, files, closing, local
<1>2. LeasesCounted'
  <2>1. ASSUME NEW d \in Tables
        PROVE  in_flight'[d] = Cardinality({m \in Leases : lease'[m] = d})
    <3>1. IsFiniteSet(LeasesOn(d)) /\ in_flight[d] = Cardinality(LeasesOn(d))
      BY LeasesFinite DEF LeasesCounted, LeasesOn
    <3>2. CASE d = b
      <4>1. {m \in Leases : lease'[m] = d} = LeasesOn(d) \cup {l} /\ l \notin LeasesOn(d)
        BY <3>2, FilesAssumption DEF acquire_file, TypeOK, LeasesOn
      <4>2. in_flight'[d] = in_flight[d] + 1
        BY <3>2 DEF acquire_file, TypeOK
      <4> QED BY <3>1, <4>1, <4>2, FS_AddElement
    <3>3. CASE d # b
      <4>1. {m \in Leases : lease'[m] = d} = LeasesOn(d)
        BY <3>3, FilesAssumption DEF acquire_file, TypeOK, LeasesOn
      <4>2. in_flight'[d] = in_flight[d]
        BY <3>3 DEF acquire_file, TypeOK
      <4> QED BY <3>1, <4>1, <4>2
    <3> QED BY <3>2, <3>3
  <2> QED BY <2>1 DEF LeasesCounted
<1>3. ClosersExclusive'
  BY DEF acquire_file, ClosersExclusive, files, closing, local
<1>4. ClosersDrained'
  BY DEF acquire_file, ClosersDrained, ClosersExclusive, Admits, files, closing,
         local, TablePc, AllPc, TypeOK
<1>5. FilesAccounted'
  BY DEF acquire_file, FilesAccounted, files, closing, local
<1>6. LeasesValid'
  <2>1. file[b] \in {"open", "stuck"}
    BY DEF acquire_file, Admits, FilesAccounted, TypeOK, FileStates
  <2> QED BY <2>1 DEF acquire_file, LeasesValid, files, TypeOK
<1> QED BY <1>1, <1>2, <1>3, <1>4, <1>5, <1>6

(* A released lease is no longer counted. *)
LEMMA ReleaseStep ==
  ASSUME IInv, NEW l \in Leases, release_lease(l)
  PROVE  IInv'
<1> USE DEF IInv
<1>0. PICK b \in Tables : lease[l] = b
  BY DEF release_lease, TypeOK
<1>a. in_flight[b] \in Nat \ {0}
  BY <1>0, LeasedNotDrained DEF TypeOK
<1>1. TypeOK'
  BY <1>0, <1>a DEF TypeOK, release_lease, Emptied, files, closing, local
<1>2. LeasesCounted'
  <2>1. ASSUME NEW d \in Tables
        PROVE  in_flight'[d] = Cardinality({m \in Leases : lease'[m] = d})
    <3>1. IsFiniteSet(LeasesOn(d)) /\ in_flight[d] = Cardinality(LeasesOn(d))
      BY LeasesFinite DEF LeasesCounted, LeasesOn
    <3>2. CASE d = b
      <4>1. {m \in Leases : lease'[m] = d} = LeasesOn(d) \ {l} /\ l \in LeasesOn(d)
        BY <1>0, <3>2, FilesAssumption DEF release_lease, Emptied, TypeOK, LeasesOn
      <4>2. in_flight'[d] = in_flight[d] - 1
        BY <1>0, <3>2 DEF release_lease, TypeOK
      <4> QED BY <3>1, <4>1, <4>2, FS_RemoveElement
    <3>3. CASE d # b
      <4>1. {m \in Leases : lease'[m] = d} = LeasesOn(d)
        BY <1>0, <3>3, FilesAssumption DEF release_lease, Emptied, TypeOK, LeasesOn
      <4>2. in_flight'[d] = in_flight[d]
        BY <1>0, <3>3 DEF release_lease, TypeOK
      <4> QED BY <3>1, <4>1, <4>2
    <3> QED BY <3>2, <3>3
  <2> QED BY <2>1 DEF LeasesCounted
<1>3. ClosersExclusive'
  BY DEF release_lease, ClosersExclusive, files, closing, local
<1>4. ClosersDrained'
  <2>1. \A d \in Tables : in_flight[d] = 0 => in_flight'[d] = 0
    BY <1>0, <1>a DEF release_lease, TypeOK
  <2>2. \A c \in Callers : pc[c] \in TablePc => tbl[c] \in Tables
    BY DEF ClosersExclusive, TypeOK
  <2> QED BY <2>1, <2>2 DEF release_lease, ClosersDrained, local, TablePc
<1>5. FilesAccounted'
  BY DEF release_lease, FilesAccounted, files, closing, local
<1>6. LeasesValid'
  BY DEF release_lease, Emptied, LeasesValid, files, TypeOK
<1> QED BY <1>1, <1>2, <1>3, <1>4, <1>5, <1>6

(* Opening a file concerns a table that nobody leases or closes. *)
LEMMA OpenStep ==
  ASSUME IInv, NEW c \in Callers, NEW b \in Tables,
         create_table_file(c, b) \/ open_table_file(c, b)
  PROVE  IInv'
<1> USE DEF IInv
<1>1. /\ UNCHANGED <<in_flight, closing_tables, close_all_in_progress, lease, pc,
                     tbl, removing, todo, failed, asleep>>
      /\ ~close_all_in_progress /\ b \notin closing_tables /\ b \notin open_files
      /\ on_disk' \in SUBSET Tables
      /\ \/ open_files' = open_files \cup {b} /\ file' = [file EXCEPT ![b] = "open"]
         \/ UNCHANGED <<open_files, file>>
  BY DEF create_table_file, open_table_file, Opened, Admits, closing, local, TypeOK
<1>2. TypeOK'
  BY <1>1 DEF TypeOK, FileStates
<1>3. LeasesCounted' /\ ClosersDrained'
  BY <1>1 DEF LeasesCounted, ClosersDrained
<1>4. ClosersExclusive'
  BY <1>1 DEF ClosersExclusive
<1>5. FilesAccounted'
  <2>1. \A d \in Callers : pc[d] # "close_files"
    BY <1>1 DEF ClosersExclusive, AllPc
  <2>2. \A d \in Callers : pc[d] \in TablePc => tbl[d] # b
    BY <1>1 DEF ClosersExclusive
  <2>3. \A d \in Tables : d # b => file'[d] = file[d]
    BY <1>1 DEF TypeOK
  <2>4. \A d \in Callers : pc[d] \in TablePc => tbl[d] \in Tables
    BY DEF ClosersExclusive, TypeOK
  <2>5. \A d \in Tables : file'[d] = "closed" => file[d] = "closed"
    BY <1>1 DEF TypeOK
  <2>6. \A d \in Tables : d \in open_files' <=> file'[d] # "none"
    BY <1>1 DEF TypeOK, FilesAccounted
  <2> QED BY <1>1, <2>1, <2>2, <2>3, <2>4, <2>5, <2>6 DEF FilesAccounted, TablePc
<1>6. LeasesValid'
  BY <1>1 DEF LeasesValid, TypeOK
<1> QED BY <1>2, <1>3, <1>4, <1>5, <1>6

(* A close begins on a table that nobody else is closing. *)
LEMMA CloseTableFileStep ==
  ASSUME IInv, NEW c \in Callers, NEW b \in Tables, NEW rm \in BOOLEAN,
         close_table_file(c, b, rm)
  PROVE  IInv'
<1> USE DEF IInv
<1>1. /\ UNCHANGED <<open_files, file, on_disk, in_flight, close_all_in_progress,
                     lease, todo, failed>>
      /\ closing_tables' = closing_tables \cup {b}
      /\ tbl' = [tbl EXCEPT ![c] = b]
      /\ removing' = [removing EXCEPT ![c] = rm]
      /\ asleep' \in SUBSET Callers
      /\ b \in open_files /\ b \notin closing_tables /\ ~close_all_in_progress
      /\ pc[c] = "idle"
  BY DEF close_table_file, Admits, files
<1>2. PICK q \in {"close_table", "drain_table"} :
        pc' = [pc EXCEPT ![c] = q] /\ (q = "close_table" => in_flight[b] = 0)
  BY DEF close_table_file, Drained
<1>3. \A d \in Callers : pc[d] \in TablePc => d # c /\ tbl[d] # b
  BY <1>1 DEF ClosersExclusive, TablePc
<1>4. \A d \in Callers : pc[d] \notin AllPc
  BY <1>1 DEF ClosersExclusive
<1>5. TypeOK'
  BY <1>1, <1>2 DEF TypeOK, TablePc
<1>6. LeasesCounted' /\ LeasesValid'
  BY <1>1 DEF LeasesCounted, LeasesValid
<1>7. ClosersExclusive'
  BY <1>1, <1>2, <1>3, <1>4 DEF ClosersExclusive, TypeOK, TablePc, AllPc
<1>8. ClosersDrained'
  BY <1>1, <1>2, <1>3, <1>4 DEF ClosersDrained, TypeOK, TablePc, AllPc
<1>9. FilesAccounted'
  BY <1>1, <1>2, <1>3, <1>4 DEF FilesAccounted, TypeOK, TablePc, AllPc
<1> QED BY <1>5, <1>6, <1>7, <1>8, <1>9

(* Going back to sleep concerns nobody. *)
LEMMA SleepOnStep ==
  ASSUME IInv, NEW c \in Callers, SleepOn(c)
  PROVE  IInv'
<1> USE DEF IInv, SleepOn, files, closing, local
<1>1. TypeOK' BY DEF TypeOK
<1>2. LeasesCounted' /\ LeasesValid' BY DEF LeasesCounted, LeasesValid
<1>3. ClosersExclusive' BY DEF ClosersExclusive
<1>4. ClosersDrained' BY DEF ClosersDrained
<1>5. FilesAccounted' BY DEF FilesAccounted
<1> QED BY <1>1, <1>2, <1>3, <1>4, <1>5

(* The wait of close_table_file ends with the table drained. *)
LEMMA TableDrainedStep ==
  ASSUME IInv, NEW c \in Callers, TableDrained(c)
  PROVE  IInv'
<1> USE DEF IInv, TableDrained, files, closing, local
<1>1. TypeOK' BY DEF TypeOK, TablePc
<1>2. LeasesCounted' /\ LeasesValid' BY DEF LeasesCounted, LeasesValid
<1>3. ClosersExclusive' BY DEF ClosersExclusive, TablePc, AllPc, TypeOK
<1>4. ClosersDrained' BY DEF ClosersDrained, Drained, TypeOK
<1>5. FilesAccounted' BY DEF FilesAccounted, TypeOK
<1> QED BY <1>1, <1>2, <1>3, <1>4, <1>5

(* PageFile::close changes the one file, and records whether it failed. *)
LEMMA ClosePageFileFacts ==
  ASSUME TypeOK, NEW c \in Callers, NEW b \in Tables, ClosePageFile(c, b)
  PROVE  /\ file' \in [Tables -> FileStates]
         /\ failed' \in [Callers -> SUBSET Tables]
         /\ file[b] \in {"open", "stuck"}
         /\ file'[b] \in {"open", "stuck", "closed"}
         /\ \A d \in Tables : d # b => file'[d] = file[d]
         /\ \A d \in Callers : d # c => failed'[d] = failed[d]
         /\ failed'[c] = IF file'[b] = "closed" THEN failed[c]
                         ELSE failed[c] \cup {b}
<1>1. CASE /\ file[b] = "open" /\ failed' = failed
           /\ file' = [file EXCEPT ![b] = "closed"]
  BY <1>1 DEF TypeOK, FileStates
<1>2. CASE /\ file[b] \in {"open", "stuck"}
           /\ \E s \in {file[b], "stuck"} : file' = [file EXCEPT ![b] = s]
           /\ failed' = [failed EXCEPT ![c] = @ \cup {b}]
  <2>1. PICK s \in {"open", "stuck"} : file' = [file EXCEPT ![b] = s]
    BY <1>2
  <2>2. failed' \in [Callers -> SUBSET Tables] /\ failed'[c] = failed[c] \cup {b}
    BY <1>2 DEF TypeOK
  <2> QED BY <1>2, <2>1, <2>2 DEF TypeOK, FileStates
<1> QED BY <1>1, <1>2 DEF ClosePageFile

(* The closer of a table closes a file that nobody leases. *)
LEMMA CloseTableStep ==
  ASSUME IInv, NEW c \in Callers, CloseTable(c)
  PROVE  IInv'
<1> USE DEF IInv
<1>0. PICK b \in Tables : tbl[c] = b /\ b \in open_files \cap closing_tables
  BY DEF CloseTable, ClosersExclusive, TablePc, TypeOK
<1>1. /\ UNCHANGED <<open_files, on_disk, in_flight, closing_tables,
                     close_all_in_progress, lease, tbl, removing, todo, asleep>>
      /\ pc' = [pc EXCEPT ![c] = "finish_table"]
      /\ pc[c] = "close_table" /\ ClosePageFile(c, b)
  BY <1>0 DEF CloseTable, closing
<1>2. /\ file' \in [Tables -> FileStates]
      /\ failed' \in [Callers -> SUBSET Tables]
      /\ file[b] \in {"open", "stuck"}
      /\ file'[b] \in {"open", "stuck", "closed"}
      /\ \A d \in Tables : d # b => file'[d] = file[d]
      /\ \A d \in Callers : d # c => failed'[d] = failed[d]
      /\ failed'[c] = IF file'[b] = "closed" THEN failed[c] ELSE failed[c] \cup {b}
  BY <1>1, ClosePageFileFacts
<1>3. /\ \A d \in Callers : pc[d] \in TablePc => tbl[d] \in Tables /\ (tbl[d] = b => d = c)
      /\ \A d \in Callers : pc[d] # "close_files"
  BY <1>0, <1>1 DEF ClosersExclusive, TablePc, TypeOK
<1>4. TypeOK'
  BY <1>1, <1>2 DEF TypeOK, TablePc
<1>5. LeasesCounted'
  BY <1>1 DEF LeasesCounted
<1>6. ClosersExclusive'
  BY <1>1 DEF ClosersExclusive, TypeOK, TablePc, AllPc
<1>7. ClosersDrained'
  BY <1>1 DEF ClosersDrained, TypeOK
<1>8. FilesAccounted'
  <2>1. failed[c] = {} BY <1>1 DEF FilesAccounted
  <2>2. \A d \in Tables : d \in open_files' <=> file'[d] # "none"
    BY <1>0, <1>1, <1>2 DEF FilesAccounted
  <2>3. \A d \in Tables : file'[d] = "closed" => d \in closing_tables'
    BY <1>0, <1>1, <1>2 DEF FilesAccounted
  <2>4. ASSUME NEW d \in Callers
        PROVE  /\ pc'[d] \in {"drain_table", "close_table"} => file'[tbl'[d]] # "closed"
               /\ pc'[d] = "finish_table"
                    => (tbl'[d] \in failed'[d] <=> file'[tbl'[d]] # "closed")
               /\ pc'[d] # "close_files"
               /\ pc'[d] \notin {"finish_table", "close_files"} => failed'[d] = {}
    <3>1. CASE d = c
      BY <3>1, <1>0, <1>1, <1>2, <2>1 DEF TypeOK
    <3>2. CASE d # c
      <4>1. pc'[d] = pc[d] /\ failed'[d] = failed[d] /\ tbl'[d] = tbl[d]
        BY <3>2, <1>1, <1>2 DEF TypeOK
      <4>2. pc[d] \in TablePc => file'[tbl[d]] = file[tbl[d]]
        BY <3>2, <1>2, <1>3
      <4> QED BY <4>1, <4>2, <1>3 DEF FilesAccounted, TablePc
    <3> QED BY <3>1, <3>2
  <2> QED BY <2>2, <2>3, <2>4 DEF FilesAccounted
<1>9. LeasesValid'
  <2>1. ASSUME NEW l \in Leases, lease[l] # None PROVE lease[l] # b
    <3>1. lease[l] \in Tables BY <2>1 DEF TypeOK
    <3>2. in_flight[b] = 0 BY <1>0, <1>1 DEF ClosersDrained
    <3> QED BY <3>1, <3>2, LeasedNotDrained
  <2>2. ASSUME NEW l \in Leases, lease[l] # None
        PROVE  lease[l] \in open_files /\ file'[lease[l]] \in {"open", "stuck"}
    <3>1. lease[l] \in Tables /\ lease[l] # b BY <2>1, <2>2 DEF TypeOK
    <3> QED BY <2>2, <3>1, <1>2 DEF LeasesValid
  <2> QED BY <1>1, <2>2 DEF LeasesValid
<1> QED BY <1>4, <1>5, <1>6, <1>7, <1>8, <1>9

(* The file goes away if it was closed, the mark in any case. *)
LEMMA FinishTableStep ==
  ASSUME IInv, NEW c \in Callers, FinishTable(c)
  PROVE  IInv' /\ \A b \in open_files \ open_files' : file[b] = "closed"
<1> USE DEF IInv
<1>0. PICK b \in Tables : tbl[c] = b /\ b \in open_files \cap closing_tables
  BY DEF FinishTable, ClosersExclusive, TablePc, TypeOK
<1>1. /\ UNCHANGED <<on_disk, in_flight, close_all_in_progress, lease, todo>>
      /\ closing_tables' = closing_tables \ {b}
      /\ asleep' = {}
      /\ failed' = [failed EXCEPT ![c] = {}]
      /\ removing' = [removing EXCEPT ![c] = FALSE]
      /\ pc[c] = "finish_table"
  BY <1>0 DEF FinishTable, NotifyFinished
<1>2. PICK q \in {"unlink", "idle"}, t \in Tables \cup {None} :
        pc' = [pc EXCEPT ![c] = q] /\ tbl' = [tbl EXCEPT ![c] = t]
  BY <1>0 DEF FinishTable
<1>3. /\ file' \in [Tables -> FileStates]
      /\ open_files' \in SUBSET Tables
      /\ IF file[b] = "closed" THEN open_files' = open_files \ {b} /\ file'[b] = "none"
                               ELSE open_files' = open_files /\ file'[b] = file[b]
      /\ \A d \in Tables : d # b => file'[d] = file[d]
  <2>1. b \in failed[c] <=> file[b] # "closed"
    BY <1>0, <1>1 DEF FilesAccounted
  <2>2. /\ open_files' = open_files \ ({b} \ failed[c])
        /\ file' = [d \in Tables |-> IF d \in {b} \ failed[c] THEN "none" ELSE file[d]]
    BY <1>0 DEF FinishTable, Erase
  <2>3. \A d \in Tables : d \in {b} \ failed[c] <=> d = b /\ file[b] = "closed"
    BY <2>1
  <2> QED BY <2>2, <2>3 DEF TypeOK, FileStates
<1>4. /\ \A d \in Callers : pc[d] \in TablePc => tbl[d] \in Tables /\ (tbl[d] = b => d = c)
      /\ \A d \in Callers : pc[d] # "close_files"
  BY <1>0, <1>1 DEF ClosersExclusive, TablePc, TypeOK
<1>5. TypeOK'
  BY <1>1, <1>2, <1>3 DEF TypeOK
<1>6. LeasesCounted'
  BY <1>1 DEF LeasesCounted
<1>7. ClosersExclusive'
  <2>1. \A d \in Callers : pc'[d] \in TablePc =>
          d # c /\ pc[d] \in TablePc /\ tbl'[d] = tbl[d] /\ tbl[d] # b
    BY <1>1, <1>2, <1>4 DEF TypeOK, TablePc
  <2>2. \A d \in Callers : pc'[d] \in AllPc => pc[d] \in AllPc
    BY <1>1, <1>2 DEF TypeOK, AllPc
  <2>3. \A d \in Callers : pc'[d] # "close_files"
    BY <1>1, <1>2, <1>4 DEF TypeOK
  <2> QED BY <1>1, <1>3, <2>1, <2>2, <2>3 DEF ClosersExclusive
<1>8. ClosersDrained'
  BY <1>1, <1>2, <1>4 DEF ClosersDrained, TypeOK
<1>9. FilesAccounted'
  <2>1. \A d \in Tables : d \in open_files' <=> file'[d] # "none"
    BY <1>0, <1>3 DEF FilesAccounted
  <2>2. \A d \in Tables : file'[d] = "closed" => d \in closing_tables'
    BY <1>1, <1>3 DEF FilesAccounted
  <2>3. ASSUME NEW d \in Callers
        PROVE  /\ pc'[d] \in {"drain_table", "close_table"} => file'[tbl'[d]] # "closed"
               /\ pc'[d] = "finish_table"
                    => (tbl'[d] \in failed'[d] <=> file'[tbl'[d]] # "closed")
               /\ pc'[d] # "close_files"
               /\ pc'[d] \notin {"finish_table", "close_files"} => failed'[d] = {}
    <3>1. CASE d = c
      BY <3>1, <1>1, <1>2 DEF TypeOK
    <3>2. CASE d # c
      <4>1. pc'[d] = pc[d] /\ failed'[d] = failed[d] /\ tbl'[d] = tbl[d]
        BY <3>2, <1>1, <1>2 DEF TypeOK
      <4>2. pc[d] \in TablePc => file'[tbl[d]] = file[tbl[d]]
        BY <3>2, <1>3, <1>4
      <4> QED BY <4>1, <4>2, <1>4 DEF FilesAccounted, TablePc
    <3> QED BY <3>1, <3>2
  <2> QED BY <2>1, <2>2, <2>3 DEF FilesAccounted
<1>10. LeasesValid'
  <2>1. ASSUME NEW l \in Leases, lease[l] # None PROVE lease[l] # b
    <3>1. lease[l] \in Tables BY <2>1 DEF TypeOK
    <3>2. in_flight[b] = 0 BY <1>0, <1>1 DEF ClosersDrained
    <3> QED BY <3>1, <3>2, LeasedNotDrained
  <2>2. ASSUME NEW l \in Leases, lease[l] # None
        PROVE  lease[l] \in open_files' /\ file'[lease[l]] \in {"open", "stuck"}
    <3>1. lease[l] \in Tables /\ lease[l] # b BY <2>1, <2>2 DEF TypeOK
    <3> QED BY <2>2, <3>1, <1>3 DEF LeasesValid
  <2> QED BY <1>1, <2>2 DEF LeasesValid
<1>11. \A d \in open_files \ open_files' : file[d] = "closed"
  BY <1>3
<1> QED BY <1>5, <1>6, <1>7, <1>8, <1>9, <1>10, <1>11

(* Removing a directory entry concerns no open file. *)
LEMMA RemoveStep ==
  ASSUME IInv, NEW c \in Callers,
         Unlink(c) \/ \E b \in Tables : remove_table_file(c, b)
  PROVE  IInv'
<1> USE DEF IInv
<1>1. /\ UNCHANGED <<open_files, file, in_flight, closing_tables,
                     close_all_in_progress, lease, removing, todo, failed, asleep>>
      /\ on_disk' \in SUBSET Tables
      /\ pc[c] \in {"idle", "unlink"}
  BY DEF Unlink, remove_table_file, files, closing, TypeOK
<1>2. PICK q \in {"unlink", "idle"}, t \in Tables \cup {None} :
        pc' = [pc EXCEPT ![c] = q] /\ tbl' = [tbl EXCEPT ![c] = t]
  BY DEF Unlink, remove_table_file
<1>3. TypeOK' BY <1>1, <1>2 DEF TypeOK
<1>4. LeasesCounted' /\ LeasesValid' BY <1>1 DEF LeasesCounted, LeasesValid
<1>5. ClosersExclusive'
  BY <1>1, <1>2 DEF ClosersExclusive, TablePc, AllPc, TypeOK
<1>6. ClosersDrained' BY <1>1, <1>2 DEF ClosersDrained, TypeOK
<1>7. FilesAccounted' BY <1>1, <1>2 DEF FilesAccounted, TypeOK
<1> QED BY <1>3, <1>4, <1>5, <1>6, <1>7

(* close_all keeps other closers out, and waits for those at work. *)
LEMMA DrainAllStep ==
  ASSUME IInv, NEW c \in Callers, pc[c] = "idle", ~close_all_in_progress,
         close_all_in_progress' = TRUE,
         pc' = [pc EXCEPT ![c] = "drain_all"], asleep' = {c},
         UNCHANGED <<closing_tables, todo, files, in_flight, lease, tbl, removing, failed>>
  PROVE  IInv'
<1> USE DEF IInv, files
<1>1. TypeOK' BY DEF TypeOK, AllPc
<1>2. LeasesCounted' /\ LeasesValid' BY DEF LeasesCounted, LeasesValid
<1>3. ClosersExclusive' BY DEF ClosersExclusive, TablePc, AllPc, TypeOK
<1>4. ClosersDrained' BY DEF ClosersDrained, TypeOK
<1>5. FilesAccounted' BY DEF FilesAccounted, TypeOK
<1> QED BY <1>1, <1>2, <1>3, <1>4, <1>5

(* close_all marks every open file when no lease and no closer is left. *)
LEMMA CollectStep ==
  ASSUME IInv, NEW c \in Callers, Collect(c), CloseAllReady,
         \/ pc[c] = "idle" /\ ~close_all_in_progress
         \/ pc[c] = "drain_all",
         close_all_in_progress' = TRUE, asleep' \in {asleep, {}},
         UNCHANGED <<files, in_flight, lease, tbl, removing, failed>>
  PROVE  IInv'
<1> USE DEF IInv, files
<1>1. /\ \A b \in Tables : in_flight[b] = 0 /\ file[b] # "closed"
      /\ \A d \in Callers : pc[d] \notin TablePc
      /\ \A d \in Callers : pc[d] \in AllPc => d = c
      /\ pc[c] # "close_files" /\ failed[c] = {}
  BY DEF CloseAllReady, Drained, ClosersExclusive, FilesAccounted, AllPc
<1>2. TypeOK' BY DEF TypeOK, AllPc, Collect
<1>3. LeasesCounted' /\ LeasesValid' BY DEF LeasesCounted, LeasesValid
<1>4. ClosersExclusive' BY <1>1 DEF ClosersExclusive, TablePc, AllPc, TypeOK, Collect
<1>5. ClosersDrained' BY <1>1 DEF ClosersDrained, TypeOK, Collect, TablePc
<1>6. FilesAccounted'
  <2>1. \A d \in Callers : d # c => pc'[d] = pc[d] /\ pc[d] \notin TablePc \cup AllPc
    BY <1>1 DEF Collect, TypeOK
  <2>2. pc'[c] = "close_files" /\ todo'[c] = open_files /\ closing_tables' = open_files
    BY DEF Collect, TypeOK
  <2> QED BY <1>1, <2>1, <2>2 DEF FilesAccounted, TypeOK, TablePc, AllPc
<1> QED BY <1>2, <1>3, <1>4, <1>5, <1>6

(* close_all closes files that nobody leases. *)
LEMMA CloseNextStep ==
  ASSUME IInv, NEW c \in Callers, CloseNext(c)
  PROVE  IInv'
<1> USE DEF IInv
<1>1. /\ UNCHANGED <<open_files, on_disk, in_flight, closing_tables,
                     close_all_in_progress, lease, pc, tbl, removing, asleep>>
      /\ pc[c] = "close_files"
      /\ todo[c] \subseteq open_files /\ closing_tables = open_files
  BY DEF CloseNext, closing, FilesAccounted
<1>0. PICK b \in Tables : /\ b \in todo[c] /\ b \in open_files
                          /\ todo' = [todo EXCEPT ![c] = @ \ {b}]
                          /\ ClosePageFile(c, b)
  BY <1>1 DEF CloseNext, TypeOK
<1>2. /\ file' \in [Tables -> FileStates]
      /\ failed' \in [Callers -> SUBSET Tables]
      /\ file[b] \in {"open", "stuck"}
      /\ file'[b] \in {"open", "stuck", "closed"}
      /\ \A d \in Tables : d # b => file'[d] = file[d]
      /\ \A d \in Callers : d # c => failed'[d] = failed[d]
      /\ failed'[c] = IF file'[b] = "closed" THEN failed[c] ELSE failed[c] \cup {b}
  BY <1>0, ClosePageFileFacts
<1>3. /\ \A d \in Callers : pc[d] \notin TablePc
      /\ \A d \in Callers : pc[d] \in AllPc => d = c
  BY <1>1 DEF ClosersExclusive, AllPc
<1>4. TypeOK'
  BY <1>0, <1>1, <1>2 DEF TypeOK
<1>5. LeasesCounted' /\ ClosersExclusive' /\ ClosersDrained'
  BY <1>1 DEF LeasesCounted, ClosersExclusive, ClosersDrained
<1>6. FilesAccounted'
  <2>1. \A d \in Tables : d \in open_files' <=> file'[d] # "none"
    BY <1>0, <1>1, <1>2 DEF FilesAccounted
  <2>2. \A d \in Tables : file'[d] = "closed" => d \in closing_tables'
    BY <1>0, <1>1, <1>2 DEF FilesAccounted
  <2>3. todo'[c] = todo[c] \ {b}
    BY <1>0 DEF TypeOK
  <2>4. b \notin failed[c] /\ failed[c] \cap todo[c] = {}
    BY <1>0, <1>1 DEF FilesAccounted
  <2>5. todo'[c] \subseteq open_files /\ failed'[c] \cap todo'[c] = {}
    BY <1>1, <1>2, <2>3, <2>4
  <2>6. \A d \in open_files : file'[d] = "closed" <=> d \notin todo'[c] \cup failed'[c]
    <3>1. ASSUME NEW d \in open_files
          PROVE  file'[d] = "closed" <=> d \notin todo'[c] \cup failed'[c]
      <4>1. d \in Tables BY DEF TypeOK
      <4>2. CASE d = b BY <4>2, <1>2, <2>3, <2>4
      <4>3. CASE d # b
        <5>1. file[d] = "closed" <=> d \notin todo[c] \cup failed[c]
          BY <1>1 DEF FilesAccounted
        <5> QED BY <4>1, <4>3, <5>1, <1>2, <2>3
      <4> QED BY <4>2, <4>3
    <3> QED BY <3>1
  <2>7. \A d \in Callers : d # c =>
          pc'[d] \notin TablePc \cup AllPc /\ failed'[d] = {}
    BY <1>1, <1>2, <1>3 DEF FilesAccounted, TablePc, AllPc
  <2> QED BY <1>1, <2>1, <2>2, <2>5, <2>6, <2>7 DEF FilesAccounted, TablePc, AllPc
<1>7. LeasesValid'
  <2>1. \A l \in Leases : lease[l] = None
    <3>1. \A l \in Leases : lease[l] # None => lease[l] \in Tables
      BY DEF TypeOK
    <3> QED BY <1>1, <3>1, LeasedNotDrained DEF ClosersDrained
  <2> QED BY <1>1, <2>1 DEF LeasesValid
<1> QED BY <1>4, <1>5, <1>6, <1>7

(* close_all destroys what it closed and takes its marks away. *)
LEMMA FinishAllStep ==
  ASSUME IInv, NEW c \in Callers, FinishAll(c)
  PROVE  IInv' /\ \A b \in open_files \ open_files' : file[b] = "closed"
<1> USE DEF IInv
<1>1. /\ UNCHANGED <<on_disk, in_flight, lease, tbl, removing, todo>>
      /\ closing_tables' = {} /\ close_all_in_progress' = FALSE /\ asleep' = {}
      /\ pc' = [pc EXCEPT ![c] = "idle"]
      /\ failed' = [failed EXCEPT ![c] = {}]
      /\ pc[c] = "close_files" /\ todo[c] = {}
  BY DEF FinishAll
<1>2. /\ closing_tables = open_files
      /\ \A b \in open_files : file[b] = "closed" <=> b \notin failed[c]
  BY <1>1 DEF FilesAccounted
<1>3. /\ open_files' = open_files \cap failed[c]
      /\ file' \in [Tables -> FileStates]
      /\ \A b \in Tables : file'[b] = IF b \in open_files \ failed[c] THEN "none" ELSE file[b]
  BY <1>2 DEF FinishAll, Erase, TypeOK, FileStates
<1>4. /\ \A d \in Callers : pc[d] \notin TablePc
      /\ \A d \in Callers : pc[d] \in AllPc => d = c
  BY <1>1 DEF ClosersExclusive, AllPc
<1>5. \A d \in Callers : pc'[d] \notin TablePc \cup AllPc
  BY <1>1, <1>4 DEF TypeOK, TablePc, AllPc
<1>6. TypeOK'
  BY <1>1, <1>3 DEF TypeOK
<1>7. LeasesCounted'
  BY <1>1 DEF LeasesCounted
<1>8. ClosersExclusive' /\ ClosersDrained'
  BY <1>5 DEF ClosersExclusive, ClosersDrained, TablePc, AllPc
<1>9. FilesAccounted'
  <2>1. \A b \in Tables : /\ b \in open_files' <=> file'[b] # "none"
                          /\ file'[b] # "closed"
    BY <1>2, <1>3 DEF FilesAccounted
  <2>2. \A d \in Callers : failed'[d] = {}
    BY <1>1, <1>4 DEF FilesAccounted, TypeOK, TablePc, AllPc
  <2> QED BY <1>5, <2>1, <2>2 DEF FilesAccounted, TablePc, AllPc
<1>10. LeasesValid'
  <2>1. \A l \in Leases : lease[l] # None => lease[l] \in Tables
    BY DEF TypeOK
  <2>2. \A l \in Leases : lease[l] = None
    BY <1>1, <2>1, LeasedNotDrained DEF ClosersDrained
  <2> QED BY <1>1, <2>2 DEF LeasesValid
<1>11. \A b \in open_files \ open_files' : file[b] = "closed"
  BY <1>2, <1>3
<1> QED BY <1>6, <1>7, <1>8, <1>9, <1>10, <1>11

(* A stuttering step changes nothing. *)
LEMMA StutterStep == ASSUME IInv, UNCHANGED vars PROVE IInv'
<1> USE DEF IInv, vars, files, closing, local
<1>1. TypeOK' BY DEF TypeOK
<1>2. LeasesCounted' /\ LeasesValid' BY DEF LeasesCounted, LeasesValid
<1>3. ClosersExclusive' BY DEF ClosersExclusive
<1>4. ClosersDrained' BY DEF ClosersDrained
<1>5. FilesAccounted' BY DEF FilesAccounted
<1> QED BY <1>1, <1>2, <1>3, <1>4, <1>5

(* Every step keeps the invariant, and destroys closed files only. *)
LEMMA NextStep ==
  ASSUME IInv, [Next]_vars
  PROVE  IInv' /\ (UNCHANGED vars \/ \A b \in open_files \ open_files' : file[b] = "closed")
<1>1. CASE UNCHANGED vars
  BY <1>1, StutterStep
<1>2. ASSUME NEW l \in Leases, LeaseStep(l)
      PROVE  IInv' /\ open_files' = open_files
  BY <1>2, AcquireStep, ReleaseStep DEF LeaseStep, acquire_file, release_lease, files
<1>3. ASSUME NEW c \in Callers, Begin(c)
      PROVE  IInv' /\ open_files \subseteq open_files'
  <2>1. ASSUME NEW b \in Tables, create_table_file(c, b) \/ open_table_file(c, b)
        PROVE  IInv' /\ open_files \subseteq open_files'
    BY <2>1, OpenStep DEF create_table_file, open_table_file, Opened
  <2>2. ASSUME NEW b \in Tables, NEW rm \in BOOLEAN, close_table_file(c, b, rm)
        PROVE  IInv' /\ open_files \subseteq open_files'
    BY <2>2, CloseTableFileStep DEF close_table_file, files
  <2>3. ASSUME NEW b \in Tables, remove_table_file(c, b)
        PROVE  IInv' /\ open_files \subseteq open_files'
    BY <2>3, RemoveStep DEF remove_table_file, files
  <2>4. CASE close_all(c)
    <3>1. CASE CloseAllReady
      BY <2>4, <3>1, CollectStep DEF close_all, files
    <3>2. CASE ~CloseAllReady
      BY <2>4, <3>2, DrainAllStep DEF close_all, files
    <3> QED BY <3>1, <3>2
  <2> QED BY <1>3, <2>1, <2>2, <2>3, <2>4 DEF Begin
<1>4. ASSUME NEW c \in Callers, Continue(c)
      PROVE  IInv' /\ \A b \in open_files \ open_files' : file[b] = "closed"
  <2>1. CASE SleepOn(c) BY <2>1, SleepOnStep DEF SleepOn, files
  <2>2. CASE TableDrained(c) BY <2>2, TableDrainedStep DEF TableDrained, files
  <2>3. CASE CloseTable(c) BY <2>3, CloseTableStep DEF CloseTable
  <2>4. CASE FinishTable(c) BY <2>4, FinishTableStep
  <2>5. CASE Unlink(c) BY <2>5, RemoveStep DEF Unlink
  <2>6. CASE AllDrained(c)
    <3>1. close_all_in_progress = TRUE
      BY <2>6 DEF AllDrained, IInv, ClosersExclusive, AllPc, TypeOK
    <3> QED BY <2>6, <3>1, CollectStep DEF AllDrained, files
  <2>7. CASE CloseNext(c) BY <2>7, CloseNextStep DEF CloseNext
  <2>8. CASE FinishAll(c) BY <2>8, FinishAllStep
  <2> QED BY <1>4, <2>1, <2>2, <2>3, <2>4, <2>5, <2>6, <2>7, <2>8 DEF Continue
<1> QED BY <1>1, <1>2, <1>3, <1>4 DEF Next

(***************************************************************************)
(* The theorems                                                            *)
(***************************************************************************)
(* The inductive invariant holds in every reachable state. *)
THEOREM Invariance == Spec => []IInv
<1>1. Init => IInv BY InitIInv
<1>2. IInv /\ [Next]_vars => IInv' BY NextStep
<1> QED BY <1>1, <1>2, PTL DEF Spec

(* The promise of acquire_file: nobody closes or destroys a PageFile while *)
(* there is a lease on it.                                                 *)
THEOREM LeasesProtectFiles == Spec => []LeasedFilesOpen
<1>1. IInv => LeasedFilesOpen
  <2> SUFFICES ASSUME IInv, NEW l \in Leases, lease[l] # None
               PROVE  /\ lease[l] \in open_files
                      /\ file[lease[l]] \in {"open", "stuck"}
                      /\ \A c \in Callers :
                           /\ pc[c] \in {"close_table", "finish_table"} => tbl[c] # lease[l]
                           /\ pc[c] # "close_files"
    BY DEF LeasedFilesOpen
  <2>1. lease[l] \in Tables BY DEF IInv, TypeOK
  <2>2. in_flight[lease[l]] # 0 BY <2>1, LeasedNotDrained DEF IInv
  <2> QED BY <2>1, <2>2 DEF IInv, LeasesValid, ClosersDrained
<1> QED BY <1>1, Invariance, PTL

(* release_lease always finds its table in in_flight_. *)
THEOREM LeasesAlwaysCounted == Spec => []LeasesCounted
<1>1. IInv => LeasesCounted BY DEF IInv
<1> QED BY <1>1, Invariance, PTL

(* close_table_file always finds its table again after the wait, and no    *)
(* two callers close the same file.                                        *)
THEOREM ClosersAlwaysExclusive == Spec => []ClosersExclusive
<1>1. IInv => ClosersExclusive BY DEF IInv
<1> QED BY <1>1, Invariance, PTL

(* Only a successful PageFile::close gives up the file. *)
THEOREM OwnersAlwaysKept == Spec => OwnersKept
<1>1. IInv /\ [Next]_vars => [\A b \in open_files \ open_files' : file[b] = "closed"]_vars
  BY NextStep
<1> QED BY <1>1, Invariance, PTL DEF Spec, OwnersKept
=============================================================================
