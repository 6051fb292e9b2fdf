---------------------------- MODULE FileManager ----------------------------
(***************************************************************************)
(* FileManager of src/src/storage/file_manager.{h,cpp}: the owner of the   *)
(* table files.  Whoever does I/O holds a PageFileLease; closing a file    *)
(* waits until its leases are gone and keeps new ones out meanwhile.       *)
(*                                                                         *)
(* A step is one critical section of mutex_, one PageFile::close done      *)
(* outside it, or one removal of a directory entry.  A caller that sleeps  *)
(* on state_changed_ is in asleep; it looks at its condition again only    *)
(* after a notify_all.                                                     *)
(*                                                                         *)
(* PageFileLease objects are movable, so they belong to no caller here;    *)
(* file-manager.md: one that is never released is its holder's error.      *)
(***************************************************************************)
EXTENDS Naturals, FiniteSets

CONSTANTS
  Callers,   \* threads calling the manager
  Leases,    \* PageFileLease objects
  Tables,    \* TableIds
  None

ASSUME FilesAssumption ==
  /\ IsFiniteSet(Leases)
  /\ None \notin Tables

VARIABLES
  open_files,            \* open_files_: the tables with a PageFile
  file,                  \* file[b]: the PageFile itself, see FileStates
  on_disk,               \* tables whose file has a directory entry
  in_flight,             \* in_flight_: leases per table, 0 for no entry
  closing_tables,        \* closing_tables_
  close_all_in_progress, \* close_all_in_progress_
  lease,                 \* lease[l]: the table of an active lease, or None
  pc,                    \* where each caller is
  tbl,                   \* table_id of a caller's close_table_file
  removing,              \* the close is the first half of remove_table_file
  todo,                  \* files of close_all not closed yet
  failed,                \* tables whose PageFile::close failed in this call
  asleep                 \* callers waiting for a notify_all

files == <<open_files, file, on_disk>>
closing == <<closing_tables, close_all_in_progress>>
local == <<tbl, removing, todo, failed>>
vars == <<files, in_flight, closing, lease, pc, local, asleep>>

(* "stuck": a close reported an error although the stream did close, so    *)
(* that open_ stays true and every later close fails.                      *)
FileStates == {"none", "open", "stuck", "closed"}

DrainPc == {"drain_table", "drain_all"}                   \* in state_changed_.wait
TablePc == {"drain_table", "close_table", "finish_table"} \* in close_table_file
AllPc == {"drain_all", "close_files"}                     \* in close_all

(* Every variable has its type. *)
TypeOK ==
  /\ open_files \in SUBSET Tables
  /\ file \in [Tables -> FileStates]
  /\ on_disk \in SUBSET Tables
  /\ in_flight \in [Tables -> Nat]
  /\ closing_tables \in SUBSET Tables
  /\ close_all_in_progress \in BOOLEAN
  /\ lease \in [Leases -> Tables \cup {None}]
  /\ pc \in [Callers -> {"idle", "unlink"} \cup TablePc \cup AllPc]
  /\ tbl \in [Callers -> Tables \cup {None}]
  /\ removing \in [Callers -> BOOLEAN]
  /\ todo \in [Callers -> SUBSET Tables]
  /\ failed \in [Callers -> SUBSET Tables]
  /\ asleep \in SUBSET Callers

Init ==
  /\ open_files = {}
  /\ file = [b \in Tables |-> "none"]
  /\ on_disk \in SUBSET Tables
  /\ in_flight = [b \in Tables |-> 0]
  /\ closing_tables = {}
  /\ close_all_in_progress = FALSE
  /\ lease = [l \in Leases |-> None]
  /\ pc = [c \in Callers |-> "idle"]
  /\ tbl = [c \in Callers |-> None]
  /\ removing = [c \in Callers |-> FALSE]
  /\ todo = [c \in Callers |-> {}]
  /\ failed = [c \in Callers |-> {}]
  /\ asleep = {}

(***************************************************************************)
(* Opening and leasing: each one critical section.  A refused call changes *)
(* nothing and is not a step.                                              *)
(***************************************************************************)
(* Neither this table nor the manager as a whole is being closed. *)
Admits_TableOnly(b) == b \notin closing_tables
Admits(b) == ~close_all_in_progress /\ b \notin closing_tables

Opened(b) ==
  /\ open_files' = open_files \cup {b}
  /\ file' = [file EXCEPT ![b] = "open"]

(* PageFile::create refuses an existing file.  It may also fail and leave  *)
(* the new directory entry behind.                                         *)
create_table_file(c, b) ==
  /\ pc[c] = "idle"
  /\ Admits(b) /\ b \notin open_files /\ b \notin on_disk
  /\ on_disk' = on_disk \cup {b}
  /\ Opened(b) \/ UNCHANGED <<open_files, file>>
  /\ UNCHANGED <<in_flight, closing, lease, pc, local, asleep>>

(* A file that is open already is returned as it is. *)
open_table_file(c, b) ==
  /\ pc[c] = "idle"
  /\ Admits(b) /\ b \notin open_files /\ b \in on_disk
  /\ Opened(b)
  /\ UNCHANGED <<on_disk, in_flight, closing, lease, pc, local, asleep>>

acquire_file(l, b) ==
  /\ lease[l] = None
  /\ Admits(b) /\ b \in open_files
  /\ in_flight' = [in_flight EXCEPT ![b] = @ + 1]
  /\ lease' = [lease EXCEPT ![l] = b]
  /\ UNCHANGED <<files, closing, pc, local, asleep>>

(* A released or moved-from lease is empty and cannot be released again. *)
Emptied(l) == [lease EXCEPT ![l] = None]

release_lease(l) ==
  /\ lease[l] # None
  /\ in_flight' = [in_flight EXCEPT ![lease[l]] = @ - 1]
  /\ lease' = Emptied(l)
  /\ asleep' = {}
  /\ UNCHANGED <<files, closing, pc, local>>

(***************************************************************************)
(* close_table_file                                                        *)
(***************************************************************************)
Drained(b) == in_flight[b] = 0

(* The condition of a caller's wait. *)
CloseAllReady == closing_tables = {} /\ \A b \in Tables : Drained(b)

close_table_file(c, b, rm) ==
  /\ pc[c] = "idle"
  /\ Admits(b) /\ b \in open_files
  /\ closing_tables' = closing_tables \cup {b}
  /\ pc' = [pc EXCEPT ![c] = IF Drained(b) THEN "close_table" ELSE "drain_table"]
  /\ asleep' = IF Drained(b) THEN {} ELSE {c}
  /\ tbl' = [tbl EXCEPT ![c] = b]
  /\ removing' = [removing EXCEPT ![c] = rm]
  /\ UNCHANGED <<files, in_flight, close_all_in_progress, lease, todo, failed>>

(* A notified caller looks at its condition, and sleeps on or goes on. *)
SleepOn(c) ==
  /\ pc[c] \in DrainPc
  /\ c \notin asleep
  /\ ~IF pc[c] = "drain_table" THEN Drained(tbl[c]) ELSE CloseAllReady
  /\ asleep' = asleep \cup {c}
  /\ UNCHANGED <<files, in_flight, closing, lease, pc, local>>

TableDrained(c) ==
  /\ pc[c] = "drain_table"
  /\ c \notin asleep
  /\ Drained(tbl[c])
  /\ pc' = [pc EXCEPT ![c] = "close_table"]
  /\ UNCHANGED <<files, in_flight, closing, lease, local, asleep>>

ClosePageFile_ErrorLost(c, b) ==
  /\ file[b] \in {"open", "stuck"}
  /\ \E s \in {file[b], "stuck", "closed"} : file' = [file EXCEPT ![b] = s]
  /\ UNCHANGED failed

(* PageFile::close, outside mutex_. *)
ClosePageFile(c, b) ==
  \/ /\ file[b] = "open"
     /\ file' = [file EXCEPT ![b] = "closed"]
     /\ failed' = failed
  \/ /\ file[b] \in {"open", "stuck"}
     /\ \E s \in {file[b], "stuck"} : file' = [file EXCEPT ![b] = s]
     /\ failed' = [failed EXCEPT ![c] = @ \cup {b}]

CloseTable(c) ==
  /\ pc[c] = "close_table"
  /\ ClosePageFile(c, tbl[c])
  /\ pc' = [pc EXCEPT ![c] = "finish_table"]
  /\ UNCHANGED <<open_files, on_disk, in_flight, closing, lease, tbl, removing,
                 todo, asleep>>

(* The PageFiles of the tables in S are destroyed. *)
Erase(S) ==
  /\ open_files' = open_files \ S
  /\ file' = [b \in Tables |-> IF b \in S THEN "none" ELSE file[b]]

NotifyFinished_None(c) == asleep
NotifyFinished(c) == {}

(* A file whose close failed keeps its PageFile.  remove_table_file goes   *)
(* on to the directory entry only after a successful close.                *)
FinishTable(c) ==
  LET b == tbl[c]
      goOn == removing[c] /\ b \notin failed[c]
  IN /\ pc[c] = "finish_table"
     /\ Erase({b} \ failed[c])
     /\ closing_tables' = closing_tables \ {b}
     /\ asleep' = NotifyFinished(c)
     /\ pc' = [pc EXCEPT ![c] = IF goOn THEN "unlink" ELSE "idle"]
     /\ tbl' = [tbl EXCEPT ![c] = IF goOn THEN b ELSE None]
     /\ removing' = [removing EXCEPT ![c] = FALSE]
     /\ failed' = [failed EXCEPT ![c] = {}]
     /\ UNCHANGED <<on_disk, in_flight, close_all_in_progress, lease, todo>>

(***************************************************************************)
(* remove_table_file                                                       *)
(***************************************************************************)
(* close_table_file succeeds at once for a table that is not open. *)
remove_table_file(c, b) ==
  /\ pc[c] = "idle"
  /\ Admits(b) /\ b \notin open_files
  /\ pc' = [pc EXCEPT ![c] = "unlink"]
  /\ tbl' = [tbl EXCEPT ![c] = b]
  /\ UNCHANGED <<files, in_flight, closing, lease, removing, todo, failed, asleep>>

(* The removal may fail. *)
Unlink(c) ==
  /\ pc[c] = "unlink"
  /\ on_disk' \in {on_disk, on_disk \ {tbl[c]}}
  /\ pc' = [pc EXCEPT ![c] = "idle"]
  /\ tbl' = [tbl EXCEPT ![c] = None]
  /\ UNCHANGED <<open_files, file, in_flight, closing, lease, removing, todo,
                 failed, asleep>>

(***************************************************************************)
(* close_all, also called by the destructor                                *)
(***************************************************************************)
(* The files to close are listed in the critical section that ends the wait. *)
Collect(c) ==
  /\ pc' = [pc EXCEPT ![c] = "close_files"]
  /\ closing_tables' = open_files
  /\ todo' = [todo EXCEPT ![c] = open_files]

close_all(c) ==
  /\ pc[c] = "idle"
  /\ ~close_all_in_progress
  /\ close_all_in_progress' = TRUE
  /\ \/ CloseAllReady /\ Collect(c) /\ asleep' = {}
     \/ /\ ~CloseAllReady
        /\ pc' = [pc EXCEPT ![c] = "drain_all"]
        /\ asleep' = {c}
        /\ UNCHANGED <<closing_tables, todo>>
  /\ UNCHANGED <<files, in_flight, lease, tbl, removing, failed>>

AllDrained(c) ==
  /\ pc[c] = "drain_all"
  /\ c \notin asleep
  /\ CloseAllReady
  /\ Collect(c)
  /\ UNCHANGED <<files, in_flight, close_all_in_progress, lease, tbl, removing,
                 failed, asleep>>

(* One file after the other, in no particular order, past any failure. *)
CloseNext(c) ==
  /\ pc[c] = "close_files"
  /\ \E b \in todo[c] : /\ ClosePageFile(c, b)
                        /\ todo' = [todo EXCEPT ![c] = @ \ {b}]
  /\ UNCHANGED <<open_files, on_disk, in_flight, closing, lease, pc, tbl,
                 removing, asleep>>

FinishAll(c) ==
  /\ pc[c] = "close_files"
  /\ todo[c] = {}
  /\ Erase(closing_tables \ failed[c])
  /\ closing_tables' = {}
  /\ close_all_in_progress' = FALSE
  /\ asleep' = {}
  /\ pc' = [pc EXCEPT ![c] = "idle"]
  /\ failed' = [failed EXCEPT ![c] = {}]
  /\ UNCHANGED <<on_disk, in_flight, lease, tbl, removing, todo>>

(***************************************************************************)
(* Specification                                                           *)
(***************************************************************************)
Begin(c) ==
  \/ \E b \in Tables : \/ create_table_file(c, b) \/ open_table_file(c, b)
                       \/ \E rm \in BOOLEAN : close_table_file(c, b, rm)
                       \/ remove_table_file(c, b)
  \/ close_all(c)

Continue(c) ==
  \/ SleepOn(c) \/ TableDrained(c) \/ CloseTable(c) \/ FinishTable(c)
  \/ Unlink(c) \/ AllDrained(c) \/ CloseNext(c) \/ FinishAll(c)

LeaseStep(l) == release_lease(l) \/ \E b \in Tables : acquire_file(l, b)

Next == \/ \E c \in Callers : Begin(c) \/ Continue(c)
        \/ \E l \in Leases : LeaseStep(l)

Spec == Init /\ [][Next]_vars

(* A thread inside a call goes on, and a lease is released some time.      *)
FairSpec ==
  /\ Spec
  /\ \A c \in Callers : WF_vars(Continue(c))
  /\ \A l \in Leases : WF_vars(release_lease(l))

(***************************************************************************)
(* What the manager guarantees                                             *)
(***************************************************************************)
(* A file is neither closed nor destroyed, nor is anybody about to, while  *)
(* somebody has a lease on it: the promise of acquire_file in              *)
(* file-manager.md, and why a lease may be dereferenced without mutex_.    *)
LeasedFilesOpen ==
  \A l \in Leases : lease[l] # None =>
    /\ lease[l] \in open_files
    /\ file[lease[l]] \in {"open", "stuck"}
    /\ \A c \in Callers :
         /\ pc[c] \in {"close_table", "finish_table"} => tbl[c] # lease[l]
         /\ pc[c] # "close_files"

(* in_flight_ counts the leases, so release_lease never finds a missing    *)
(* entry (it would terminate the process).                                 *)
LeasesCounted ==
  \A b \in Tables : in_flight[b] = Cardinality({l \in Leases : lease[l] = b})

(* Closers do not disturb one another: each one's table stays open and     *)
(* marked until it has finished (else close_table_file terminates when it  *)
(* looks the table up after its wait), no two close the same table, and    *)
(* close_all, which clears every mark, closes alone.                       *)
ClosersExclusive ==
  \A c \in Callers :
    /\ pc[c] \in TablePc =>
         /\ tbl[c] \in open_files \cap closing_tables
         /\ \A d \in Callers : pc[d] \in TablePc /\ tbl[d] = tbl[c] => c = d
         /\ \A d \in Callers : pc[d] # "close_files"
    /\ pc[c] \in AllPc =>
         close_all_in_progress /\ \A d \in Callers : pc[d] \in AllPc => c = d

(* A PageFile is destroyed only after its close succeeded: a failed close  *)
(* leaves the owner in place ("FileManager retains failed PageFile owners, *)
(* so each retry continues outstanding file cleanup", storage.cpp).        *)
OwnersKept == [][\A b \in open_files \ open_files' : file[b] = "closed"]_vars

(* Every close returns, as long as leases are released: nobody sleeps      *)
(* through the notification it waits for, and two closers never wait for   *)
(* each other.                                                             *)
ClosesReturn == \A c \in Callers : pc[c] # "idle" ~> pc[c] = "idle"
=============================================================================
