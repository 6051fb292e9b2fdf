----------------------------- MODULE PageStore -----------------------------
(***************************************************************************)
(* What the buffer pool promises the threads that use it, without frames,  *)
(* eviction or I/O: a page has one content, a thread that holds a guard on *)
(* a page goes on holding that page until it releases the guard, and only  *)
(* a thread that holds a guard changes the content.  Everything the pool   *)
(* does on its own account (loading, evicting, writing back, prefetching,  *)
(* flushing, releasing a table, closing) is invisible here.                *)
(***************************************************************************)
CONSTANTS
  Clients,  \* threads that fetch pages
  Keys,     \* PageKeys (TableId, PageId)
  Values,   \* page contents
  None      \* "no guard"

VARIABLES
  content,  \* content[k]: what a holder of k sees and a later fetch will see
  guard     \* guard[c]: the page on which c holds a PageGuard, or None

vars == <<content, guard>>

TypeOK ==
  /\ content \in [Keys -> Values]
  /\ guard \in [Clients -> Keys \cup {None}]

Init ==
  /\ content \in [Keys -> Values]
  /\ guard = [c \in Clients |-> None]

(* fetch_page returns a guard. *)
Acquire(c, k) ==
  /\ guard[c] = None
  /\ guard' = [guard EXCEPT ![c] = k]
  /\ UNCHANGED content

(* The holder changes the page through PageGuard::mutable_page. *)
Write(c, v) ==
  /\ guard[c] # None
  /\ content' = [content EXCEPT ![guard[c]] = v]
  /\ UNCHANGED guard

(* PageGuard::release or its destructor. *)
Release(c) ==
  /\ guard[c] # None
  /\ guard' = [guard EXCEPT ![c] = None]
  /\ UNCHANGED content

Next ==
  \E c \in Clients :
    \/ \E k \in Keys : Acquire(c, k)
    \/ \E v \in Values : Write(c, v)
    \/ Release(c)

Spec == Init /\ [][Next]_vars
=============================================================================
