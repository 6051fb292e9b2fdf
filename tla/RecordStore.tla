----------------------------- MODULE RecordStore -----------------------------
(***************************************************************************)
(* What a record page promises its callers: records under record ids, and  *)
(* an id that has been given out once is never given out for another       *)
(* record.                                                                 *)
(***************************************************************************)
CONSTANTS
    Rids,       \* record ids
    Payloads    \* what a record can hold

VARIABLES
    records,    \* the payload of each live record
    used        \* the ids given out so far

vars == <<records, used>>

Init == records = [r \in {} |-> {}] /\ used = {}

Insert(r, p) ==
    /\ r \notin used
    /\ used' = used \cup {r}
    /\ records' = [x \in DOMAIN records \cup {r} |-> IF x = r THEN p ELSE records[x]]

Replace(r, p) ==
    /\ r \in DOMAIN records
    /\ records' = [records EXCEPT ![r] = p]
    /\ UNCHANGED used

Erase(r) ==
    /\ r \in DOMAIN records
    /\ records' = [x \in DOMAIN records \ {r} |-> records[x]]
    /\ UNCHANGED used

Next ==
    \E r \in Rids :
        \/ \E p \in Payloads : Insert(r, p) \/ Replace(r, p)
        \/ Erase(r)

Spec == Init /\ [][Next]_vars
=============================================================================
