---------------------------- MODULE MCHeapTable ----------------------------
(* Small instances of HeapTable. *)
EXTENDS HeapTable

(* As shipped, with failing operations, and with the worker of the         *)
(* prefetch experiment.                                                    *)
MCConfigs == {[prefetch |-> FALSE, faults |-> TRUE], [prefetch |-> TRUE, faults |-> FALSE]}

FaultyPrefetch == {[prefetch |-> TRUE, faults |-> TRUE]}
=============================================================================
