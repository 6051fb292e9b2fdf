-------------------------------- MODULE MCCli --------------------------------
(* Small instances of Cli. *)
EXTENDS Cli, TLC

CONSTANTS tab1, Others     \* the only table, the other objects

S(kind) == [kind |-> kind, table |-> tab1]

(* What a script can meet: a table it has just made, or made twice, rows   *)
(* to change, and an error in front of more work.                          *)
MCScripts ==
    {<<S("create"), S("insert")>>, <<S("create"), S("create")>>,
     <<S("insert"), S("delete")>>, <<S("update"), S("query")>>,
     <<S("bad"), S("create"), S("insert")>>, <<S("delete"), S("insert")>>}

MCPolicies ==
    {[analyze |-> FALSE, plan_only |-> FALSE], [analyze |-> TRUE, plan_only |-> FALSE],
     [analyze |-> FALSE, plan_only |-> TRUE]}

(* The other objects do the same things. *)
Symmetry == Permutations(Others)

OneScript == {<<S("create"), S("insert"), S("delete")>>}
OnePolicy == {[analyze |-> FALSE, plan_only |-> FALSE]}
=============================================================================
