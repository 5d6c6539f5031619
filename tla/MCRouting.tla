------------------------------ MODULE MCRouting ------------------------------
(* Instances of Routing: node 0 is this node, 1 and 2 are its peers.        *)
EXTENDS Routing, TLC

CONSTANTS h1, h2

OneModel == {"llama3"}

\* Both peers have the model, this node has not.
PeersServe  == [n \in Nodes |-> IF n = Self THEN {{}} ELSE {OneModel}]
\* Only peer 1 has it, and its engine may stop; this node has no engine.
FirstServes == [n \in Nodes |-> IF n = 1 THEN {OneModel, None}
                                ELSE IF n = Self THEN {None} ELSE {{}}]
\* Only peer 1 has it, and no engine ever changes.
FirstAlways == [n \in Nodes |-> {IF n = 1 THEN OneModel ELSE {}}]
\* The dashboard pairs on a LAN with fixed addresses, or addresses move.
PairOrMove == {[ui |-> TRUE, moves |-> FALSE], [ui |-> FALSE, moves |-> TRUE]}
JustMove   == {[ui |-> FALSE, moves |-> TRUE]}
Quiet      == {[ui |-> FALSE, moves |-> FALSE]}
\* The two addresses are interchangeable.
HostSymmetry == Permutations({h1, h2})
\* told only says which reports are owed: no action reads it.
Untold == <<pins, table, pollers, finding, ui, req, setting, running, host, engine,
            trusts, changes>>
=============================================================================
