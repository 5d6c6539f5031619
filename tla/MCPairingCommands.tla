-------------------------- MODULE MCPairingCommands --------------------------
(* Instances of PairingCommands.  Every node runs this repository's code:   *)
(* the EAP-NOOB configuration is that of InviterSession::new and            *)
(* JoinerSession::new.                                                      *)
EXTENDS PairingCommands

CONSTANTS nodeA, nodeB, nodeC, inv1, inv2

MCServerVersions == <<1>>
MCServerSuites   == <<2, 1>>
MCPeerVersions   == <<1>>
MCPeerSuites     == <<1, 2>>
MCSessionIds     == Invites \X {"server", "peer"}

\* A and B invite C; the faulty scenarios have the invite of A only.
TwoInviters == [i \in Invites |-> IF i = inv1 THEN nodeA ELSE nodeB]
BothJoinC   == [i \in Invites |-> nodeC]
RaceOrFault ==
    {[invites |-> {inv1, inv2}, commands |-> FALSE, faults |-> FALSE],
     [invites |-> {inv1}, commands |-> FALSE, faults |-> TRUE],
     [invites |-> {inv1}, commands |-> TRUE, faults |-> TRUE]}

\* A invites C and then B, from the command line.
OneInviter  == [i \in Invites |-> nodeA]
JoinCAndB   == [i \in Invites |-> IF i = inv1 THEN nodeC ELSE nodeB]
CommandLine == {[invites |-> {inv1, inv2}, commands |-> TRUE, faults |-> FALSE]}
=============================================================================
