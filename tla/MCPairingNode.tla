---------------------------- MODULE MCPairingNode ----------------------------
(* Instances of PairingNode.  Every node runs this repository's code: the   *)
(* EAP-NOOB configuration is that of InviterSession::new and                *)
(* JoinerSession::new.                                                      *)
EXTENDS PairingRefinement

CONSTANTS nodeA, nodeB, nodeC, inv1, inv2

MCServerVersions == <<1>>
MCServerSuites   == <<2, 1>>
MCPeerVersions   == <<1>>
MCPeerSuites     == <<1, 2>>
MCSessionIds     == Invites \X {"server", "peer"}

\* One invite: A invites C.
OneInviter == [i \in Invites |-> nodeA]
\* Two invites from different nodes to the same joiner C.
TwoInviters == [i \in Invites |-> IF i = inv1 THEN nodeA ELSE nodeB]
BothJoinC   == [i \in Invites |-> nodeC]
\* A chain: A invites C, and C invites B.
ChainInviter == [i \in Invites |-> IF i = inv1 THEN nodeA ELSE nodeC]
ChainJoiner  == [i \in Invites |-> IF i = inv1 THEN nodeC ELSE nodeB]
=============================================================================
