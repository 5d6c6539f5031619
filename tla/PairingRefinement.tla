-------------------------- MODULE PairingRefinement --------------------------
(***************************************************************************)
(* The pairing endpoint implements PairingContract.  The endpoint forgets  *)
(* the PINs entered when it drops a session, so a history variable keeps   *)
(* them; it changes nothing of what the endpoint does.                     *)
(***************************************************************************)
EXTENDS PairingNode

VARIABLE entered

rvars == <<vars, entered>>

\* The PINs oob_input_noob has taken for each invite.
RInit == Init /\ entered = [i \in Invites |-> {}]
RNext ==
    /\ Next
    /\ entered' = [i \in Invites |-> entered[i] \cup ({jsess'[i].noob} \ {None})]
RSpec == RInit /\ [][RNext]_rvars

Contract == INSTANCE PairingContract WITH
    Unset      <- None,
    Durable    <- Persistent \ DiskFails,
    minted     <- [i \in Invites |-> isess[i].noob],
    icommitted <- {i \in Invites : ipaired[i] # {}},
    jcommitted <- {i \in Invites : jpaired[i] # {}},
    trusts     <- pins

\* Every step of create_invite, submit_pin, the handlers, the signals, the
\* faults and the restarts is a step the contract allows, or none: one PIN
\* per invite, the inviter pins only with that PIN entered at the joiner, the
\* joiner only after the inviter, each the real other node, and only a node
\* without a durable trusted/ forgets.
ImplementsContract == Contract!Spec
=============================================================================
