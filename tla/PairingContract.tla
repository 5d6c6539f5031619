--------------------------- MODULE PairingContract ---------------------------
(***************************************************************************)
(* What cluster pairing promises, without sessions, messages or locks: an  *)
(* invite's PIN is minted once; PINs are entered at the joiner; the inviter*)
(* may trust the joiner only when the minted PIN is among those entered;   *)
(* the joiner may trust the inviter only after that; and trust is lost     *)
(* only by nodes that do not keep it on disk.                              *)
(***************************************************************************)
CONSTANTS
    Nodes, Noobs, Invites, Inviter, Joiner,
    Unset,     \* the PIN of an invite that has none yet
    Durable    \* nodes whose trust survives a restart

\* What the instances provide.
ContractAssumption ==
    /\ Inviter \in [Invites -> Nodes] /\ Joiner \in [Invites -> Nodes]
    /\ Unset \notin Noobs
    /\ Durable \subseteq Nodes

VARIABLES
    minted,       \* the PIN of each invite
    entered,      \* the PINs the joiner's user entered for it
    icommitted,   \* the invites whose inviter trusted the joiner
    jcommitted,   \* the invites whose joiner trusted the inviter
    trusts        \* whom each node trusts now

pvars == <<minted, entered, icommitted, jcommitted, trusts>>

Init ==
    /\ minted = [i \in Invites |-> Unset]
    /\ entered = [i \in Invites |-> {}]
    /\ icommitted = {} /\ jcommitted = {}
    /\ trusts = [n \in Nodes |-> {}]

\* create_invite: one PIN per invite.
Mint(i, pin) ==
    /\ minted[i] = Unset
    /\ minted' = [minted EXCEPT ![i] = pin]
    /\ UNCHANGED <<entered, icommitted, jcommitted, trusts>>

\* submit_pin.
Enter(i, pin) ==
    /\ entered' = [entered EXCEPT ![i] = @ \cup {pin}]
    /\ UNCHANGED <<minted, icommitted, jcommitted, trusts>>

\* The inviter's pin_peer.
CommitInviter(i) ==
    /\ minted[i] \in entered[i]
    /\ icommitted' = icommitted \cup {i}
    /\ trusts' = [trusts EXCEPT ![Inviter[i]] = @ \cup {Joiner[i]}]
    /\ UNCHANGED <<minted, entered, jcommitted>>

\* The joiner's pin_peer.
CommitJoiner(i) ==
    /\ i \in icommitted
    /\ jcommitted' = jcommitted \cup {i}
    /\ trusts' = [trusts EXCEPT ![Joiner[i]] = @ \cup {Inviter[i]}]
    /\ UNCHANGED <<minted, entered, icommitted>>

\* A restart of a node that keeps only part of its trust.
Forget(n, kept) ==
    /\ n \notin Durable
    /\ trusts' = [trusts EXCEPT ![n] = @ \cap kept]
    /\ UNCHANGED <<minted, entered, icommitted, jcommitted>>

Next ==
    \/ \E i \in Invites :
          \/ \E pin \in Noobs : Mint(i, pin) \/ Enter(i, pin)
          \/ CommitInviter(i) \/ CommitJoiner(i)
    \/ \E n \in Nodes, kept \in SUBSET Nodes : Forget(n, kept)

Spec == Init /\ [][Next]_pvars

-----------------------------------------------------------------------------
(* What follows from the contract.                                         *)

ContractTypeOK ==
    /\ minted \in [Invites -> Noobs \cup {Unset}]
    /\ entered \in [Invites -> SUBSET Noobs]
    /\ icommitted \subseteq Invites /\ jcommitted \subseteq Invites
    /\ trusts \in [Nodes -> SUBSET Nodes]

\* No trust without a PIN: a node trusts another only through an invite
\* between the two whose minted PIN was entered at the joiner.
TrustNeedsPin ==
    \A n \in Nodes : \A m \in trusts[n] :
        \E i \in Invites : /\ {n, m} = {Inviter[i], Joiner[i]}
                           /\ minted[i] \in entered[i]

\* Commit order: no joiner commits before its inviter.
InviterFirst == jcommitted \subseteq icommitted

\* No one-sided join: where the inviter keeps its trust, a joiner that
\* committed is trusted by the inviter for good.
JoinIsMutual ==
    \A i \in jcommitted : Inviter[i] \in Durable => Joiner[i] \in trusts[Inviter[i]]
=============================================================================
