------------------------ MODULE PairingContractProofs ------------------------
(* What PairingContract promises, for any nodes, invites and PINs.          *)
EXTENDS PairingContract, TLAPS

\* The contract's variables stay in their types.
LEMMA ContractType ==
    ASSUME ContractAssumption
    PROVE  Spec => []ContractTypeOK
<1>1. Init => ContractTypeOK
  BY DEF Init, ContractTypeOK
<1>2. ContractTypeOK /\ [Next]_pvars => ContractTypeOK'
  <2> SUFFICES ASSUME ContractTypeOK, [Next]_pvars
               PROVE  ContractTypeOK'
    OBVIOUS
  <2> USE DEF ContractTypeOK
  <2>1. ASSUME NEW i \in Invites, NEW pin \in Noobs, Mint(i, pin) \/ Enter(i, pin)
        PROVE  ContractTypeOK'
    BY <2>1 DEF Mint, Enter
  <2>2. ASSUME NEW i \in Invites, CommitInviter(i)
        PROVE  ContractTypeOK'
    BY <2>2 DEF CommitInviter, ContractAssumption
  <2>3. ASSUME NEW i \in Invites, CommitJoiner(i)
        PROVE  ContractTypeOK'
    BY <2>3 DEF CommitJoiner, ContractAssumption
  <2>4. ASSUME NEW n \in Nodes, NEW kept \in SUBSET Nodes, Forget(n, kept)
        PROVE  ContractTypeOK'
    BY <2>4 DEF Forget
  <2>5. CASE UNCHANGED pvars
    BY <2>5 DEF pvars
  <2> QED
    BY <2>1, <2>2, <2>3, <2>4, <2>5 DEF Next
<1> QED
  BY <1>1, <1>2, PTL DEF Spec

\* What TrustNeedsPin needs to be inductive: every commit of an inviter, and
\* so every commit of a joiner, had the minted PIN among those entered.
Backed(i) == minted[i] \in entered[i]
Between(n, m, i) == {n, m} = {Inviter[i], Joiner[i]}
AuthInv == TrustNeedsPin /\ \A i \in icommitted : Backed(i)

\* An entered PIN stays entered and a minted PIN stays minted.
LEMMA BackedStays ==
    ASSUME ContractAssumption, ContractTypeOK, [Next]_pvars,
           NEW i \in Invites, Backed(i)
    PROVE  Backed(i)'
<1>1. ASSUME NEW j \in Invites, NEW pin \in Noobs, Mint(j, pin) \/ Enter(j, pin)
      PROVE  Backed(i)'
  BY <1>1 DEF Backed, Mint, Enter, ContractTypeOK, ContractAssumption
<1>2. ASSUME NEW j \in Invites, CommitInviter(j) \/ CommitJoiner(j)
      PROVE  Backed(i)'
  BY <1>2 DEF Backed, CommitInviter, CommitJoiner
<1>3. ASSUME NEW n \in Nodes, NEW kept \in SUBSET Nodes, Forget(n, kept)
      PROVE  Backed(i)'
  BY <1>3 DEF Backed, Forget
<1>4. CASE UNCHANGED pvars
  BY <1>4 DEF Backed, pvars
<1> QED
  BY <1>1, <1>2, <1>3, <1>4 DEF Next

\* Every step of the contract keeps AuthInv.
LEMMA AuthStep ==
    ASSUME ContractAssumption, ContractTypeOK, AuthInv, [Next]_pvars
    PROVE  AuthInv'
<1>1. ASSUME NEW i \in icommitted'
      PROVE  Backed(i)'
  <2>1. \/ i \in icommitted
        \/ i \in Invites /\ CommitInviter(i)
    BY <1>1 DEF Next, pvars, Mint, Enter, CommitInviter, CommitJoiner, Forget
  <2>2. i \in Invites /\ Backed(i)
    BY <2>1 DEF AuthInv, ContractTypeOK, CommitInviter, Backed
  <2> QED
    BY <2>2, BackedStays
<1>2. ASSUME NEW n \in Nodes, NEW m \in trusts'[n]
      PROVE  \E i \in Invites : Between(n, m, i) /\ Backed(i)
  <2>1. m \in trusts[n] => \E i \in Invites : Between(n, m, i) /\ Backed(i)
    BY DEF AuthInv, TrustNeedsPin, Between, Backed
  <2>2. ASSUME NEW i \in Invites, CommitInviter(i)
        PROVE  m \in trusts[n] \/ (Between(n, m, i) /\ Backed(i))
    BY <1>2, <2>2
       DEF CommitInviter, Between, Backed, ContractTypeOK, ContractAssumption
  <2>3. ASSUME NEW i \in Invites, CommitJoiner(i)
        PROVE  m \in trusts[n] \/ (Between(n, m, i) /\ Backed(i))
    <3>1. Backed(i)
      BY <2>3 DEF CommitJoiner, AuthInv
    <3>2. m \in trusts[n] \/ (n = Joiner[i] /\ m = Inviter[i])
      BY <1>2, <2>3 DEF CommitJoiner, ContractTypeOK, ContractAssumption
    <3> QED
      BY <3>1, <3>2 DEF Between
  <2>4. ASSUME NEW k \in Nodes, NEW kept \in SUBSET Nodes, Forget(k, kept)
        PROVE  m \in trusts[n]
    BY <1>2, <2>4 DEF Forget, ContractTypeOK
  <2>5. ASSUME NEW i \in Invites, NEW pin \in Noobs, Mint(i, pin) \/ Enter(i, pin)
        PROVE  m \in trusts[n]
    BY <1>2, <2>5 DEF Mint, Enter
  <2>6. CASE UNCHANGED pvars
    BY <1>2, <2>1, <2>6 DEF pvars
  <2> QED
    BY <2>1, <2>2, <2>3, <2>4, <2>5, <2>6 DEF Next
<1>3. TrustNeedsPin'
  <2> SUFFICES ASSUME NEW n \in Nodes, NEW m \in trusts'[n]
               PROVE  \E i \in Invites : Between(n, m, i) /\ Backed(i)'
    BY DEF TrustNeedsPin, Between, Backed
  <2>1. PICK i \in Invites : Between(n, m, i) /\ Backed(i)
    BY <1>2
  <2> QED
    BY <2>1, BackedStays
<1> QED
  BY <1>1, <1>3 DEF AuthInv

\* Trust rests on a PIN: whatever is minted, entered, committed and forgotten,
\* a node trusts another only through an invite between the two whose minted
\* PIN was entered at the joiner.
THEOREM TrustIsAuthenticated ==
    ASSUME ContractAssumption
    PROVE  Spec => []TrustNeedsPin
<1>1. Init => AuthInv
  BY DEF Init, AuthInv, TrustNeedsPin
<1>2. ContractTypeOK /\ AuthInv /\ [Next]_pvars => AuthInv'
  BY AuthStep
<1>3. AuthInv => TrustNeedsPin
  BY DEF AuthInv
<1> QED
  BY <1>1, <1>2, <1>3, ContractType, PTL DEF Spec

-----------------------------------------------------------------------------
\* What JoinIsMutual needs to be inductive: the commit order, and that an
\* inviter that keeps its trust keeps it for every invite it committed.
MutualInv ==
    /\ InviterFirst
    /\ \A i \in icommitted : Inviter[i] \in Durable => Joiner[i] \in trusts[Inviter[i]]

\* Every step of the contract keeps MutualInv.
LEMMA MutualStep ==
    ASSUME ContractAssumption, ContractTypeOK, MutualInv, [Next]_pvars
    PROVE  MutualInv'
<1> USE DEF MutualInv, InviterFirst, ContractTypeOK
<1>1. ASSUME NEW i \in Invites, NEW pin \in Noobs, Mint(i, pin) \/ Enter(i, pin)
      PROVE  MutualInv'
  BY <1>1 DEF Mint, Enter
<1>2. ASSUME NEW i \in Invites, CommitInviter(i)
      PROVE  MutualInv'
  BY <1>2 DEF CommitInviter, ContractAssumption
<1>3. ASSUME NEW i \in Invites, CommitJoiner(i)
      PROVE  MutualInv'
  BY <1>3 DEF CommitJoiner, ContractAssumption
<1>4. ASSUME NEW n \in Nodes, NEW kept \in SUBSET Nodes, Forget(n, kept)
      PROVE  MutualInv'
  BY <1>4 DEF Forget, ContractAssumption
<1>5. CASE UNCHANGED pvars
  BY <1>5 DEF pvars
<1> QED
  BY <1>1, <1>2, <1>3, <1>4, <1>5 DEF Next

\* No one-sided join: where the inviter keeps its trust, a joiner that
\* committed is trusted by the inviter from then on.
THEOREM JoinsAreMutual ==
    ASSUME ContractAssumption
    PROVE  Spec => [](InviterFirst /\ JoinIsMutual)
<1>1. Init => MutualInv
  BY DEF Init, MutualInv, InviterFirst
<1>2. ContractTypeOK /\ MutualInv /\ [Next]_pvars => MutualInv'
  BY MutualStep
<1>3. MutualInv => InviterFirst /\ JoinIsMutual
  BY DEF MutualInv, InviterFirst, JoinIsMutual
<1> QED
  BY <1>1, <1>2, <1>3, ContractType, PTL DEF Spec
=============================================================================
