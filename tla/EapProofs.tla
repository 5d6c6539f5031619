------------------------------ MODULE EapProofs ------------------------------
(* Facts about the EAP-NOOB handlers, for every session and message: each   *)
(* handler returns a well-formed Outcome, and a Server only ever sends EAP  *)
(* success in the step that registers it.                                   *)
EXTENDS EapServer, EapPeer, WellFoundedInduction, TLAPS

-----------------------------------------------------------------------------
(* The negotiation helpers.                                                *)

\* A non-empty set of naturals has a least element.
LEMMA LeastNatural ==
    ASSUME NEW T, T \subseteq Nat, T # {}
    PROVE  \E x \in T : \A y \in T : x <= y
<1>1. \E x \in T : \A y \in T : ~ (<<y, x>> \in OpToRel(<, Nat))
  BY WFMin, NatLessThanWellFounded
<1>2. PICK x \in T : \A y \in T : ~ (<<y, x>> \in OpToRel(<, Nat))
  BY <1>1
<1>3. \A y \in T : x <= y
  <2> SUFFICES ASSUME NEW y \in T
               PROVE  x <= y
    OBVIOUS
  <2>1. x \in Nat /\ y \in Nat
    OBVIOUS
  <2>2. ~ (y < x)
    BY <1>2, <2>1 DEF OpToRel
  <2> QED
    BY <2>1, <2>2
<1> QED
  BY <1>3

\* best_version returns the highest version that both sides list, None without
\* one.
LEMMA HighestCommon ==
    ASSUME NEW sv \in Seq(WireInt), NEW pv \in Seq(WireInt)
    PROVE  LET common == Elems(sv) \cap Elems(pv)
               v == best_version(sv, pv)
           IN  IF common = {} THEN v = None
               ELSE v \in common /\ \A w \in common : w <= v
<1> DEFINE common == Elems(sv) \cap Elems(pv)
           T == {MaxInt - v : v \in common}
           best == CHOOSE u \in common : \A w \in common : w <= u
<1>1. common \subseteq WireInt
  BY DEF Elems
<1>2. CASE common = {}
  BY <1>2 DEF best_version
<1>3. CASE common # {}
  <2>1. T \subseteq Nat /\ T # {}
    BY <1>1, <1>3, ConfigAssumption DEF WireInt
  <2>2. PICK x \in T : \A y \in T : x <= y
    <3> HIDE DEF T
    <3> QED BY <2>1, LeastNatural
  <2>3. PICK v \in common : x = MaxInt - v
    OBVIOUS
  <2>4. \A w \in common : w <= v
    <3> SUFFICES ASSUME NEW w \in common
                 PROVE  w <= v
      OBVIOUS
    <3>1. x <= MaxInt - w
      BY <2>2
    <3>2. v \in Int /\ w \in Int /\ MaxInt \in Int
      BY <1>1, ConfigAssumption DEF WireInt
    <3> HIDE DEF T, common
    <3> QED
      BY <2>3, <3>1, <3>2
  <2>5. best_version(sv, pv) = best
    BY <1>3 DEF best_version
  <2> HIDE DEF common
  <2>6. best \in common /\ \A w \in common : w <= best
    BY <2>4
  <2> QED
    BY <1>3, <2>5, <2>6 DEF common
<1> QED
  BY <1>2, <1>3

LEMMA BestVersion ==
    ASSUME NEW sv \in Seq(WireInt), NEW pv \in Seq(WireInt)
    PROVE  best_version(sv, pv) \in Option(Int)
<1>1. Elems(sv) \subseteq WireInt /\ WireInt \subseteq Int
  BY ConfigAssumption DEF Elems, WireInt
<1> QED
  BY <1>1, HighestCommon DEF Option

\* first_supported returns the first of the server's suites that the peer lists
\* too and the code implements, None without one.
LEMMA FirstFitting ==
    ASSUME NEW ss \in Seq(Int), NEW ps \in Seq(Int)
    PROVE  LET fits == {k \in DOMAIN ss : ss[k] \in Elems(ps) /\ from_id(ss[k]) # 0}
               c == first_supported(ss, ps)
           IN  IF fits = {} THEN c = None
               ELSE \E k \in fits : c = ss[k] /\ \A l \in fits : k <= l
<1> DEFINE fits == {k \in DOMAIN ss : ss[k] \in Elems(ps) /\ from_id(ss[k]) # 0}
           first == CHOOSE k \in fits : \A l \in fits : k <= l
<1>1. CASE fits = {}
  BY <1>1 DEF first_supported
<1>2. CASE fits # {}
  <2>1. fits \subseteq Nat
    OBVIOUS
  <2>2. first_supported(ss, ps) = ss[first]
    BY <1>2 DEF first_supported
  <2> HIDE DEF fits
  <2>3. first \in fits /\ \A l \in fits : first <= l
    BY <2>1, <1>2, LeastNatural
  <2> HIDE DEF first
  <2>4. \E k \in fits : first_supported(ss, ps) = ss[k] /\ \A l \in fits : k <= l
    BY <2>2, <2>3
  <2> QED
    BY <1>2, <2>4 DEF fits
<1> QED
  BY <1>1, <1>2

LEMMA FirstSupported ==
    ASSUME NEW ss \in Seq(Int), NEW ps \in Seq(Int)
    PROVE  first_supported(ss, ps) \in Option(Int)
<1>1. \A k \in DOMAIN ss : ss[k] \in Int
  OBVIOUS
<1> QED
  BY <1>1, FirstFitting DEF Option

\* choose_dir returns a direction that the server offers, or None.
LEMMA OfferedDirection ==
    ASSUME NEW d \in Int, NEW p \in Int, choose_dir(d, p) # None
    PROVE  choose_dir(d, p) \in Bits(d)
<1>1. CASE d = 1 \/ d = 2
  BY <1>1 DEF choose_dir, Bits
<1>2. CASE d # 1 /\ d # 2
  <2>1. d = 3
    BY <1>2 DEF choose_dir
  <2>2. choose_dir(d, p) \in {1, 2}
    BY <2>1 DEF choose_dir
  <2>3. Bits(3) = {1, 2}
    BY DEF Bits
  <2> QED
    BY <2>1, <2>2, <2>3
<1> QED
  BY <1>1, <1>2

\* choose_dir returns None or 1 or 2.
LEMMA ChooseDir ==
    ASSUME NEW d \in Int, NEW p \in Int
    PROVE  choose_dir(d, p) \in Option(Int)
  BY DEF choose_dir, Option

-----------------------------------------------------------------------------
(* Building blocks of an Outcome.                                          *)

\* An Option holds None and the values of its set.
LEMMA Some ==
    ASSUME NEW S
    PROVE  None \in Option(S) /\ \A v \in S : v \in Option(S)
  BY DEF Option

\* Every message type is one the wire format knows.
LEMMA WireTypes ==
    ASSUME NEW n \in 0..6
    PROVE  n \in Option(0..6)
  BY DEF Option

\* The two wire messages that carry no exchange data, and the absent one.
LEMMA PlainWires ==
    /\ Wire0 \in Wire
    /\ Server_start \in Wire
    /\ \A code \in Int : err_bytes(code) \in Wire
    /\ \A kind \in {"success", "failure"} : result_bytes(kind) \in Wire
<1>1. Wire0 \in Wire
  BY DEF Wire0, Wire, Option
<1>2. Server_start \in Wire
  <2>1. 1 \in Option(0..6)
    BY WireTypes
  <2> QED
    BY <1>1, <2>1 DEF Server_start, Wire
<1>3. ASSUME NEW code \in Int
      PROVE  err_bytes(code) \in Wire
  <2>1. 0 \in Option(0..6)
    BY WireTypes
  <2>2. code \in Option(Int)
    BY DEF Option
  <2> QED
    BY <1>1, <2>1, <2>2 DEF err_bytes, Wire
<1>4. ASSUME NEW kind \in {"success", "failure"}
      PROVE  result_bytes(kind) \in Wire
  <2>1. kind \in Option({"success", "failure"})
    BY Some
  <2> QED
    BY <1>1, <2>1 DEF result_bytes, Wire
<1> QED
  BY <1>1, <1>2, <1>3, <1>4

\* Every way of ending a handler yields an Outcome, from a session and a
\* message that are well-formed.
LEMMA Outcomes ==
    ASSUME NEW s \in Session
    PROVE  /\ \A w \in Option(Wire) : Send(s, w) \in Outcome
           /\ \A w \in Option(Wire), ok \in BOOLEAN : Done(s, w, ok) \in Outcome
           /\ \A code \in Int : fail_code(s, code) \in Outcome
           /\ \A code \in Int : peer_error(s, code) \in Outcome
           /\ fail(s) \in Outcome
           /\ Panic(s) \in Outcome
<1>1. \A w \in Option(Wire) : Send(s, w) \in Outcome
  BY DEF Send, Outcome, Option
<1>2. \A w \in Option(Wire), ok \in BOOLEAN : Done(s, w, ok) \in Outcome
  BY DEF Done, Send, Outcome, Option
<1>3. \A code \in Int : fail_code(s, code) \in Outcome
  BY PlainWires DEF fail_code, Send, Outcome, Option
<1>4. \A code \in Int : peer_error(s, code) \in Outcome
  BY DEF peer_error, Send, Outcome, Option
<1>5. fail(s) \in Outcome
  BY <1>3 DEF fail, INVALID_DATA
<1>6. Panic(s) \in Outcome
  BY DEF Panic, Send, Outcome, Option
<1> QED
  BY <1>1, <1>2, <1>3, <1>4, <1>5, <1>6

\* A draw gives a token and a well-formed session; so does a key.
LEMMA Draws ==
    ASSUME NEW s \in Session
    PROVE  /\ Fresh(s) \in Token
           /\ Drew(s) \in Session
           /\ generate(s) \in Key
<1>1. Fresh(s) \in Token
  BY DEF Fresh, Token, Session
<1>2. Drew(s) \in Session
  BY DEF Drew, Session
<1>3. generate(s) \in Key
  <2>1. s.csp \in Int
    BY DEF Session
  <2>2. from_id(s.csp) \in Int
    BY <2>1 DEF from_id
  <2> QED
    BY <1>1, <2>2 DEF generate, Key
<1> QED
  BY <1>1, <1>2, <1>3

\* Derived keys, MACs and NoobIds are well-formed.
LEMMA Derived ==
    ASSUME NEW s \in Session
    PROVE  /\ derive_completion(s) \in KeyMaterial
           /\ \A lead \in {1, 2} : compute_mac(s, lead) \in Mac
           /\ compute_noob_id(s.noob) \in {"NoobId"} \X Option(Noobs)
<1>1. derive_completion(s) \in KeyMaterial
  BY DEF derive_completion, KeyMaterial, Session
<1>2. \A lead \in {1, 2} : compute_mac(s, lead) \in Mac
  BY DEF compute_mac, Mac, Session
<1>3. compute_noob_id(s.noob) \in {"NoobId"} \X Option(Noobs)
  BY DEF compute_noob_id, Session
<1> QED
  BY <1>1, <1>2, <1>3

-----------------------------------------------------------------------------
(* The Server's handlers.                                                  *)

\* build_negotiation draws the PeerId and keeps the offer it sends.
LEMMA BuildNegotiationType ==
    ASSUME NEW s \in Session
    PROVE  build_negotiation(s) \in Outcome
<1> DEFINE offer == [vers |-> ServerVersions, peer_id |-> Fresh(s),
                     cryptosuites |-> ServerSuites, dirs |-> ServerDirs,
                     info |-> s.info]
           s1 == [Drew(s) EXCEPT !.peer_id = Fresh(s), !.offer = offer]
           w1 == [Wire0 EXCEPT !.type = 2, !.peer_id = Fresh(s), !.offer = offer]
<1>1. offer \in Offer
  BY Draws, ConfigAssumption DEF Offer, Session
<1> HIDE DEF offer
<1>2. s1 \in Session
  BY Draws, <1>1 DEF Session, Option
<1>3. w1 \in Wire
  <2>1. 2 \in Option(0..6)
    BY WireTypes
  <2>2. Fresh(s) \in Option(Token) /\ offer \in Option(Offer)
    BY <1>1, Draws, Some
  <2> QED
    BY <2>1, <2>2, PlainWires DEF Wire
<1> USE DEF offer
<1>4. build_negotiation(s) = Send(s1, w1)
  BY DEF build_negotiation
<1> HIDE DEF s1, w1
<1> QED
  BY <1>2, <1>3, <1>4, Outcomes DEF Option

\* build_key_exchange draws the Server's key.
LEMMA BuildKeyExchangeType ==
    ASSUME NEW s \in Session
    PROVE  build_key_exchange(s) \in Outcome
<1> DEFINE kp == generate(s)
           s1 == [Drew(s) EXCEPT !.keypair = kp, !.pks = kp]
           w1 == [Wire0 EXCEPT !.type = 3, !.peer_id = s1.peer_id, !.pk = kp]
<1> HIDE DEF kp
<1>1. kp \in Key
  BY Draws DEF kp
<1>2. s1 \in Session
  BY Draws, <1>1 DEF Session, Option
<1>3. w1 \in Wire
  <2>1. 3 \in Option(0..6)
    BY WireTypes
  <2>2. s1.peer_id \in Option(Token)
    BY <1>2 DEF Session
  <2>3. kp \in Option(Key)
    BY <1>1, Some
  <2> HIDE DEF s1
  <2> QED
    BY <2>1, <2>2, <2>3, PlainWires DEF Wire
<1>4. build_key_exchange(s) = Send(s1, w1)
  BY DEF build_key_exchange, kp
<1> HIDE DEF s1, w1
<1> QED
  BY <1>2, <1>3, <1>4, Outcomes DEF Option

\* build_completion derives the keys and sends MACs.
LEMMA BuildCompletionType ==
    ASSUME NEW s \in Session
    PROVE  build_completion(s) \in Outcome
<1> DEFINE s1 == [s EXCEPT !.keym = derive_completion(s)]
           w1 == [Wire0 EXCEPT !.type = 6, !.peer_id = s1.peer_id,
                               !.noob_id = compute_noob_id(s1.noob),
                               !.mac = compute_mac(s1, 2)]
<1>1. s1 \in Session
  BY Derived DEF Session, Option
<1>2. w1 \in Wire
  <2>1. 6 \in Option(0..6)
    BY WireTypes
  <2>2. s1.peer_id \in Option(Token)
    BY <1>1 DEF Session
  <2> HIDE DEF s1
  <2>3. /\ compute_noob_id(s1.noob) \in Option({"NoobId"} \X Option(Noobs))
        /\ compute_mac(s1, 2) \in Option(Mac)
    BY <1>1, Derived, Some
  <2> QED
    BY <2>1, <2>2, <2>3, PlainWires DEF Wire
<1>3. build_completion(s) = Send(s1, w1)
  BY DEF build_completion
<1> HIDE DEF s1, w1
<1> QED
  BY <1>1, <1>2, <1>3, Outcomes DEF Option

\* A request that only carries its type and the PeerId.
LEMMA BareRequestType ==
    ASSUME NEW s \in Session
    PROVE  /\ Send(s, [Wire0 EXCEPT !.type = 4, !.peer_id = s.peer_id]) \in Outcome
           /\ Send(s, [Wire0 EXCEPT !.type = 5, !.peer_id = s.peer_id]) \in Outcome
<1>1. s.peer_id \in Option(Token)
  BY DEF Session
<1>2. 4 \in Option(0..6) /\ 5 \in Option(0..6)
  BY WireTypes
<1>3. /\ [Wire0 EXCEPT !.type = 4, !.peer_id = s.peer_id] \in Wire
      /\ [Wire0 EXCEPT !.type = 5, !.peer_id = s.peer_id] \in Wire
  BY <1>1, <1>2, PlainWires DEF Wire
<1> QED
  BY <1>3, Outcomes DEF Option

\* on_discovery, on_negotiation and on_key_exchange.
LEMMA ServerDiscoveryType ==
    ASSUME NEW s \in Session, NEW wm \in Wire
    PROVE  Server_on_discovery(s, wm) \in Outcome
<1> DEFINE ps == IF wm.peer_state = None THEN 0 ELSE wm.peer_state
           s1 == [s EXCEPT !.peer_state = ps]
<1>1. ps \in State
  <2>1. wm.peer_state \in Option(State)
    BY DEF Wire
  <2>2. 0 \in State
    BY DEF State, Unregistered
  <2> QED
    BY <2>1, <2>2 DEF Option
<1>2. s1 \in Session
  BY <1>1 DEF Session
<1> HIDE DEF s1
<1>3. /\ Send(s1, [Wire0 EXCEPT !.type = 4, !.peer_id = s1.peer_id]) \in Outcome
      /\ Send(s1, [Wire0 EXCEPT !.type = 5, !.peer_id = s1.peer_id]) \in Outcome
  BY <1>2, BareRequestType
<1>4. /\ build_completion(s1) \in Outcome
      /\ build_negotiation(s1) \in Outcome
      /\ fail(s1) \in Outcome
  BY <1>2, BuildCompletionType, BuildNegotiationType, Outcomes
<1>5. start_completion(s1) \in Outcome /\ build_waiting(s1) \in Outcome
  BY <1>3, <1>4 DEF start_completion, build_waiting
<1> USE DEF s1
<1> QED
  BY <1>4, <1>5 DEF Server_on_discovery

LEMMA ServerNegotiationType ==
    ASSUME NEW s \in Session, NEW wm \in Wire
    PROVE  Server_on_negotiation(s, wm) \in Outcome
<1> DEFINE c == wm.choice
           s1 == [s EXCEPT !.csp = c.csp, !.dirp = c.dirp, !.choice = c]
<1>1. c \in Option(Choice)
  BY DEF Wire
<1> HIDE DEF c
<1>2. CASE c = None
  BY <1>2, Outcomes DEF Server_on_negotiation, c
<1>3. CASE c # None
  <2>1. c \in Choice /\ c.csp \in Int /\ c.dirp \in Int
    BY <1>1, <1>3 DEF Option, Choice
  <2>2. s1 \in Session
    BY <1>1, <2>1 DEF Session
  <2> HIDE DEF s1
  <2>3. build_key_exchange(s1) \in Outcome /\ fail(s) \in Outcome
    BY <2>2, BuildKeyExchangeType, Outcomes
  <2> USE DEF s1
  <2> QED
    BY <2>3 DEF Server_on_negotiation, c
<1> QED
  BY <1>2, <1>3

LEMMA ComputeZType ==
    ASSUME NEW own \in Key, NEW other \in Key
    PROVE  compute_z(own, other) \in SUBSET Key
  BY DEF compute_z

LEMMA ServerKeyExchangeType ==
    ASSUME NEW s \in Session, NEW wm \in Wire
    PROVE  Server_on_key_exchange(s, wm) \in Outcome
<1> DEFINE z == compute_z(s.keypair, wm.pk)
           s1 == [s EXCEPT !.z = z, !.pkp = wm.pk, !.state = Waiting]
<1>1. fail(s) \in Outcome /\ Panic(s) \in Outcome
  BY Outcomes
<1>2. CASE wm.pk = None \/ s.keypair = None
  BY <1>1, <1>2 DEF Server_on_key_exchange
<1>3. CASE wm.pk # None /\ s.keypair # None
  <2>1. wm.pk \in Key /\ s.keypair \in Key /\ wm.pk \in Option(Key)
    BY <1>3 DEF Wire, Session, Option
  <2>2. z \in SUBSET Key /\ Waiting \in State
    BY <2>1, ComputeZType DEF State, Waiting
  <2> HIDE DEF z
  <2>3. s1 \in Session
    BY <2>1, <2>2 DEF Session
  <2> HIDE DEF s1
  <2>4. Done(s1, result_bytes("failure"), FALSE) \in Outcome
    BY <2>3, Outcomes, PlainWires, Some
  <2> USE DEF s1, z
  <2> QED
    BY <1>1, <2>4 DEF Server_on_key_exchange
<1> QED
  BY <1>2, <1>3

\* on_noob_id and on_completion.
LEMMA ServerCompletionType ==
    ASSUME NEW s \in Session, NEW wm \in Wire
    PROVE  /\ Server_on_noob_id(s, wm) \in Outcome
           /\ Server_on_completion(s, wm) \in Outcome
<1> DEFINE s1 == [s EXCEPT !.assoc = Server_finish(s), !.state = Registered]
<1>1. /\ fail(s) \in Outcome /\ Panic(s) \in Outcome
      /\ fail_code(s, UNRECOGNIZED_OOB_MSG_ID) \in Outcome
      /\ fail_code(s, HMAC_VERIFICATION_FAILED) \in Outcome
  BY Outcomes DEF UNRECOGNIZED_OOB_MSG_ID, HMAC_VERIFICATION_FAILED
<1>2. Server_on_noob_id(s, wm) \in Outcome
  BY <1>1, BuildCompletionType DEF Server_on_noob_id
<1>3. Server_finish(s) \subseteq Association /\ Registered \in State
  BY DEF Server_finish, Association, Session, State, Registered
<1>4. s1 \in Session
  BY <1>3 DEF Session
<1> HIDE DEF s1
<1>5. Done(s1, result_bytes("success"), TRUE) \in Outcome
  BY <1>4, Outcomes, PlainWires, Some
<1> USE DEF s1
<1>6. Server_on_completion(s, wm) \in Outcome
  BY <1>1, <1>5 DEF Server_on_completion
<1> QED
  BY <1>2, <1>6

\* Server::receive returns a well-formed Outcome for every message.
LEMMA ServerReceiveType ==
    ASSUME NEW s \in Session, NEW wm \in Option(Wire)
    PROVE  Server_receive(s, wm) \in Outcome
<1>1. fail(s) \in Outcome
  BY Outcomes
<1>2. CASE wm = None
  BY <1>1, <1>2 DEF Server_receive
<1>3. CASE wm # None /\ wm.error_code # None
  <2>1. wm.error_code \in Int
    BY <1>3 DEF Wire, Option
  <2> QED
    BY <1>3, <2>1, Outcomes DEF Server_receive
<1>4. CASE wm # None /\ wm.error_code = None
  <2>1. wm \in Wire
    BY <1>4 DEF Option
  <2>2. done_failure(s) \in Outcome
    BY Outcomes, PlainWires, Some DEF done_failure
  <2>3. /\ Server_on_discovery(s, wm) \in Outcome
        /\ Server_on_negotiation(s, wm) \in Outcome
        /\ Server_on_key_exchange(s, wm) \in Outcome
        /\ Server_on_noob_id(s, wm) \in Outcome
        /\ Server_on_completion(s, wm) \in Outcome
    BY <2>1, ServerDiscoveryType, ServerNegotiationType, ServerKeyExchangeType,
       ServerCompletionType
  <2> QED
    BY <1>1, <1>4, <2>2, <2>3 DEF Server_receive
<1> QED
  BY <1>2, <1>3, <1>4

-----------------------------------------------------------------------------
(* The Peer's handlers.                                                    *)

LEMMA PeerResultType ==
    ASSUME NEW s \in Session, NEW eap
    PROVE  Peer_on_result(s, eap) \in Outcome
<1> DEFINE s1 == [s EXCEPT !.assoc = {[csp |-> s.csp, kz |-> s.keym]},
                           !.state = Registered]
<1>1. {[csp |-> s.csp, kz |-> s.keym]} \subseteq Association
  BY DEF Association, Session
<1>2. Registered \in State
  BY DEF State, Registered
<1>3. s1 \in Session
  BY <1>1, <1>2 DEF Session
<1> HIDE DEF s1
<1>4. Done(s1, None, TRUE) \in Outcome /\ Done(s, None, FALSE) \in Outcome
  BY <1>3, Outcomes, Some
<1> USE DEF s1
<1> QED
  BY <1>4 DEF Peer_on_result

LEMMA PeerDiscoveryType ==
    ASSUME NEW s \in Session
    PROVE  Peer_on_discovery(s) \in Outcome
<1> DEFINE id == IF s.state = Unregistered THEN None ELSE s.peer_id
           w1 == [Wire0 EXCEPT !.type = 1, !.peer_state = s.state,
                               !.peer_id = id]
<1>1. 1 \in Option(0..6)
  BY WireTypes
<1>2. s.state \in Option(State) /\ s.peer_id \in Option(Token)
  BY Some DEF Session
<1>3. id \in Option(Token)
  BY <1>2, Some
<1> HIDE DEF id
<1>4. w1 \in Wire
  BY <1>1, <1>2, <1>3, PlainWires DEF Wire
<1> HIDE DEF w1
<1>5. Send(s, w1) \in Outcome
  BY <1>4, Outcomes, Some
<1> QED
  BY <1>5 DEF Peer_on_discovery, w1, id

LEMMA PeerNegotiationType ==
    ASSUME NEW s \in Session, NEW wm \in Wire
    PROVE  Peer_on_negotiation(s, wm) \in Outcome
<1> DEFINE o    == wm.offer
           verp == best_version(o.vers, PeerVersions)
           csp  == first_supported(o.cryptosuites, PeerSuites)
           dirp == choose_dir(o.dirs, PreferDir)
           c    == [verp |-> verp, csp |-> csp, dirp |-> dirp, info |-> s.info]
           s1   == [s EXCEPT !.peer_id = wm.peer_id]
           s2   == [s1 EXCEPT !.csp = csp, !.dirp = dirp, !.offer = o,
                              !.choice = c]
           w2   == [Wire0 EXCEPT !.type = 2, !.peer_id = wm.peer_id,
                                 !.choice = c]
<1>1. fail(s) \in Outcome
  BY Outcomes
<1>2. o \in Option(Offer) /\ wm.peer_id \in Option(Token)
  BY DEF Wire
<1>3. CASE wm.peer_id = None
  BY <1>1, <1>3 DEF Peer_on_negotiation
<1>4. CASE wm.peer_id # None /\ o = None
  <2>1. s1 \in Session
    BY <1>2 DEF Session
  <2> HIDE DEF s1
  <2>2. fail(s1) \in Outcome
    BY <2>1, Outcomes
  <2> QED
    BY <1>4, <2>2 DEF Peer_on_negotiation, s1
<1>5. CASE wm.peer_id # None /\ o # None
  <2>1. o \in Offer
    BY <1>2, <1>5 DEF Option
  <2> HIDE DEF o
  <2>2. /\ verp \in Option(Int) /\ csp \in Option(Int)
        /\ dirp \in Option(Int)
    BY <2>1, BestVersion, FirstSupported, ChooseDir, ConfigAssumption
       DEF Offer
  <2> HIDE DEF verp, csp, dirp
  <2>3. s1 \in Session
    BY <1>2 DEF Session
  <2> HIDE DEF s1
  <2>4. fail(s1) \in Outcome
    BY <2>3, Outcomes
  <2>5. CASE None \in {verp, csp, dirp}
    BY <1>5, <2>4, <2>5 DEF Peer_on_negotiation, o, verp, csp, dirp, s1
  <2>6. CASE None \notin {verp, csp, dirp}
    <3>1. verp \in Int /\ csp \in Int /\ dirp \in Int
      BY <2>2, <2>6 DEF Option
    <3>2. c \in Choice
      BY <3>1 DEF Choice, Session
    <3> HIDE DEF c
    <3>3. c \in Option(Choice) /\ o \in Option(Offer)
      BY <1>2, <3>2, Some
    <3>4. s2 \in Session
      BY <2>3, <3>1, <3>3 DEF Session
    <3>5. 2 \in Option(0..6)
      BY WireTypes
    <3>6. w2 \in Wire
      BY <1>2, <3>3, <3>5, PlainWires DEF Wire
    <3> HIDE DEF s2, w2
    <3>7. Send(s2, w2) \in Outcome
      BY <3>4, <3>6, Outcomes, Some
    <3> QED
      BY <1>5, <2>6, <3>7
         DEF Peer_on_negotiation, o, verp, csp, dirp, c, s1, s2, w2
  <2> QED
    BY <2>5, <2>6
<1> QED
  BY <1>3, <1>4, <1>5

LEMMA PeerKeyExchangeType ==
    ASSUME NEW s \in Session, NEW wm \in Wire
    PROVE  Peer_on_key_exchange(s, wm) \in Outcome
<1> DEFINE kp == generate(s)
           z  == compute_z(kp, wm.pk)
           s1 == [Drew(s) EXCEPT !.keypair = kp, !.z = z, !.pks = wm.pk,
                                 !.pkp = kp, !.state = Waiting]
           w1 == [Wire0 EXCEPT !.type = 3, !.peer_id = s1.peer_id, !.pk = kp]
<1>1. /\ fail(s) \in Outcome /\ Panic(s) \in Outcome
      /\ fail(Drew(s)) \in Outcome
  BY Outcomes, Draws
<1>2. CASE wm.pk = None
  BY <1>1, <1>2 DEF Peer_on_key_exchange
<1>3. CASE wm.pk # None
  <2>1. wm.pk \in Key /\ wm.pk \in Option(Key)
    BY <1>3 DEF Wire, Option
  <2>2. kp \in Key /\ kp \in Option(Key)
    BY Draws, Some
  <2> HIDE DEF kp
  <2>3. z \in SUBSET Key /\ Waiting \in State
    BY <2>1, <2>2, ComputeZType DEF State, Waiting
  <2> HIDE DEF z
  <2>4. s1 \in Session
    BY <2>1, <2>2, <2>3, Draws DEF Session
  <2> HIDE DEF s1
  <2>5. s1.peer_id \in Option(Token) /\ 3 \in Option(0..6)
    BY <2>4, WireTypes DEF Session
  <2>6. w1 \in Wire
    BY <2>2, <2>5, PlainWires DEF Wire
  <2> HIDE DEF w1
  <2>7. Send(s1, w1) \in Outcome
    BY <2>4, <2>6, Outcomes, Some
  <2> QED
    BY <1>1, <2>7 DEF Peer_on_key_exchange, kp, z, s1, w1
<1> QED
  BY <1>2, <1>3

LEMMA PeerNoobIdType ==
    ASSUME NEW s \in Session
    PROVE  Peer_on_noob_id(s) \in Outcome
<1> DEFINE w1 == [Wire0 EXCEPT !.type = 5, !.peer_id = s.peer_id,
                               !.noob_id = compute_noob_id(s.noob)]
<1>1. 5 \in Option(0..6) /\ s.peer_id \in Option(Token)
  BY WireTypes DEF Session
<1>2. compute_noob_id(s.noob) \in Option({"NoobId"} \X Option(Noobs))
  BY Derived, Some
<1>3. w1 \in Wire
  BY <1>1, <1>2, PlainWires DEF Wire
<1> HIDE DEF w1
<1>4. Send(s, w1) \in Outcome /\ fail(s) \in Outcome
  BY <1>3, Outcomes, Some
<1> QED
  BY <1>4 DEF Peer_on_noob_id, w1

LEMMA PeerCompletionType ==
    ASSUME NEW s \in Session, NEW wm \in Wire
    PROVE  Peer_on_completion(s, wm) \in Outcome
<1> DEFINE s1 == [s EXCEPT !.keym = derive_completion(s)]
           w1 == [Wire0 EXCEPT !.type = 6, !.peer_id = s1.peer_id,
                               !.mac = compute_mac(s1, 1)]
<1>1. s1 \in Session
  BY Derived DEF Session, Option
<1> HIDE DEF s1
<1>2. /\ fail(s) \in Outcome
      /\ fail_code(s, UNRECOGNIZED_OOB_MSG_ID) \in Outcome
      /\ fail_code(s1, HMAC_VERIFICATION_FAILED) \in Outcome
  BY <1>1, Outcomes DEF UNRECOGNIZED_OOB_MSG_ID, HMAC_VERIFICATION_FAILED
<1>3. 6 \in Option(0..6) /\ s1.peer_id \in Option(Token)
  BY <1>1, WireTypes DEF Session
<1>4. compute_mac(s1, 1) \in Option(Mac)
  BY <1>1, Derived, Some
<1>5. w1 \in Wire
  BY <1>3, <1>4, PlainWires DEF Wire
<1> HIDE DEF w1
<1>6. Send(s1, w1) \in Outcome
  BY <1>1, <1>5, Outcomes, Some
<1> QED
  BY <1>2, <1>6 DEF Peer_on_completion, s1, w1

\* Peer::receive returns a well-formed Outcome for every message.
LEMMA PeerReceiveType ==
    ASSUME NEW s \in Session, NEW wm \in Option(Wire)
    PROVE  Peer_receive(s, wm) \in Outcome
<1>1. fail(s) \in Outcome
  BY Outcomes
<1>2. CASE wm = None
  BY <1>1, <1>2 DEF Peer_receive
<1>3. CASE wm # None /\ wm.eap # None
  BY <1>3, PeerResultType DEF Peer_receive
<1>4. CASE wm # None /\ wm.eap = None /\ wm.error_code # None
  <2>1. wm.error_code \in Int
    BY <1>4 DEF Wire, Option
  <2> QED
    BY <1>4, <2>1, Outcomes DEF Peer_receive
<1>5. CASE wm # None /\ wm.eap = None /\ wm.error_code = None
  <2>1. wm \in Wire
    BY <1>5 DEF Option
  <2>2. Peer_on_waiting(s) \in Outcome
    BY BareRequestType DEF Peer_on_waiting
  <2>3. /\ Peer_on_discovery(s) \in Outcome
        /\ Peer_on_negotiation(s, wm) \in Outcome
        /\ Peer_on_key_exchange(s, wm) \in Outcome
        /\ Peer_on_noob_id(s) \in Outcome
        /\ Peer_on_completion(s, wm) \in Outcome
    BY <2>1, PeerDiscoveryType, PeerNegotiationType, PeerKeyExchangeType,
       PeerNoobIdType, PeerCompletionType
  <2> QED
    BY <1>1, <1>5, <2>2, <2>3 DEF Peer_receive
<1> QED
  BY <1>2, <1>3, <1>4, <1>5

-----------------------------------------------------------------------------
(* Who announces success, and when.                                        *)

SaysSuccess(w) == w # None /\ w.eap = "success"

\* What an outcome r of a Server session s may announce: EAP success only in
\* the step that registers it, and an association is never taken back.
Sound(s, r) ==
    /\ SaysSuccess(r.send) =>
          /\ r.done = TRUE /\ r.success = TRUE /\ r.panic = FALSE
          /\ r.sess.state = Registered /\ r.sess.assoc # {}
    /\ s.assoc # {} => r.sess.assoc # {}

\* An exchange message, an error, EAP failure or nothing announces nothing.
LEMMA QuietWires ==
    /\ ~SaysSuccess(None)
    /\ \A code \in Int : ~SaysSuccess(err_bytes(code))
    /\ ~SaysSuccess(result_bytes("failure"))
    /\ ~SaysSuccess(Server_start)
  BY ConfigAssumption DEF SaysSuccess, err_bytes, result_bytes, Server_start, Wire0

\* Handlers that keep the association and send no EAP success are sound.
LEMMA QuietOutcomes ==
    ASSUME NEW s0, NEW s, s.assoc = s0.assoc
    PROVE  /\ \A w : ~SaysSuccess(w) => Sound(s0, Send(s, w))
           /\ \A code \in Int : Sound(s0, fail_code(s, code))
           /\ Sound(s0, fail(s))
           /\ Sound(s0, Panic(s))
           /\ \A code : Sound(s0, peer_error(s, code))
           /\ Sound(s0, Done(s, result_bytes("failure"), FALSE))
<1>1. \A w : ~SaysSuccess(w) => Sound(s0, Send(s, w))
  BY DEF Sound, Send
<1>2. \A code \in Int : Sound(s0, fail_code(s, code))
  BY QuietWires DEF Sound, fail_code, Send
<1>3. Sound(s0, fail(s))
  BY <1>2 DEF fail, INVALID_DATA
<1>4. Sound(s0, Panic(s))
  BY QuietWires DEF Sound, Panic, Send
<1>5. \A code : Sound(s0, peer_error(s, code))
  BY QuietWires DEF Sound, peer_error, Send
<1>6. Sound(s0, Done(s, result_bytes("failure"), FALSE))
  BY QuietWires DEF Sound, Done, Send
<1> QED
  BY <1>1, <1>2, <1>3, <1>4, <1>5, <1>6

\* The messages the Server builds announce nothing.
LEMMA SoundBuilds ==
    ASSUME NEW s0 \in Session, NEW s \in Session, s.assoc = s0.assoc
    PROVE  /\ Sound(s0, build_negotiation(s))
           /\ Sound(s0, build_key_exchange(s))
           /\ Sound(s0, build_waiting(s))
           /\ Sound(s0, build_completion(s))
           /\ Sound(s0, start_completion(s))
<1>1. ASSUME NEW n, NEW id, NEW o, NEW k, NEW d, NEW m
      PROVE  /\ ~SaysSuccess([Wire0 EXCEPT !.type = n, !.peer_id = id])
             /\ ~SaysSuccess([Wire0 EXCEPT !.type = n, !.peer_id = id, !.offer = o])
             /\ ~SaysSuccess([Wire0 EXCEPT !.type = n, !.peer_id = id, !.pk = k])
             /\ ~SaysSuccess([Wire0 EXCEPT !.type = n, !.peer_id = id,
                                           !.noob_id = d, !.mac = m])
  BY ConfigAssumption DEF SaysSuccess, Wire0
<1>2. Sound(s0, build_negotiation(s))
  <2>1. ASSUME NEW id, NEW o
        PROVE  [Drew(s) EXCEPT !.peer_id = id, !.offer = o].assoc = s0.assoc
    BY DEF Drew, Session
  <2> QED
    BY <1>1, <2>1 DEF build_negotiation, Sound, Send
<1>3. Sound(s0, build_key_exchange(s))
  <2>1. ASSUME NEW k
        PROVE  [Drew(s) EXCEPT !.keypair = k, !.pks = k].assoc = s0.assoc
    BY DEF Drew, Session
  <2> QED
    BY <1>1, <2>1 DEF build_key_exchange, Sound, Send
<1>4. Sound(s0, build_waiting(s))
  BY <1>1 DEF build_waiting, Sound, Send
<1>5. Sound(s0, build_completion(s))
  <2>1. ASSUME NEW k
        PROVE  [s EXCEPT !.keym = k].assoc = s0.assoc
    BY DEF Session
  <2> QED
    BY <1>1, <2>1 DEF build_completion, Sound, Send
<1>6. Sound(s0, start_completion(s))
  <2>1. Sound(s0, Send(s, [Wire0 EXCEPT !.type = 5, !.peer_id = s.peer_id]))
    BY <1>1 DEF Sound, Send
  <2>2. Sound(s0, fail(s))
    BY QuietOutcomes
  <2> QED
    BY <1>5, <2>1, <2>2 DEF start_completion
<1> QED
  BY <1>2, <1>3, <1>4, <1>5, <1>6

\* Server::receive announces EAP success only when it registers the session,
\* and never loses an association (machine.rs:283-305, 481-513).
THEOREM ServerSound ==
    ASSUME NEW s \in Session, NEW wm \in Option(Wire)
    PROVE  Sound(s, Server_receive(s, wm))
<1>1. Sound(s, fail(s)) /\ Sound(s, Panic(s)) /\ Sound(s, done_failure(s))
  BY QuietOutcomes DEF done_failure
<1>2. /\ Sound(s, fail_code(s, UNRECOGNIZED_OOB_MSG_ID))
      /\ Sound(s, fail_code(s, HMAC_VERIFICATION_FAILED))
  <2>1. UNRECOGNIZED_OOB_MSG_ID \in Int /\ HMAC_VERIFICATION_FAILED \in Int
    BY DEF UNRECOGNIZED_OOB_MSG_ID, HMAC_VERIFICATION_FAILED
  <2> QED
    BY <2>1, QuietOutcomes
<1>3. Sound(s, peer_error(s, wm.error_code))
  BY QuietOutcomes
<1>4. ASSUME wm \in Wire
      PROVE  Sound(s, Server_on_discovery(s, wm))
  <2> DEFINE ps == IF wm.peer_state = None THEN 0 ELSE wm.peer_state
             s1 == [s EXCEPT !.peer_state = ps]
  <2>1. ps \in State
    <3>1. wm.peer_state \in Option(State)
      BY <1>4 DEF Wire
    <3> QED
      BY <3>1 DEF Option, State, Unregistered
  <2>2. s1 \in Session /\ s1.assoc = s.assoc
    BY <2>1 DEF Session
  <2> HIDE DEF s1
  <2>3. /\ Sound(s, start_completion(s1)) /\ Sound(s, build_waiting(s1))
        /\ Sound(s, build_negotiation(s1)) /\ Sound(s, fail(s1))
    BY <2>2, SoundBuilds, QuietOutcomes
  <2> QED
    BY <2>3 DEF Server_on_discovery, s1
<1>5. ASSUME wm \in Wire
      PROVE  Sound(s, Server_on_negotiation(s, wm))
  <2> DEFINE c  == wm.choice
             s1 == [s EXCEPT !.csp = c.csp, !.dirp = c.dirp, !.choice = c]
  <2>1. c \in Option(Choice)
    BY <1>5 DEF Wire
  <2> HIDE DEF c
  <2>2. CASE c = None
    BY <1>1, <2>2 DEF Server_on_negotiation, c
  <2>3. CASE c # None
    <3>1. c \in Choice /\ c.csp \in Int /\ c.dirp \in Int
      BY <2>1, <2>3 DEF Option, Choice
    <3>2. s1 \in Session /\ s1.assoc = s.assoc
      BY <2>1, <3>1 DEF Session
    <3> HIDE DEF s1
    <3>3. Sound(s, build_key_exchange(s1))
      BY <3>2, SoundBuilds
    <3> QED
      BY <1>1, <3>3 DEF Server_on_negotiation, c, s1
  <2> QED
    BY <2>2, <2>3
<1>6. Sound(s, Server_on_key_exchange(s, wm))
  <2> DEFINE s1 == [s EXCEPT !.z = compute_z(s.keypair, wm.pk), !.pkp = wm.pk,
                             !.state = Waiting]
  <2>1. s1.assoc = s.assoc
    BY DEF Session
  <2> HIDE DEF s1
  <2>2. Sound(s, Done(s1, result_bytes("failure"), FALSE))
    BY <2>1, QuietOutcomes
  <2> QED
    BY <1>1, <2>2 DEF Server_on_key_exchange, s1
<1>7. Sound(s, Server_on_noob_id(s, wm))
  BY <1>1, <1>2, SoundBuilds DEF Server_on_noob_id
<1>8. Sound(s, Server_on_completion(s, wm))
  <2> DEFINE s1 == [s EXCEPT !.assoc = Server_finish(s), !.state = Registered]
  <2>1. s1.assoc # {} /\ s1.state = Registered
    BY DEF Session, Server_finish
  <2> HIDE DEF s1
  <2>2. Sound(s, Done(s1, result_bytes("success"), TRUE))
    BY <2>1 DEF Sound, Done, Send
  <2> QED
    BY <1>1, <1>2, <2>2 DEF Server_on_completion, s1
<1>9. CASE wm = None
  BY <1>1, <1>9 DEF Server_receive
<1>10. CASE wm # None /\ wm.error_code # None
  BY <1>3, <1>10 DEF Server_receive
<1>11. CASE wm # None /\ wm.error_code = None
  <2>1. wm \in Wire
    BY <1>11 DEF Option
  <2> QED
    BY <1>1, <1>4, <1>5, <1>6, <1>7, <1>8, <1>11, <2>1 DEF Server_receive
<1> QED
  BY <1>9, <1>10, <1>11

\* Peer::receive succeeds only on the Server's EAP success (machine.rs:646).
THEOREM PeerSound ==
    ASSUME NEW s \in Session, NEW wm \in Option(Wire),
           Peer_receive(s, wm).success
    PROVE  SaysSuccess(wm)
<1>1. ASSUME NEW s1, NEW w, NEW code
      PROVE  /\ Send(s1, w).success = FALSE
             /\ fail_code(s1, code).success = FALSE
             /\ fail(s1).success = FALSE
             /\ Panic(s1).success = FALSE
             /\ peer_error(s1, code).success = FALSE
             /\ Done(s1, w, FALSE).success = FALSE
  BY DEF Send, fail_code, fail, Panic, peer_error, Done
<1>2. wm # None
  BY <1>1 DEF Peer_receive
<1>3. CASE wm.eap # None
  BY <1>1, <1>2, <1>3 DEF Peer_receive, Peer_on_result, SaysSuccess
<1>4. CASE wm.eap = None
  <2>1. /\ Peer_on_discovery(s).success = FALSE
        /\ Peer_on_waiting(s).success = FALSE
        /\ Peer_on_noob_id(s).success = FALSE
    BY <1>1 DEF Peer_on_discovery, Peer_on_waiting, Peer_on_noob_id
  <2>2. Peer_on_negotiation(s, wm).success = FALSE
    BY <1>1 DEF Peer_on_negotiation
  <2>3. Peer_on_key_exchange(s, wm).success = FALSE
    BY <1>1 DEF Peer_on_key_exchange
  <2>4. Peer_on_completion(s, wm).success = FALSE
    BY <1>1 DEF Peer_on_completion
  <2> QED
    BY <1>1, <1>2, <1>4, <2>1, <2>2, <2>3, <2>4 DEF Peer_receive
<1> QED
  BY <1>3, <1>4

-----------------------------------------------------------------------------
(* A Server session s and a Peer session p that relay to each other.       *)

\* The suite in use is that of the last choice made or accepted, and what a
\* side negotiates carries its own PairingInfo.
SuiteChosen(s) == s.csp = IF s.choice = None THEN 0 ELSE s.choice.csp
OwnInfo(s, p) ==
    /\ s.offer # None => s.offer.info = s.info
    /\ p.choice # None => p.choice.info = p.info

\* Both sides negotiated and exchanged the same values.
InSync(s, p) ==
    /\ s.offer = p.offer /\ s.choice = p.choice
    /\ s.pks = p.pks /\ s.pkp = p.pkp /\ s.z = p.z

\* Both sides hold the same secret and the same key.
Agree(s, p) ==
    /\ s.noob = p.noob /\ s.keym = p.keym /\ s.keym # None
    /\ s.assoc = {[csp |-> s.csp, kz |-> s.keym]}
    /\ p.state = Registered => p.assoc = s.assoc

\* The states the two can be in together: a Server past the Initial Exchange is
\* in sync with its Peer, it registers first, and only with a Peer that has the
\* PIN.
InStep(s, p) ==
    /\ s.state \in {Unregistered, Waiting, Registered}
    /\ p.state \in {Unregistered, Waiting, OobReceived, Registered}
    /\ SuiteChosen(s) /\ SuiteChosen(p) /\ OwnInfo(s, p)
    /\ s.state # Unregistered =>
          p.state # Unregistered /\ s.offer # None /\ s.choice # None /\ InSync(s, p)
    /\ p.state = Registered => s.state = Registered
    /\ s.state = Registered => p.state \in {OobReceived, Registered} /\ Agree(s, p)

\* The negotiation has ended: both hold its result, and a suite.
Negotiated(s, p) ==
    /\ s.offer # None /\ s.choice # None
    /\ p.offer = s.offer /\ p.choice = s.choice /\ from_id(p.csp) # 0

\* What a message on its way to the Peer says about the two.
ToPeer(s, p, m) ==
    /\ m.eap = "success" => s.state = Registered
    /\ m.type \in {2, 3} => s.state = Unregistered
    /\ m.type \in {5, 6} => s.state = Waiting /\ p.state = OobReceived
    /\ m.type = 2 => s.offer # None /\ m.offer = s.offer
    /\ m.type = 3 => /\ Negotiated(s, p) /\ s.keypair # None
                     /\ m.pk = s.pks /\ s.pks = s.keypair
    /\ m.type = 6 => s.keym # None

\* What a message on its way to the Server says about the two.
ToServer(s, p, m) ==
    /\ m.type = 1 =>
          /\ m.peer_state # None
          /\ m.peer_state = Unregistered => p.state = Unregistered
          /\ m.peer_state = OobReceived => p.state = OobReceived
    /\ m.type \in {2, 3} => s.state = Unregistered
    /\ m.type \in {5, 6} => s.state = Waiting /\ p.state = OobReceived
    /\ m.type = 2 => s.offer # None /\ p.offer = s.offer /\ m.choice = p.choice
    /\ m.type = 3 => /\ Negotiated(s, p) /\ s.keypair # None
                     /\ p.pks = s.pks /\ s.pks = s.keypair /\ m.pk = p.pkp
                     /\ p.z = compute_z(p.pkp, p.pks) /\ p.state # Unregistered
    /\ m.type = 6 => s.keym # None /\ m.mac = compute_mac(p, 1)

\* In the Completion Exchange of node.rs the PINs do not change while a message
\* is under way: a MAC is that of the sender's PIN, and an error that blames
\* the PIN is right.
ExactToPeer(s, p, m) ==
    /\ m.type = 6 => /\ m.noob_id = compute_noob_id(s.noob)
                     /\ m.mac = compute_mac(s, 2) /\ s.keym = derive_completion(s)
    /\ m.error_code # None /\ is_wrong_pin_code(m.error_code) => s.noob # p.noob

ExactToServer(s, p, m) ==
    /\ m.type = 5 => m.noob_id = compute_noob_id(p.noob)
    /\ m.type = 6 => s.keym = derive_completion(s) /\ p.keym = derive_completion(p)

\* What a Server that takes a message from its Peer leaves behind: the two are
\* still in step, its answer says the truth about them, no unwrap() failed,
\* and being Registered, the PIN and the identities are kept.
ServerSteps(s, p, r) ==
    /\ InStep(r.sess, p)
    /\ r.send # None => ToPeer(r.sess, p, r.send) /\ r.send.type # 1
    /\ r.panic = FALSE
    /\ r.sess.info = s.info /\ r.sess.other = s.other /\ r.sess.noob = s.noob
    /\ s.state # Unregistered => r.sess.state # Unregistered
    /\ r.success = TRUE => r.sess.state = Registered
    /\ s.state = Registered => r.sess.state = Registered /\ r.sess.assoc = s.assoc

\* The same of a Peer that takes a message from its Server.
PeerSteps(s, p, r) ==
    /\ InStep(s, r.sess)
    /\ r.send # None => ToServer(s, r.sess, r.send)
    /\ r.panic = FALSE
    /\ r.sess.info = p.info /\ r.sess.other = p.other /\ r.sess.noob = p.noob
    /\ p.state # Unregistered => r.sess.state # Unregistered
    /\ p.state = Unregistered =>
          \/ r.sess.state = Unregistered
          \/ r.sess.state = Waiting /\ r.send # None /\ r.send.type = 3
    /\ s.state # Unregistered => r.sess.state = p.state \/ r.sess.state = Registered
    /\ r.success = TRUE => r.sess.state = Registered
    /\ p.state = Registered => r.sess.state = Registered /\ r.sess.assoc = p.assoc

\* A message that says nothing about the sessions.
Plain(m) == m.type \in {None, 0, 4} /\ m.eap # "success"

\* Nothing has to hold for such a message to be on its way.
LEMMA PlainMessages ==
    ASSUME NEW m, Plain(m), NEW s, NEW p
    PROVE  ToPeer(s, p, m) /\ ToServer(s, p, m) /\ m.type # 1
  BY ConfigAssumption DEF Plain, ToPeer, ToServer

\* Error notifications, EAP failure and the Waiting request are such messages.
LEMMA PlainBytes ==
    /\ \A code : Plain(err_bytes(code))
    /\ Plain(result_bytes("failure"))
    /\ \A id : Plain([Wire0 EXCEPT !.type = 4, !.peer_id = id])
  BY ConfigAssumption DEF Plain, err_bytes, result_bytes, Wire0

\* Ending a handler with an error, or with a message that says the truth, keeps
\* the two in step.
LEMMA ServerEnds ==
    ASSUME NEW s, NEW s1, NEW p, InStep(s1, p), s1.info = s.info,
           s1.other = s.other, s1.noob = s.noob, s1.state = s.state,
           s1.assoc = s.assoc
    PROVE  /\ \A code : ServerSteps(s, p, fail_code(s1, code))
           /\ \A code : ServerSteps(s, p, peer_error(s1, code))
           /\ ServerSteps(s, p, fail(s1))
           /\ ServerSteps(s, p, done_failure(s1))
           /\ \A m : ToPeer(s1, p, m) /\ m.type # 1 => ServerSteps(s, p, Send(s1, m))
<1>1. \A code : ServerSteps(s, p, fail_code(s1, code))
  <2> SUFFICES ASSUME NEW code
               PROVE  ServerSteps(s, p, fail_code(s1, code))
    OBVIOUS
  <2> DEFINE r == fail_code(s1, code)
  <2>1. r.sess = s1 /\ r.panic = FALSE /\ r.success = FALSE /\ r.send = err_bytes(code)
    BY DEF Send, fail_code
  <2> HIDE DEF r
  <2>2. ToPeer(s1, p, err_bytes(code)) /\ err_bytes(code).type # 1
    BY PlainBytes, PlainMessages
  <2> QED
    BY <2>1, <2>2 DEF ServerSteps, r
<1>2. \A code : ServerSteps(s, p, peer_error(s1, code))
  <2> SUFFICES ASSUME NEW code
               PROVE  ServerSteps(s, p, peer_error(s1, code))
    OBVIOUS
  <2> DEFINE r == peer_error(s1, code)
  <2>1. r.sess = s1 /\ r.panic = FALSE /\ r.success = FALSE /\ r.send = None
    BY DEF Send, peer_error
  <2> HIDE DEF r
  <2> QED
    BY <2>1 DEF ServerSteps, r
<1>3. ServerSteps(s, p, done_failure(s1))
  <2> DEFINE r == done_failure(s1)
  <2>1. r.sess = s1 /\ r.panic = FALSE /\ r.success = FALSE /\ r.send = result_bytes("failure")
    BY DEF Send, Done, done_failure
  <2> HIDE DEF r
  <2>2. ToPeer(s1, p, result_bytes("failure")) /\ result_bytes("failure").type # 1
    BY PlainBytes, PlainMessages
  <2> QED
    BY <2>1, <2>2 DEF ServerSteps, r
<1>4. \A m : ToPeer(s1, p, m) /\ m.type # 1 => ServerSteps(s, p, Send(s1, m))
  <2> SUFFICES ASSUME NEW m, ToPeer(s1, p, m), m.type # 1
               PROVE  ServerSteps(s, p, Send(s1, m))
    OBVIOUS
  <2> DEFINE r == Send(s1, m)
  <2>1. r.sess = s1 /\ r.panic = FALSE /\ r.success = FALSE /\ r.send = m
    BY DEF Send
  <2> HIDE DEF r
  <2> QED
    BY <2>1 DEF ServerSteps, r
<1> QED
  BY <1>1, <1>2, <1>3, <1>4 DEF fail

\* The same for the Peer.
LEMMA PeerEnds ==
    ASSUME NEW s, NEW p, NEW p1, InStep(s, p1), p1.info = p.info,
           p1.other = p.other, p1.noob = p.noob, p1.state = p.state,
           p1.assoc = p.assoc
    PROVE  /\ \A code : PeerSteps(s, p, fail_code(p1, code))
           /\ \A code : PeerSteps(s, p, peer_error(p1, code))
           /\ PeerSteps(s, p, fail(p1))
           /\ PeerSteps(s, p, Done(p1, None, FALSE))
           /\ \A m : ToServer(s, p1, m) => PeerSteps(s, p, Send(p1, m))
<1>1. \A code : PeerSteps(s, p, fail_code(p1, code))
  <2> SUFFICES ASSUME NEW code
               PROVE  PeerSteps(s, p, fail_code(p1, code))
    OBVIOUS
  <2> DEFINE r == fail_code(p1, code)
  <2>1. r.sess = p1 /\ r.panic = FALSE /\ r.success = FALSE /\ r.send = err_bytes(code)
    BY DEF Send, fail_code
  <2> HIDE DEF r
  <2>2. ToServer(s, p1, err_bytes(code))
    BY PlainBytes, PlainMessages
  <2> QED
    BY <2>1, <2>2 DEF PeerSteps, r
<1>2. \A code : PeerSteps(s, p, peer_error(p1, code))
  <2> SUFFICES ASSUME NEW code
               PROVE  PeerSteps(s, p, peer_error(p1, code))
    OBVIOUS
  <2> DEFINE r == peer_error(p1, code)
  <2>1. r.sess = p1 /\ r.panic = FALSE /\ r.success = FALSE /\ r.send = None
    BY DEF Send, peer_error
  <2> HIDE DEF r
  <2> QED
    BY <2>1 DEF PeerSteps, r
<1>3. PeerSteps(s, p, Done(p1, None, FALSE))
  <2> DEFINE r == Done(p1, None, FALSE)
  <2>1. r.sess = p1 /\ r.panic = FALSE /\ r.success = FALSE /\ r.send = None
    BY DEF Send, Done
  <2> HIDE DEF r
  <2> QED
    BY <2>1 DEF PeerSteps, r
<1>4. \A m : ToServer(s, p1, m) => PeerSteps(s, p, Send(p1, m))
  <2> SUFFICES ASSUME NEW m, ToServer(s, p1, m)
               PROVE  PeerSteps(s, p, Send(p1, m))
    OBVIOUS
  <2> DEFINE r == Send(p1, m)
  <2>1. r.sess = p1 /\ r.panic = FALSE /\ r.success = FALSE /\ r.send = m
    BY DEF Send
  <2> HIDE DEF r
  <2> QED
    BY <2>1 DEF PeerSteps, r
<1> QED
  BY <1>1, <1>2, <1>3, <1>4 DEF fail

-----------------------------------------------------------------------------
(* The Server's handlers, on a message from a Peer it is in step with.     *)

\* Type 1: negotiation starts over only from Unregistered.
LEMMA ServerDiscoveryStep ==
    ASSUME NEW s \in Session, NEW p \in Session, NEW m \in Wire,
           InStep(s, p), ToServer(s, p, m), m.type = 1
    PROVE  ServerSteps(s, p, Server_on_discovery(s, m))
<1> DEFINE ps == IF m.peer_state = None THEN 0 ELSE m.peer_state
           s1 == [s EXCEPT !.peer_state = ps]
<1>1. /\ m.peer_state # None
      /\ m.peer_state = Unregistered => p.state = Unregistered
      /\ m.peer_state = OobReceived => p.state = OobReceived
  BY DEF ToServer
<1>2. ps = m.peer_state
  BY <1>1
<1> HIDE DEF ps
<1>3. /\ s1.state = s.state /\ s1.csp = s.csp /\ s1.choice = s.choice
      /\ s1.offer = s.offer /\ s1.info = s.info /\ s1.pks = s.pks
      /\ s1.pkp = s.pkp /\ s1.z = s.z /\ s1.noob = s.noob
      /\ s1.keym = s.keym /\ s1.assoc = s.assoc /\ s1.other = s.other
      /\ s1.drawn = s.drawn /\ s1.id = s.id /\ s1.peer_state = ps
  BY DEF Session
<1>4. m.peer_state \in State
  BY <1>1 DEF Wire, Option
<1>5. s1 \in Session
  BY <1>2, <1>4 DEF Session
<1> HIDE DEF s1
<1>6. InStep(s1, p)
  BY <1>3 DEF InStep, SuiteChosen, OwnInfo, InSync, Agree
<1>7. s.state \in {Unregistered, Waiting, Registered}
  BY DEF InStep
<1>8. ServerSteps(s, p, fail(s1))
  BY <1>3, <1>6, ServerEnds
<1>9. ServerSteps(s, p, build_waiting(s1))
  <2>1. /\ ToPeer(s1, p, [Wire0 EXCEPT !.type = 4, !.peer_id = s1.peer_id])
        /\ [Wire0 EXCEPT !.type = 4, !.peer_id = s1.peer_id].type # 1
    BY PlainBytes, PlainMessages
  <2> QED
    BY <1>3, <1>6, <2>1, ServerEnds DEF build_waiting
<1>10. ASSUME ps = OobReceived, s.state = Waiting
       PROVE  ServerSteps(s, p, start_completion(s1))
  <2> DEFINE w == [Wire0 EXCEPT !.type = 5, !.peer_id = s1.peer_id]
  <2>1. w.type = 5 /\ w.eap = None
    BY DEF Wire0
  <2> HIDE DEF w
  <2>2. ToPeer(s1, p, w)
    BY <1>1, <1>2, <1>3, <1>10, <2>1, ConfigAssumption DEF ToPeer
  <2>3. ServerSteps(s, p, Send(s1, w))
    BY <1>3, <1>6, <2>1, <2>2, ServerEnds
  <2> QED
    BY <1>3, <1>8, <1>10, <2>3 DEF start_completion, w
<1>11. ASSUME s.state = Unregistered
       PROVE  ServerSteps(s, p, build_negotiation(s1))
  <2> DEFINE id    == Fresh(s1)
             offer == [vers |-> ServerVersions, peer_id |-> id,
                       cryptosuites |-> ServerSuites, dirs |-> ServerDirs,
                       info |-> s1.info]
             s2    == [Drew(s1) EXCEPT !.peer_id = id, !.offer = offer]
             w     == [Wire0 EXCEPT !.type = 2, !.peer_id = id, !.offer = offer]
  <2>1. offer.info = s1.info
    OBVIOUS
  <2>2. offer # None
    <3>1. offer \in Offer
      BY <1>5, Draws, ConfigAssumption DEF Offer, Session
    <3> QED
      BY <3>1, OptionAssumption
  <2> HIDE DEF offer, id
  <2>3. /\ s2.state = s1.state /\ s2.csp = s1.csp /\ s2.choice = s1.choice
        /\ s2.offer = offer /\ s2.info = s1.info /\ s2.noob = s1.noob
        /\ s2.assoc = s1.assoc /\ s2.other = s1.other
    BY <1>5 DEF Drew, Session
  <2>4. w.type = 2 /\ w.eap = None /\ w.offer = offer
    BY DEF Wire0
  <2> HIDE DEF s2, w
  <2>5. InStep(s2, p)
    BY <1>3, <1>6, <1>11, <2>1, <2>2, <2>3
       DEF InStep, SuiteChosen, OwnInfo, Unregistered, Waiting, Registered
  <2>6. ToPeer(s2, p, w)
    BY <1>3, <1>11, <2>2, <2>3, <2>4, ConfigAssumption DEF ToPeer
  <2>7. ServerSteps(s, p, Send(s2, w))
    BY <1>3, <2>3, <2>4, <2>5, <2>6, ServerEnds
  <2> QED
    BY <2>7 DEF build_negotiation, s2, w, offer, id
<1>12. ps = Unregistered => s.state = Unregistered
  BY <1>1, <1>2, <1>7 DEF InStep
<1>13. s.state # OobReceived
  BY <1>7 DEF Unregistered, Waiting, OobReceived, Registered
<1> QED
  BY <1>3, <1>7, <1>8, <1>9, <1>10, <1>11, <1>12, <1>13
     DEF Server_on_discovery, s1, ps, Unregistered, Waiting, OobReceived, Registered

\* Type 2: the Server takes over the Peer's choice and draws its key.
LEMMA ServerNegotiationStep ==
    ASSUME NEW s \in Session, NEW p \in Session, NEW m \in Wire,
           InStep(s, p), ToServer(s, p, m), m.type = 2
    PROVE  ServerSteps(s, p, Server_on_negotiation(s, m))
<1> DEFINE c  == m.choice
           s1 == [s EXCEPT !.csp = c.csp, !.dirp = c.dirp, !.choice = c]
           kp == generate(s1)
           s2 == [Drew(s1) EXCEPT !.keypair = kp, !.pks = kp]
           w  == [Wire0 EXCEPT !.type = 3, !.peer_id = s2.peer_id, !.pk = kp]
<1>1. /\ s.state = Unregistered /\ s.offer # None /\ p.offer = s.offer
      /\ c = p.choice
  BY DEF ToServer
<1>2. ServerSteps(s, p, fail(s))
  BY ServerEnds
<1>3. ASSUME c # None, from_id(c.csp) # 0
      PROVE  ServerSteps(s, p, build_key_exchange(s1))
  <2>1. c \in Choice /\ c.csp \in Int /\ c.dirp \in Int
    BY <1>3 DEF Wire, Option, Choice
  <2> HIDE DEF c
  <2>2. s1 \in Session
    BY <2>1 DEF Session, Option
  <2>3. /\ s1.state = s.state /\ s1.csp = c.csp /\ s1.choice = c
        /\ s1.offer = s.offer /\ s1.info = s.info /\ s1.noob = s.noob
        /\ s1.assoc = s.assoc /\ s1.other = s.other
    BY DEF Session
  <2> HIDE DEF s1
  <2>4. kp \in Key /\ kp # None
    BY <2>2, Draws, OptionAssumption
  <2> HIDE DEF kp
  <2>5. /\ s2.state = s1.state /\ s2.csp = s1.csp /\ s2.choice = s1.choice
        /\ s2.offer = s1.offer /\ s2.info = s1.info /\ s2.noob = s1.noob
        /\ s2.assoc = s1.assoc /\ s2.other = s1.other
        /\ s2.keypair = kp /\ s2.pks = kp
    BY <2>2 DEF Drew, Session
  <2> HIDE DEF s2
  <2>6. w.type = 3 /\ w.eap = None /\ w.pk = kp
    BY DEF Wire0
  <2> HIDE DEF w
  <2>7. InStep(s2, p)
    BY <1>1, <1>3, <2>3, <2>5
       DEF InStep, SuiteChosen, OwnInfo, Unregistered, Waiting, Registered
  <2>8. p.csp = c.csp
    BY <1>1, <1>3 DEF InStep, SuiteChosen
  <2>9. Negotiated(s2, p)
    BY <1>1, <1>3, <2>3, <2>5, <2>8 DEF Negotiated
  <2>10. ToPeer(s2, p, w)
    BY <1>1, <2>3, <2>4, <2>5, <2>6, <2>9, ConfigAssumption DEF ToPeer
  <2>11. ServerSteps(s, p, Send(s2, w))
    BY <2>3, <2>5, <2>6, <2>7, <2>10, ServerEnds
  <2> QED
    BY <2>11 DEF build_key_exchange, s2, w, kp
<1> QED
  BY <1>2, <1>3 DEF Server_on_negotiation

\* ECDH gives both sides the same secret.
LEMMA ComputeZSymmetric ==
    ASSUME NEW a, NEW b
    PROVE  compute_z(a, b) = compute_z(b, a)
<1>1. {a, b} = {b, a}
  OBVIOUS
<1> QED
  BY <1>1 DEF compute_z

\* Type 3: the Server reaches Waiting in sync with the Peer.
LEMMA ServerKeyExchangeStep ==
    ASSUME NEW s \in Session, NEW p \in Session, NEW m \in Wire,
           InStep(s, p), ToServer(s, p, m), m.type = 3
    PROVE  ServerSteps(s, p, Server_on_key_exchange(s, m))
<1> DEFINE z  == compute_z(s.keypair, m.pk)
           s1 == [s EXCEPT !.z = z, !.pkp = m.pk, !.state = Waiting]
<1>1. /\ s.state = Unregistered /\ Negotiated(s, p) /\ s.keypair # None
      /\ p.pks = s.pks /\ s.pks = s.keypair /\ m.pk = p.pkp
      /\ p.z = compute_z(p.pkp, p.pks) /\ p.state # Unregistered
  BY DEF ToServer
<1>2. ServerSteps(s, p, fail(s))
  BY ServerEnds
<1>3. p.z = z
  BY <1>1, ComputeZSymmetric
<1> HIDE DEF z
<1>4. ServerSteps(s, p, Done(s1, result_bytes("failure"), FALSE))
  <2>1. /\ s1.state = Waiting /\ s1.csp = s.csp /\ s1.choice = s.choice
        /\ s1.offer = s.offer /\ s1.info = s.info /\ s1.noob = s.noob
        /\ s1.assoc = s.assoc /\ s1.other = s.other /\ s1.pks = s.pks
        /\ s1.pkp = m.pk /\ s1.z = z
    BY DEF Session
  <2> HIDE DEF s1
  <2>2. InStep(s1, p)
    BY <1>1, <1>3, <2>1
       DEF InStep, SuiteChosen, OwnInfo, InSync, Negotiated, Unregistered,
           Waiting, Registered
  <2> DEFINE r == Done(s1, result_bytes("failure"), FALSE)
  <2>3. /\ r.sess = s1 /\ r.panic = FALSE /\ r.success = FALSE
        /\ r.send = result_bytes("failure")
    BY DEF Send, Done
  <2> HIDE DEF r
  <2>4. ToPeer(s1, p, result_bytes("failure")) /\ result_bytes("failure").type # 1
    BY PlainBytes, PlainMessages
  <2>5. s1.state # Unregistered /\ s.state # Registered
    BY <1>1, <2>1 DEF Unregistered, Waiting, Registered
  <2> QED
    BY <2>1, <2>2, <2>3, <2>4, <2>5 DEF ServerSteps, r
<1> QED
  BY <1>1, <1>2, <1>4 DEF Server_on_key_exchange, s1, z

\* Type 5: the Server checks the NoobId and answers with MACs.
LEMMA ServerNoobIdStep ==
    ASSUME NEW s \in Session, NEW p \in Session, NEW m \in Wire,
           InStep(s, p), ToServer(s, p, m), m.type = 5
    PROVE  ServerSteps(s, p, Server_on_noob_id(s, m))
<1> DEFINE k  == derive_completion(s)
           s1 == [s EXCEPT !.keym = k]
           w  == [Wire0 EXCEPT !.type = 6, !.peer_id = s1.peer_id,
                               !.noob_id = compute_noob_id(s1.noob),
                               !.mac = compute_mac(s1, 2)]
<1>1. s.state = Waiting /\ p.state = OobReceived
  BY DEF ToServer
<1>2. /\ ServerSteps(s, p, fail(s))
      /\ \A code : ServerSteps(s, p, fail_code(s, code))
  BY ServerEnds
<1>3. k # None
  BY Derived, OptionAssumption
<1> HIDE DEF k
<1>4. /\ s1.state = s.state /\ s1.csp = s.csp /\ s1.choice = s.choice
      /\ s1.offer = s.offer /\ s1.info = s.info /\ s1.noob = s.noob
      /\ s1.assoc = s.assoc /\ s1.other = s.other /\ s1.pks = s.pks
      /\ s1.pkp = s.pkp /\ s1.z = s.z /\ s1.keym = k
  BY DEF Session
<1> HIDE DEF s1
<1>5. InStep(s1, p)
  BY <1>1, <1>4
     DEF InStep, SuiteChosen, OwnInfo, InSync, Unregistered, Waiting, Registered
<1>6. w.type = 6 /\ w.eap = None
  BY DEF Wire0
<1> HIDE DEF w
<1>7. ToPeer(s1, p, w)
  BY <1>1, <1>3, <1>4, <1>6, ConfigAssumption DEF ToPeer
<1>8. ServerSteps(s, p, Send(s1, w))
  BY <1>4, <1>5, <1>6, <1>7, ServerEnds
<1>9. ServerSteps(s, p, build_completion(s))
  BY <1>8 DEF build_completion, s1, w, k
<1> QED
  BY <1>2, <1>9 DEF Server_on_noob_id

\* Type 6: a MACp that verifies is that of a Peer with the same secret, key and
\* transcript, and registers the Server.
LEMMA ServerCompletionStep ==
    ASSUME NEW s \in Session, NEW p \in Session, NEW m \in Wire,
           InStep(s, p), ToServer(s, p, m), m.type = 6
    PROVE  ServerSteps(s, p, Server_on_completion(s, m))
<1> DEFINE s1 == [s EXCEPT !.assoc = Server_finish(s), !.state = Registered]
           r  == Done(s1, result_bytes("success"), TRUE)
<1>1. /\ s.state = Waiting /\ p.state = OobReceived /\ s.keym # None
      /\ m.mac = compute_mac(p, 1)
  BY DEF ToServer
<1>2. /\ ServerSteps(s, p, fail(s))
      /\ \A code : ServerSteps(s, p, fail_code(s, code))
  BY ServerEnds
<1>3. ASSUME m.mac = compute_mac(s, 1)
      PROVE  ServerSteps(s, p, Done(s1, result_bytes("success"), TRUE))
  <2>1. s.noob = p.noob /\ s.keym = p.keym
    BY <1>1, <1>3 DEF compute_mac
  <2>2. /\ s1.state = Registered /\ s1.csp = s.csp /\ s1.choice = s.choice
        /\ s1.offer = s.offer /\ s1.info = s.info /\ s1.noob = s.noob
        /\ s1.assoc = Server_finish(s) /\ s1.other = s.other
        /\ s1.pks = s.pks /\ s1.pkp = s.pkp /\ s1.z = s.z /\ s1.keym = s.keym
    BY DEF Session
  <2> HIDE DEF s1
  <2>3. Agree(s1, p)
    BY <1>1, <2>1, <2>2
       DEF Agree, Server_finish, OobReceived, Registered
  <2>4. InStep(s1, p)
    BY <1>1, <2>2, <2>3
       DEF InStep, SuiteChosen, OwnInfo, InSync, Unregistered, Waiting,
           OobReceived, Registered
  <2>5. /\ r.sess = s1 /\ r.panic = FALSE /\ r.send = result_bytes("success")
    BY DEF Send, Done
  <2> HIDE DEF r
  <2>6. ToPeer(s1, p, result_bytes("success")) /\ result_bytes("success").type # 1
    <3> DEFINE w == result_bytes("success")
    <3>1. w.type = None
      BY DEF result_bytes, Wire0
    <3> HIDE DEF w
    <3> QED
      BY <2>2, <3>1, ConfigAssumption DEF ToPeer, w
  <2>7. s1.state # Unregistered /\ s.state # Registered
    BY <1>1, <2>2 DEF Unregistered, Waiting, Registered
  <2> QED
    BY <2>2, <2>4, <2>5, <2>6, <2>7 DEF ServerSteps, r
<1> QED
  BY <1>1, <1>2, <1>3 DEF Server_on_completion

\* Server::receive, on any message the Peer may have sent.
LEMMA ServerStep ==
    ASSUME NEW s \in Session, NEW p \in Session, NEW m \in Wire,
           InStep(s, p), ToServer(s, p, m)
    PROVE  ServerSteps(s, p, Server_receive(s, m))
<1>1. ServerSteps(s, p, fail(s)) /\ ServerSteps(s, p, done_failure(s))
  BY ServerEnds
<1>2. CASE m = None
  BY <1>1, <1>2 DEF Server_receive
<1>3. CASE m # None /\ m.error_code # None
  <2>1. ServerSteps(s, p, peer_error(s, m.error_code))
    BY ServerEnds
  <2> QED
    BY <1>3, <2>1 DEF Server_receive
<1>4. CASE m # None /\ m.error_code = None
  <2>1. m.type = 1 => ServerSteps(s, p, Server_on_discovery(s, m))
    BY ServerDiscoveryStep
  <2>2. m.type = 2 => ServerSteps(s, p, Server_on_negotiation(s, m))
    BY ServerNegotiationStep
  <2>3. m.type = 3 => ServerSteps(s, p, Server_on_key_exchange(s, m))
    BY ServerKeyExchangeStep
  <2>4. m.type = 5 => ServerSteps(s, p, Server_on_noob_id(s, m))
    BY ServerNoobIdStep
  <2>5. m.type = 6 => ServerSteps(s, p, Server_on_completion(s, m))
    BY ServerCompletionStep
  <2> QED
    BY <1>1, <1>4, <2>1, <2>2, <2>3, <2>4, <2>5 DEF Server_receive
<1> QED
  BY <1>2, <1>3, <1>4

-----------------------------------------------------------------------------
(* The Peer's handlers, on a message from a Server it is in step with.     *)

\* The EAP result: success comes from a Registered Server, and the Peer keeps
\* the association the Server has.
LEMMA PeerResultStep ==
    ASSUME NEW s \in Session, NEW p \in Session, NEW m \in Wire,
           InStep(s, p), ToPeer(s, p, m)
    PROVE  PeerSteps(s, p, Peer_on_result(p, m.eap))
<1> DEFINE p1 == [p EXCEPT !.assoc = {[csp |-> p.csp, kz |-> p.keym]},
                           !.state = Registered]
           r  == Done(p1, None, TRUE)
<1>1. PeerSteps(s, p, Done(p, None, FALSE))
  BY PeerEnds
<1>2. ASSUME m.eap = "success"
      PROVE  PeerSteps(s, p, Done(p1, None, TRUE))
  <2>1. s.state = Registered
    BY <1>2 DEF ToPeer
  <2>2. Agree(s, p) /\ InSync(s, p) /\ p.state \in {OobReceived, Registered}
    BY <2>1 DEF InStep, Unregistered, Registered
  <2>3. s.csp = p.csp
    BY <2>2 DEF InStep, InSync, SuiteChosen
  <2>4. /\ p1.state = Registered /\ p1.csp = p.csp /\ p1.choice = p.choice
        /\ p1.offer = p.offer /\ p1.info = p.info /\ p1.noob = p.noob
        /\ p1.assoc = {[csp |-> p.csp, kz |-> p.keym]} /\ p1.other = p.other
        /\ p1.pks = p.pks /\ p1.pkp = p.pkp /\ p1.z = p.z /\ p1.keym = p.keym
    BY DEF Session
  <2> HIDE DEF p1
  <2>5. p1.assoc = s.assoc
    BY <2>2, <2>3, <2>4 DEF Agree
  <2>6. Agree(s, p1)
    BY <2>2, <2>4, <2>5 DEF Agree
  <2>7. InStep(s, p1)
    BY <2>1, <2>4, <2>6
       DEF InStep, SuiteChosen, OwnInfo, InSync, Unregistered, Waiting,
           OobReceived, Registered
  <2>8. r.sess = p1 /\ r.panic = FALSE /\ r.send = None
    BY DEF Send, Done
  <2> HIDE DEF r
  <2>9. p1.state # Unregistered
    BY <2>4 DEF Unregistered, Registered
  <2>10. p.state = Registered => p1.assoc = p.assoc
    BY <2>2, <2>5 DEF Agree
  <2>11. p.state # Unregistered
    BY <2>2 DEF Unregistered, OobReceived, Registered
  <2> QED
    BY <2>4, <2>7, <2>8, <2>9, <2>10, <2>11 DEF PeerSteps, r
<1> QED
  BY <1>1, <1>2 DEF Peer_on_result

\* Types 1, 4 and 5: the Peer only answers.
LEMMA PeerAnswerStep ==
    ASSUME NEW s \in Session, NEW p \in Session, NEW m \in Wire,
           InStep(s, p), ToPeer(s, p, m)
    PROVE  /\ PeerSteps(s, p, Peer_on_discovery(p))
           /\ PeerSteps(s, p, Peer_on_waiting(p))
           /\ m.type = 5 => PeerSteps(s, p, Peer_on_noob_id(p))
<1>1. PeerSteps(s, p, fail(p))
  BY PeerEnds
<1>2. PeerSteps(s, p, Peer_on_discovery(p))
  <2> DEFINE w == [Wire0 EXCEPT !.type = 1, !.peer_state = p.state,
                                !.peer_id = IF p.state = Unregistered THEN None
                                            ELSE p.peer_id]
  <2>1. w.type = 1 /\ w.peer_state = p.state
    BY DEF Wire0
  <2> HIDE DEF w
  <2>2. p.state # None
    BY ConfigAssumption
       DEF Session, State, Unregistered, Waiting, OobReceived, Reconnecting, Registered
  <2>3. ToServer(s, p, w)
    BY <2>1, <2>2 DEF ToServer
  <2>4. PeerSteps(s, p, Send(p, w))
    BY <2>3, PeerEnds
  <2> QED
    BY <2>4 DEF Peer_on_discovery, w
<1>3. PeerSteps(s, p, Peer_on_waiting(p))
  <2>1. ToServer(s, p, [Wire0 EXCEPT !.type = 4, !.peer_id = p.peer_id])
    BY PlainBytes, PlainMessages
  <2> QED
    BY <2>1, PeerEnds DEF Peer_on_waiting
<1>4. ASSUME m.type = 5
      PROVE  PeerSteps(s, p, Peer_on_noob_id(p))
  <2> DEFINE w == [Wire0 EXCEPT !.type = 5, !.peer_id = p.peer_id,
                                !.noob_id = compute_noob_id(p.noob)]
  <2>1. w.type = 5
    BY DEF Wire0
  <2> HIDE DEF w
  <2>2. s.state = Waiting /\ p.state = OobReceived
    BY <1>4 DEF ToPeer
  <2>3. ToServer(s, p, w)
    BY <2>1, <2>2 DEF ToServer
  <2>4. PeerSteps(s, p, Send(p, w))
    BY <2>3, PeerEnds
  <2> QED
    BY <1>1, <2>4 DEF Peer_on_noob_id, w
<1> QED
  BY <1>2, <1>3, <1>4

\* Type 2: the Peer chooses, while the Server is still Unregistered.
LEMMA PeerNegotiationStep ==
    ASSUME NEW s \in Session, NEW p \in Session, NEW m \in Wire,
           InStep(s, p), ToPeer(s, p, m), m.type = 2
    PROVE  PeerSteps(s, p, Peer_on_negotiation(p, m))
<1> DEFINE o    == m.offer
           verp == best_version(o.vers, PeerVersions)
           csp  == first_supported(o.cryptosuites, PeerSuites)
           dirp == choose_dir(o.dirs, PreferDir)
           c    == [verp |-> verp, csp |-> csp, dirp |-> dirp, info |-> p.info]
           p1   == [p EXCEPT !.peer_id = m.peer_id]
           p2   == [p1 EXCEPT !.csp = csp, !.dirp = dirp, !.offer = o,
                              !.choice = c]
           w    == [Wire0 EXCEPT !.type = 2, !.peer_id = m.peer_id, !.choice = c]
<1>1. s.state = Unregistered /\ s.offer # None /\ o = s.offer
  BY DEF ToPeer
<1>2. PeerSteps(s, p, fail(p))
  BY PeerEnds
<1>3. /\ p1.state = p.state /\ p1.csp = p.csp /\ p1.choice = p.choice
      /\ p1.offer = p.offer /\ p1.info = p.info /\ p1.noob = p.noob
      /\ p1.assoc = p.assoc /\ p1.other = p.other
      /\ p1.pks = p.pks /\ p1.pkp = p.pkp /\ p1.z = p.z /\ p1.keym = p.keym
  BY DEF Session
<1>4. p1 \in Session
  BY DEF Session, Wire
<1>5. o \in Offer
  BY <1>1 DEF Wire, Option
<1>6. p.state # Registered
  BY <1>1 DEF InStep, Unregistered, Registered
<1> HIDE DEF p1, o
<1>7. InStep(s, p1)
  BY <1>1, <1>3
     DEF InStep, SuiteChosen, OwnInfo, Unregistered, Waiting, Registered
<1>8. PeerSteps(s, p, fail(p1))
  BY <1>3, <1>7, PeerEnds
<1>9. /\ verp \in Option(Int) /\ csp \in Option(Int) /\ dirp \in Option(Int)
  BY <1>5, BestVersion, FirstSupported, ChooseDir, ConfigAssumption DEF Offer
<1> HIDE DEF verp, csp, dirp
<1>10. ASSUME None \notin {verp, csp, dirp}
       PROVE  PeerSteps(s, p, Send(p2, w))
  <2>1. verp \in Int /\ csp \in Int /\ dirp \in Int
    BY <1>9, <1>10 DEF Option
  <2>2. c \in Choice
    BY <2>1 DEF Choice, Session
  <2>3. c # None
    BY <2>2, OptionAssumption
  <2>4. c.csp = csp /\ c.info = p.info
    OBVIOUS
  <2> HIDE DEF c
  <2>5. /\ p2.state = p1.state /\ p2.csp = csp /\ p2.choice = c
        /\ p2.offer = o /\ p2.info = p1.info /\ p2.noob = p1.noob
        /\ p2.assoc = p1.assoc /\ p2.other = p1.other
    BY <1>4 DEF Session
  <2> HIDE DEF p2
  <2>6. InStep(s, p2)
    BY <1>1, <1>3, <1>7, <2>3, <2>4, <2>5
       DEF InStep, SuiteChosen, OwnInfo, Unregistered, Waiting, Registered
  <2>7. w.type = 2 /\ w.choice = c
    BY DEF Wire0
  <2> HIDE DEF w
  <2>8. ToServer(s, p2, w)
    BY <1>1, <2>5, <2>7 DEF ToServer
  <2> QED
    BY <1>3, <2>5, <2>6, <2>8, PeerEnds
<1>11. CASE m.peer_id = None
  BY <1>2, <1>11 DEF Peer_on_negotiation
<1>12. CASE m.peer_id # None /\ None \in {verp, csp, dirp}
  BY <1>8, <1>12 DEF Peer_on_negotiation, p1, o, verp, csp, dirp
<1>13. CASE m.peer_id # None /\ None \notin {verp, csp, dirp}
  <2>1. o # None
    BY <1>1
  <2> HIDE DEF p2, w, c
  <2> QED
    BY <1>10, <1>13, <2>1
       DEF Peer_on_negotiation, p1, p2, w, c, o, verp, csp, dirp
<1> QED
  BY <1>11, <1>12, <1>13

\* Type 3: a suite was negotiated, so no unwrap() fails; the Peer reaches
\* Waiting with the Server's key and its own.
LEMMA PeerKeyExchangeStep ==
    ASSUME NEW s \in Session, NEW p \in Session, NEW m \in Wire,
           InStep(s, p), ToPeer(s, p, m), m.type = 3
    PROVE  PeerSteps(s, p, Peer_on_key_exchange(p, m))
<1> DEFINE kp == generate(p)
           z  == compute_z(kp, m.pk)
           p1 == Drew(p)
           p2 == [p1 EXCEPT !.keypair = kp, !.z = z, !.pks = m.pk,
                            !.pkp = kp, !.state = Waiting]
           w  == [Wire0 EXCEPT !.type = 3, !.peer_id = p2.peer_id, !.pk = kp]
<1>1. /\ s.state = Unregistered /\ Negotiated(s, p) /\ s.keypair # None
      /\ m.pk = s.pks /\ s.pks = s.keypair
  BY DEF ToPeer
<1>2. p.state # Registered
  BY <1>1 DEF InStep, Unregistered, Registered
<1>3. /\ p1.state = p.state /\ p1.csp = p.csp /\ p1.choice = p.choice
      /\ p1.offer = p.offer /\ p1.info = p.info /\ p1.noob = p.noob
      /\ p1.assoc = p.assoc /\ p1.other = p.other
  BY DEF Session, Drew
<1>4. p1 \in Session
  BY Draws
<1> HIDE DEF p1, kp, z
<1>5. InStep(s, p1)
  BY <1>1, <1>3
     DEF InStep, SuiteChosen, OwnInfo, Unregistered, Waiting, Registered
<1>6. PeerSteps(s, p, fail(p1))
  BY <1>3, <1>5, PeerEnds
<1>7. PeerSteps(s, p, Send(p2, w))
  <2>1. p2.peer_id = p1.peer_id
    BY <1>4 DEF Session
  <2>2. /\ p2.state = Waiting /\ p2.csp = p1.csp /\ p2.choice = p1.choice
        /\ p2.offer = p1.offer /\ p2.info = p1.info /\ p2.noob = p1.noob
        /\ p2.assoc = p1.assoc /\ p2.other = p1.other
        /\ p2.pks = m.pk /\ p2.pkp = kp /\ p2.z = z
    BY <1>4 DEF Session
  <2> HIDE DEF p2
  <2>3. InStep(s, p2)
    BY <1>1, <1>3, <1>5, <2>2
       DEF InStep, SuiteChosen, OwnInfo, Unregistered, Waiting, OobReceived, Registered
  <2>4. w.type = 3 /\ w.pk = kp
    BY DEF Wire0
  <2>5. w # None
    <3>1. kp \in Option(Key) /\ p2.peer_id \in Option(Token) /\ 3 \in Option(0..6)
      BY <1>4, <2>1, Draws, WireTypes, Some DEF kp, Session
    <3>2. w \in Wire
      BY <3>1, PlainWires DEF Wire
    <3> QED
      BY <3>2, OptionAssumption
  <2> HIDE DEF w
  <2>6. Negotiated(s, p2)
    BY <1>1, <1>3, <2>2 DEF Negotiated
  <2>7. p2.z = compute_z(p2.pkp, p2.pks)
    BY <2>2 DEF z
  <2>8. p2.state # Unregistered
    BY <2>2 DEF Unregistered, Waiting
  <2>9. ToServer(s, p2, w)
    BY <1>1, <2>2, <2>4, <2>6, <2>7, <2>8 DEF ToServer
  <2> DEFINE r == Send(p2, w)
  <2>10. r.sess = p2 /\ r.panic = FALSE /\ r.success = FALSE /\ r.send = w
    BY DEF Send
  <2> HIDE DEF r
  <2> QED
    BY <1>1, <1>2, <1>3, <2>2, <2>3, <2>4, <2>8, <2>9, <2>10, <2>5 DEF PeerSteps, r
<1>8. from_id(p.csp) # 0
  BY <1>1 DEF Negotiated
<1>9. m.pk # None
  BY <1>1
<1> HIDE DEF w, p2
<1> QED
  BY <1>6, <1>7, <1>8, <1>9 DEF Peer_on_key_exchange, p1, p2, kp, z, w

\* Type 6: the Peer verifies MACs and answers with MACp.
LEMMA PeerCompletionStep ==
    ASSUME NEW s \in Session, NEW p \in Session, NEW m \in Wire,
           InStep(s, p), ToPeer(s, p, m), m.type = 6
    PROVE  PeerSteps(s, p, Peer_on_completion(p, m))
<1> DEFINE p1 == [p EXCEPT !.keym = derive_completion(p)]
           w  == [Wire0 EXCEPT !.type = 6, !.peer_id = p1.peer_id,
                               !.mac = compute_mac(p1, 1)]
<1>1. s.state = Waiting /\ p.state = OobReceived /\ s.keym # None
  BY DEF ToPeer
<1>2. /\ PeerSteps(s, p, fail(p))
      /\ \A code : PeerSteps(s, p, fail_code(p, code))
  BY PeerEnds
<1>3. /\ p1.state = p.state /\ p1.csp = p.csp /\ p1.choice = p.choice
      /\ p1.offer = p.offer /\ p1.info = p.info /\ p1.noob = p.noob
      /\ p1.assoc = p.assoc /\ p1.other = p.other
      /\ p1.pks = p.pks /\ p1.pkp = p.pkp /\ p1.z = p.z
  BY DEF Session
<1> HIDE DEF p1
<1>4. InStep(s, p1)
  BY <1>1, <1>3
     DEF InStep, SuiteChosen, OwnInfo, InSync, Unregistered, Waiting, OobReceived,
         Registered
<1>5. w.type = 6 /\ w.mac = compute_mac(p1, 1)
  BY DEF Wire0
<1> HIDE DEF w
<1>6. ToServer(s, p1, w)
  BY <1>1, <1>3, <1>5 DEF ToServer
<1>7. /\ PeerSteps(s, p, Send(p1, w))
      /\ \A code : PeerSteps(s, p, fail_code(p1, code))
  BY <1>3, <1>4, <1>6, PeerEnds
<1> QED
  BY <1>2, <1>7 DEF Peer_on_completion, p1, w

\* Peer::receive, on any message the Server may have sent.
LEMMA PeerStep ==
    ASSUME NEW s \in Session, NEW p \in Session, NEW m \in Wire,
           InStep(s, p), ToPeer(s, p, m)
    PROVE  PeerSteps(s, p, Peer_receive(p, m))
<1>1. PeerSteps(s, p, fail(p))
  BY PeerEnds
<1>2. CASE m = None
  BY <1>1, <1>2 DEF Peer_receive
<1>3. CASE m # None /\ m.eap # None
  BY <1>3, PeerResultStep DEF Peer_receive
<1>4. CASE m # None /\ m.eap = None /\ m.error_code # None
  <2>1. PeerSteps(s, p, peer_error(p, m.error_code))
    BY PeerEnds
  <2> QED
    BY <1>4, <2>1 DEF Peer_receive
<1>5. CASE m # None /\ m.eap = None /\ m.error_code = None
  <2>1. /\ PeerSteps(s, p, Peer_on_discovery(p))
        /\ PeerSteps(s, p, Peer_on_waiting(p))
        /\ m.type = 5 => PeerSteps(s, p, Peer_on_noob_id(p))
    BY PeerAnswerStep
  <2>2. m.type = 2 => PeerSteps(s, p, Peer_on_negotiation(p, m))
    BY PeerNegotiationStep
  <2>3. m.type = 3 => PeerSteps(s, p, Peer_on_key_exchange(p, m))
    BY PeerKeyExchangeStep
  <2>4. m.type = 6 => PeerSteps(s, p, Peer_on_completion(p, m))
    BY PeerCompletionStep
  <2> QED
    BY <1>1, <1>5, <2>1, <2>2, <2>3, <2>4 DEF Peer_receive
<1> QED
  BY <1>2, <1>3, <1>4, <1>5

-----------------------------------------------------------------------------
(* The PIN.                                                                *)

\* Showing a PIN changes nothing that a message relies on.
LEMMA OutputStep ==
    ASSUME NEW s \in Session, NEW p \in Session, NEW noob,
           InStep(s, p), OobAllowed(s)
    PROVE  LET s1 == oob_output_with(s, noob) IN
           /\ InStep(s1, p)
           /\ \A m : ToPeer(s, p, m) => ToPeer(s1, p, m)
           /\ \A m : ToServer(s, p, m) => ToServer(s1, p, m)
<1> DEFINE s1 == oob_output_with(s, noob)
<1>1. /\ s1.state = s.state /\ s1.csp = s.csp /\ s1.choice = s.choice
      /\ s1.offer = s.offer /\ s1.info = s.info /\ s1.assoc = s.assoc
      /\ s1.pks = s.pks /\ s1.pkp = s.pkp /\ s1.z = s.z /\ s1.keym = s.keym
      /\ s1.keypair = s.keypair
  BY DEF oob_output_with, Session
<1> HIDE DEF s1
<1>2. s.state = Waiting
  BY DEF OobAllowed
<1>3. InStep(s1, p)
  BY <1>1, <1>2
     DEF InStep, SuiteChosen, OwnInfo, InSync, Unregistered, Waiting, Registered
<1>4. \A m : ToPeer(s, p, m) => ToPeer(s1, p, m)
  BY <1>1 DEF ToPeer, Negotiated
<1>5. \A m : ToServer(s, p, m) => ToServer(s1, p, m)
  BY <1>1 DEF ToServer, Negotiated
<1> QED
  BY <1>3, <1>4, <1>5 DEF s1

\* Nor does typing one in: no message relies on a Peer that is Waiting.
LEMMA InputStep ==
    ASSUME NEW s \in Session, NEW p \in Session, NEW noob,
           InStep(s, p), OobAllowed(p)
    PROVE  LET p1 == oob_input_noob(p, noob) IN
           /\ InStep(s, p1)
           /\ \A m : ToPeer(s, p, m) => ToPeer(s, p1, m)
           /\ \A m : ToServer(s, p, m) => ToServer(s, p1, m)
<1> DEFINE p1 == oob_input_noob(p, noob)
<1>1. /\ p1.state = OobReceived /\ p1.csp = p.csp /\ p1.choice = p.choice
      /\ p1.offer = p.offer /\ p1.info = p.info /\ p1.assoc = p.assoc
      /\ p1.pks = p.pks /\ p1.pkp = p.pkp /\ p1.z = p.z /\ p1.keym = p.keym
  BY DEF oob_input_noob, Session
<1> HIDE DEF p1
<1>2. p.state = Waiting
  BY DEF OobAllowed
<1>3. InStep(s, p1)
  BY <1>1, <1>2
     DEF InStep, SuiteChosen, OwnInfo, InSync, Unregistered, Waiting, OobReceived,
         Registered
<1>4. \A m : ToPeer(s, p, m) => ToPeer(s, p1, m)
  BY <1>1, <1>2 DEF ToPeer, Negotiated, Waiting, OobReceived
<1>5. \A m : ToServer(s, p, m) => ToServer(s, p1, m)
  BY <1>1, <1>2 DEF ToServer, Negotiated, Unregistered, Waiting, OobReceived
<1> QED
  BY <1>3, <1>4, <1>5 DEF p1

-----------------------------------------------------------------------------
(* What the Completion Exchange says about the PIN.                        *)

\* An outcome r never blames a PIN that both sides hold.
BlamesRightly(s, p, r) ==
    r.error_code # None /\ is_wrong_pin_code(r.error_code) => s.noob # p.noob

\* A message of another type, without an error code that blames the PIN, is exact.
LEMMA ExactMessages ==
    ASSUME NEW s, NEW p, NEW m
    PROVE  /\ m.type # 6 /\ m.error_code = None => ExactToPeer(s, p, m)
           /\ m.type # 6 /\ m.error_code = INVALID_DATA => ExactToPeer(s, p, m)
           /\ m.type # 6 /\ s.noob # p.noob => ExactToPeer(s, p, m)
           /\ m.type # 5 /\ m.type # 6 => ExactToServer(s, p, m)
  BY DEF ExactToPeer, ExactToServer, is_wrong_pin_code, INVALID_DATA,
         UNRECOGNIZED_OOB_MSG_ID, HMAC_VERIFICATION_FAILED

\* Error notifications and EAP results.
LEMMA PlainFields ==
    /\ \A code : err_bytes(code).type = 0 /\ err_bytes(code).error_code = code
    /\ \A kind : result_bytes(kind).type = None /\ result_bytes(kind).error_code = None
  BY DEF err_bytes, result_bytes, Wire0

\* Two sides in sync with the same PIN and derived keys compute the same MACs.
LEMMA SameMacs ==
    ASSUME NEW s, NEW p, InSync(s, p), s.noob = p.noob,
           s.keym = derive_completion(s), p.keym = derive_completion(p),
           NEW lead
    PROVE  compute_mac(s, lead) = compute_mac(p, lead)
<1>1. s.keym = p.keym
  BY DEF InSync, derive_completion
<1> QED
  BY <1>1 DEF InSync, compute_mac

\* The Server's answer to an exact message is exact.
LEMMA ServerExact ==
    ASSUME NEW s \in Session, NEW p \in Session, NEW m \in Wire,
           InStep(s, p), ToServer(s, p, m), ExactToServer(s, p, m)
    PROVE  LET r == Server_receive(s, m) IN
           r.send # None => ExactToPeer(r.sess, p, r.send)
<1> DEFINE Fine(r) == r.send # None => ExactToPeer(r.sess, p, r.send)
<1>1. ASSUME NEW s1
      PROVE  Fine(fail(s1)) /\ Fine(done_failure(s1))
  <2>1. ExactToPeer(s1, p, err_bytes(INVALID_DATA))
    BY PlainFields, ExactMessages
  <2>2. ExactToPeer(s1, p, result_bytes("failure"))
    BY PlainFields, ExactMessages, ConfigAssumption
  <2>3. fail(s1).sess = s1 /\ fail(s1).send = err_bytes(INVALID_DATA)
    BY DEF fail, fail_code, Send
  <2>4. done_failure(s1).sess = s1 /\ done_failure(s1).send = result_bytes("failure")
    BY DEF done_failure, Done, Send
  <2> QED
    BY <2>1, <2>2, <2>3, <2>4
<1>2. ASSUME NEW code, s.noob # p.noob
      PROVE  Fine(fail_code(s, code))
  <2>1. ExactToPeer(s, p, err_bytes(code))
    BY <1>2, PlainFields, ExactMessages
  <2>2. fail_code(s, code).sess = s /\ fail_code(s, code).send = err_bytes(code)
    BY DEF fail_code, Send
  <2> QED
    BY <2>1, <2>2
<1>3. ASSUME NEW code
      PROVE  Fine(peer_error(s, code))
  <2>1. peer_error(s, code).send = None
    BY DEF peer_error, Send
  <2> QED
    BY <2>1
<1>4. Fine(Panic(s))
  <2>1. Panic(s).send = None
    BY DEF Panic, Send
  <2> QED
    BY <2>1
<1>5. ASSUME NEW s1, NEW w, w.type # 6, w.error_code = None
      PROVE  Fine(Send(s1, w))
  <2>1. ExactToPeer(s1, p, w)
    BY <1>5, ExactMessages
  <2>2. Send(s1, w).sess = s1 /\ Send(s1, w).send = w
    BY DEF Send
  <2> QED
    BY <2>1, <2>2
<1>6. ASSUME NEW s1 \in Session
      PROVE  Fine(build_completion(s1))
  <2> DEFINE k  == derive_completion(s1)
             s2 == [s1 EXCEPT !.keym = k]
             w  == [Wire0 EXCEPT !.type = 6, !.peer_id = s2.peer_id,
                                 !.noob_id = compute_noob_id(s2.noob),
                                 !.mac = compute_mac(s2, 2)]
  <2> HIDE DEF k
  <2>1. s2.keym = k /\ s2.noob = s1.noob /\ s2.z = s1.z /\ s2.pkp = s1.pkp
        /\ s2.pks = s1.pks
    BY DEF Session
  <2> HIDE DEF s2
  <2>2. s2.keym = derive_completion(s2)
    BY <2>1 DEF k, derive_completion
  <2>3. /\ w.noob_id = compute_noob_id(s2.noob) /\ w.mac = compute_mac(s2, 2)
        /\ w.error_code = None
    BY DEF Wire0
  <2> HIDE DEF w
  <2>4. ExactToPeer(s2, p, w)
    BY <2>2, <2>3 DEF ExactToPeer
  <2>5. Send(s2, w).sess = s2 /\ Send(s2, w).send = w
    BY DEF Send
  <2>6. build_completion(s1) = Send(s2, w)
    BY DEF build_completion, s2, w, k
  <2> QED
    BY <2>4, <2>5, <2>6
<1>7. Fine(Server_on_discovery(s, m))
  <2> DEFINE ps == IF m.peer_state = None THEN 0 ELSE m.peer_state
             s1 == [s EXCEPT !.peer_state = ps]
  <2>1. ps \in State
    BY DEF Wire, Option, State, Unregistered
  <2>2. s1 \in Session
    BY <2>1 DEF Session
  <2> HIDE DEF s1
  <2>3. Fine(build_waiting(s1))
    <3> DEFINE w == [Wire0 EXCEPT !.type = 4, !.peer_id = s1.peer_id]
    <3>1. w.type # 6 /\ w.error_code = None
      BY DEF Wire0
    <3> HIDE DEF w, Fine
    <3>2. Fine(Send(s1, w))
      BY <1>5, <3>1
    <3> QED
      BY <3>2 DEF build_waiting, w
  <2>4. Fine(Send(s1, [Wire0 EXCEPT !.type = 5, !.peer_id = s1.peer_id]))
    <3> DEFINE w == [Wire0 EXCEPT !.type = 5, !.peer_id = s1.peer_id]
    <3>1. w.type # 6 /\ w.error_code = None
      BY DEF Wire0
    <3> HIDE DEF w, Fine
    <3>2. Fine(Send(s1, w))
      BY <1>5, <3>1
    <3> QED
      BY <3>2 DEF w
  <2>5. Fine(build_negotiation(s1))
    <3> DEFINE id    == Fresh(s1)
               offer == [vers |-> ServerVersions, peer_id |-> id,
                         cryptosuites |-> ServerSuites, dirs |-> ServerDirs,
                         info |-> s1.info]
               s2    == [Drew(s1) EXCEPT !.peer_id = id, !.offer = offer]
               w     == [Wire0 EXCEPT !.type = 2, !.peer_id = id, !.offer = offer]
    <3> HIDE DEF id, offer, s2
    <3>1. w.type # 6 /\ w.error_code = None
      BY DEF Wire0
    <3> HIDE DEF w, Fine
    <3>2. Fine(Send(s2, w))
      BY <1>5, <3>1
    <3> QED
      BY <3>2 DEF build_negotiation, w, s2, offer, id
  <2> HIDE DEF Fine
  <2>6. Fine(start_completion(s1))
    BY <1>1, <1>6, <2>2, <2>4 DEF start_completion
  <2> QED
    BY <1>1, <2>3, <2>5, <2>6 DEF Server_on_discovery, s1
<1>8. Fine(Server_on_negotiation(s, m))
  <2> DEFINE c  == m.choice
             s1 == [s EXCEPT !.csp = c.csp, !.dirp = c.dirp, !.choice = c]
  <2> HIDE DEF s1
  <2>1. Fine(build_key_exchange(s1))
    <3> DEFINE kp == generate(s1)
               s2 == [Drew(s1) EXCEPT !.keypair = kp, !.pks = kp]
               w  == [Wire0 EXCEPT !.type = 3, !.peer_id = s2.peer_id, !.pk = kp]
    <3> HIDE DEF kp, s2
    <3>1. w.type # 6 /\ w.error_code = None
      BY DEF Wire0
    <3> HIDE DEF w, Fine
    <3>2. Fine(Send(s2, w))
      BY <1>5, <3>1
    <3> QED
      BY <3>2 DEF build_key_exchange, w, s2, kp
  <2> HIDE DEF Fine
  <2> QED
    BY <1>1, <2>1 DEF Server_on_negotiation, s1
<1>9. Fine(Server_on_key_exchange(s, m))
  <2>1. ASSUME NEW s1
        PROVE  Fine(Done(s1, result_bytes("failure"), FALSE))
    BY <1>1 DEF done_failure
  <2> HIDE DEF Fine
  <2> QED
    BY <1>1, <1>4, <2>1 DEF Server_on_key_exchange
<1>10. ASSUME m.type = 5
       PROVE  Fine(Server_on_noob_id(s, m))
  <2>1. m.noob_id # compute_noob_id(s.noob) => s.noob # p.noob
    BY <1>10 DEF ExactToServer
  <2> HIDE DEF Fine
  <2> QED
    BY <1>1, <1>2, <1>6, <2>1 DEF Server_on_noob_id
<1>11. ASSUME m.type = 6
       PROVE  Fine(Server_on_completion(s, m))
  <2>1. /\ s.keym = derive_completion(s) /\ p.keym = derive_completion(p)
        /\ m.mac = compute_mac(p, 1) /\ s.state = Waiting
    BY <1>11 DEF ExactToServer, ToServer
  <2>2. InSync(s, p)
    BY <2>1 DEF InStep, Unregistered, Waiting
  <2>3. m.mac # compute_mac(s, 1) => s.noob # p.noob
    BY <2>1, <2>2, SameMacs
  <2>4. ASSUME NEW s1
        PROVE  Fine(Done(s1, result_bytes("success"), TRUE))
    <3>1. ExactToPeer(s1, p, result_bytes("success"))
      BY PlainFields, ExactMessages, ConfigAssumption
    <3>2. /\ Done(s1, result_bytes("success"), TRUE).sess = s1
          /\ Done(s1, result_bytes("success"), TRUE).send = result_bytes("success")
      BY DEF Done, Send
    <3> QED
      BY <3>1, <3>2
  <2> HIDE DEF Fine
  <2> QED
    BY <1>1, <1>2, <1>4, <2>3, <2>4 DEF Server_on_completion
<1> HIDE DEF Fine
<1>12. Fine(Server_receive(s, m))
  BY <1>1, <1>3, <1>7, <1>8, <1>9, <1>10, <1>11 DEF Server_receive
<1> QED
  BY <1>12 DEF Fine

\* The Peer's answer to an exact message is exact, and it blames the PIN only
\* when the two differ.
LEMMA PeerExact ==
    ASSUME NEW s \in Session, NEW p \in Session, NEW m \in Wire,
           InStep(s, p), ToPeer(s, p, m), ExactToPeer(s, p, m)
    PROVE  LET r == Peer_receive(p, m) IN
           /\ r.send # None => ExactToServer(s, r.sess, r.send)
           /\ BlamesRightly(s, p, r)
<1> DEFINE Fine(r) == /\ r.send # None => ExactToServer(s, r.sess, r.send)
                      /\ BlamesRightly(s, p, r)
<1>1. ~ is_wrong_pin_code(INVALID_DATA)
  BY DEF is_wrong_pin_code, INVALID_DATA, UNRECOGNIZED_OOB_MSG_ID,
         HMAC_VERIFICATION_FAILED
<1>2. ASSUME NEW p1, NEW code, is_wrong_pin_code(code) => s.noob # p.noob
      PROVE  Fine(fail_code(p1, code))
  <2>1. ExactToServer(s, p1, err_bytes(code))
    BY PlainFields, ExactMessages
  <2>2. /\ fail_code(p1, code).sess = p1 /\ fail_code(p1, code).send = err_bytes(code)
        /\ fail_code(p1, code).error_code = code
    BY DEF fail_code, Send
  <2> QED
    BY <1>2, <2>1, <2>2 DEF BlamesRightly
<1>3. ASSUME NEW p1
      PROVE  Fine(fail(p1))
  <2> HIDE DEF Fine
  <2> QED
    BY <1>1, <1>2 DEF fail
<1>4. ASSUME m.error_code # None
      PROVE  Fine(peer_error(p, m.error_code))
  <2>1. /\ peer_error(p, m.error_code).send = None
        /\ peer_error(p, m.error_code).error_code = m.error_code
    BY DEF peer_error, Send
  <2> QED
    BY <1>4, <2>1 DEF BlamesRightly, ExactToPeer
<1>5. ASSUME NEW p1, NEW w, ExactToServer(s, p1, w)
      PROVE  Fine(Send(p1, w))
  <2>1. Send(p1, w).sess = p1 /\ Send(p1, w).send = w /\ Send(p1, w).error_code = None
    BY DEF Send
  <2> QED
    BY <1>5, <2>1 DEF BlamesRightly
<1>6. Fine(Panic(p))
  <2>1. Panic(p).send = None /\ Panic(p).error_code = None
    BY DEF Panic, Send
  <2> QED
    BY <2>1 DEF BlamesRightly
<1>7. Fine(Peer_on_result(p, m.eap))
  <2>1. ASSUME NEW p1, NEW ok
        PROVE  Fine(Done(p1, None, ok))
    <3>1. Done(p1, None, ok).send = None /\ Done(p1, None, ok).error_code = None
      BY DEF Done, Send
    <3> QED
      BY <3>1 DEF BlamesRightly
  <2>2. CASE m.eap = "success"
    <3> HIDE DEF Fine
    <3> QED
      BY <2>1, <2>2 DEF Peer_on_result
  <2>3. CASE m.eap # "success"
    <3> HIDE DEF Fine
    <3> QED
      BY <2>1, <2>3 DEF Peer_on_result
  <2> QED
    BY <2>2, <2>3
<1>8. Fine(Peer_on_discovery(p)) /\ Fine(Peer_on_waiting(p))
  <2> DEFINE w1 == [Wire0 EXCEPT !.type = 1, !.peer_state = p.state,
                                 !.peer_id = IF p.state = Unregistered THEN None
                                             ELSE p.peer_id]
             w4 == [Wire0 EXCEPT !.type = 4, !.peer_id = p.peer_id]
  <2>1. w1.type = 1 /\ w4.type = 4
    BY DEF Wire0
  <2> HIDE DEF w1, w4, Fine
  <2>2. ExactToServer(s, p, w1) /\ ExactToServer(s, p, w4)
    BY <2>1, ExactMessages
  <2>3. Fine(Send(p, w1)) /\ Fine(Send(p, w4))
    BY <1>5, <2>2
  <2> QED
    BY <2>3 DEF Peer_on_discovery, Peer_on_waiting, w1, w4
<1>9. Fine(Peer_on_negotiation(p, m))
  <2>1. ASSUME NEW p1, NEW id, NEW c
        PROVE  ExactToServer(s, p1, [Wire0 EXCEPT !.type = 2, !.peer_id = id, !.choice = c])
    <3> DEFINE w == [Wire0 EXCEPT !.type = 2, !.peer_id = id, !.choice = c]
    <3>1. w.type = 2
      BY DEF Wire0
    <3> HIDE DEF w
    <3>2. ExactToServer(s, p1, w)
      BY <3>1, ExactMessages
    <3> QED
      BY <3>2 DEF w
  <2> HIDE DEF Fine
  <2> QED
    BY <1>3, <1>5, <2>1 DEF Peer_on_negotiation
<1>10. Fine(Peer_on_key_exchange(p, m))
  <2>1. ASSUME NEW p1, NEW id, NEW k
        PROVE  ExactToServer(s, p1, [Wire0 EXCEPT !.type = 3, !.peer_id = id, !.pk = k])
    <3> DEFINE w == [Wire0 EXCEPT !.type = 3, !.peer_id = id, !.pk = k]
    <3>1. w.type = 3
      BY DEF Wire0
    <3> HIDE DEF w
    <3>2. ExactToServer(s, p1, w)
      BY <3>1, ExactMessages
    <3> QED
      BY <3>2 DEF w
  <2> HIDE DEF Fine
  <2> QED
    BY <1>3, <1>5, <1>6, <2>1 DEF Peer_on_key_exchange
<1>11. Fine(Peer_on_noob_id(p))
  <2> DEFINE w == [Wire0 EXCEPT !.type = 5, !.peer_id = p.peer_id,
                                !.noob_id = compute_noob_id(p.noob)]
  <2>1. w.type = 5 /\ w.noob_id = compute_noob_id(p.noob)
    BY DEF Wire0
  <2> HIDE DEF w
  <2>2. ExactToServer(s, p, w)
    BY <2>1 DEF ExactToServer
  <2>3. Fine(Send(p, w))
    BY <1>5, <2>2
  <2> HIDE DEF Fine
  <2> QED
    BY <1>3, <2>3 DEF Peer_on_noob_id, w
<1>12. ASSUME m.type = 6
       PROVE  Fine(Peer_on_completion(p, m))
  <2> DEFINE k  == derive_completion(p)
             p1 == [p EXCEPT !.keym = k]
             w  == [Wire0 EXCEPT !.type = 6, !.peer_id = p1.peer_id,
                                 !.mac = compute_mac(p1, 1)]
  <2>1. /\ m.noob_id = compute_noob_id(s.noob) /\ m.mac = compute_mac(s, 2)
        /\ s.keym = derive_completion(s) /\ s.state = Waiting
    BY <1>12 DEF ExactToPeer, ToPeer
  <2> HIDE DEF k
  <2>2. /\ p1.keym = k /\ p1.noob = p.noob /\ p1.z = p.z /\ p1.pkp = p.pkp
        /\ p1.pks = p.pks /\ p1.offer = p.offer /\ p1.choice = p.choice
    BY DEF Session
  <2> HIDE DEF p1
  <2>3. p1.keym = derive_completion(p1)
    BY <2>2 DEF k, derive_completion
  <2>4. InSync(s, p1)
    BY <2>1, <2>2 DEF InStep, InSync, Unregistered, Waiting
  <2>5. m.mac # compute_mac(p1, 2) => s.noob # p.noob
    BY <2>1, <2>2, <2>3, <2>4, SameMacs
  <2>6. m.noob_id # compute_noob_id(p.noob) => s.noob # p.noob
    BY <2>1
  <2>7. w.type = 6
    BY DEF Wire0
  <2> HIDE DEF w
  <2>8. ExactToServer(s, p1, w)
    BY <2>1, <2>3, <2>7 DEF ExactToServer
  <2>9. Fine(Send(p1, w))
    BY <1>5, <2>8
  <2> HIDE DEF Fine
  <2> QED
    BY <1>2, <1>3, <2>5, <2>6, <2>9 DEF Peer_on_completion, p1, w, k
<1> HIDE DEF Fine
<1>13. Fine(Peer_receive(p, m))
  BY <1>3, <1>4, <1>7, <1>8, <1>9, <1>10, <1>11, <1>12 DEF Peer_receive
<1> QED
  BY <1>13 DEF Fine

\* The key exchange, and every error, is the end of create_invite's loop.
LEMMA KeyExchangeEnds ==
    ASSUME NEW s, NEW m, m # None, m.type = 3, ~Server_receive(s, m).panic
    PROVE  Server_receive(s, m).done
<1>1. ASSUME NEW s1, NEW w, NEW code
      PROVE  /\ fail_code(s1, code).done = TRUE /\ peer_error(s1, code).done = TRUE
             /\ fail(s1).done = TRUE /\ Done(s1, w, FALSE).done = TRUE
             /\ Panic(s1).panic = TRUE
  BY DEF fail, fail_code, peer_error, Done, Panic, Send
<1>2. CASE m.error_code # None
  BY <1>1, <1>2 DEF Server_receive
<1>3. CASE m.error_code = None
  <2>1. Server_receive(s, m) = Server_on_key_exchange(s, m)
    BY <1>3 DEF Server_receive
  <2> QED
    BY <1>1, <2>1 DEF Server_on_key_exchange
<1> QED
  BY <1>2, <1>3

\* An error ends the Peer's conversation, without success.
LEMMA PeerErrorsEnd ==
    ASSUME NEW s, NEW m, Peer_receive(s, m).error_code # None
    PROVE  LET r == Peer_receive(s, m) IN r.done /\ ~r.success /\ ~r.panic
<1> DEFINE Ends(r) == r.error_code # None => r.done /\ ~r.success /\ ~r.panic
<1>1. ASSUME NEW s1, NEW w, NEW code
      PROVE  /\ Ends(fail_code(s1, code)) /\ Ends(peer_error(s1, code)) /\ Ends(fail(s1))
             /\ Ends(Send(s1, w)) /\ Ends(Panic(s1))
             /\ Ends(Done(s1, w, TRUE)) /\ Ends(Done(s1, w, FALSE))
  BY DEF fail, fail_code, peer_error, Done, Panic, Send
<1> HIDE DEF Ends
<1>2. Ends(Peer_on_result(s, m.eap)) /\ Ends(Peer_on_discovery(s))
  BY <1>1 DEF Peer_on_result, Peer_on_discovery
<1>3. Ends(Peer_on_negotiation(s, m)) /\ Ends(Peer_on_key_exchange(s, m))
  BY <1>1 DEF Peer_on_negotiation, Peer_on_key_exchange
<1>4. Ends(Peer_on_waiting(s)) /\ Ends(Peer_on_noob_id(s)) /\ Ends(Peer_on_completion(s, m))
  BY <1>1 DEF Peer_on_waiting, Peer_on_noob_id, Peer_on_completion
<1>5. Ends(Peer_receive(s, m))
  BY <1>1, <1>2, <1>3, <1>4 DEF Peer_receive
<1> QED
  BY <1>5 DEF Ends

=============================================================================
