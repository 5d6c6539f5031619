------------------------ MODULE EapConversationProofs ------------------------
(***************************************************************************)
(* The properties of EapConversation, for every configuration, every set   *)
(* of PINs and any number of conversations.  The inductive invariant says  *)
(* that the two machines are in step and that the message in flight tells  *)
(* the truth about them; the lemmas of EapProofs say that every handler    *)
(* keeps it.                                                               *)
(***************************************************************************)
EXTENDS EapConversation, EapProofs

\* The type invariant with the shape of the message in flight.
Typed ==
    /\ srv \in Session /\ peer \in Session
    /\ \/ wire = None
       \/ wire.msg \in Wire /\ (wire.to = "server" \/ wire.to = "peer")
    /\ started \in 0..MaxConversations /\ panicked \in BOOLEAN

\* The message in flight says the truth about both sides.
Truthful ==
    wire # None =>
        /\ wire.to = "peer" => ToPeer(srv, peer, wire.msg)
        /\ wire.to = "server" => ToServer(srv, peer, wire.msg)

Related == InStep(srv, peer) /\ Truthful /\ panicked = FALSE

-----------------------------------------------------------------------------
(* Types.                                                                  *)

\* A new session is a session.
LEMMA NewSessions ==
    ASSUME NEW id \in SessionIds, NEW info \in Nodes
    PROVE  NewSession(id, info) \in Session
<1>1. Unregistered \in State /\ 0 \in State
  BY DEF State, Unregistered
<1> QED
  BY <1>1 DEF NewSession, Session, Option

LEMMA InitTyped == Init => Typed
<1> SUFFICES ASSUME Init
             PROVE  Typed
  OBVIOUS
<1>1. srv \in Session /\ peer \in Session
  BY NewSessions, ConversationAssumption DEF Init
<1>2. started \in 0..MaxConversations
  BY ConversationAssumption DEF Init
<1> QED
  BY <1>1, <1>2 DEF Typed, Init

\* What Relay puts on the wire is well-formed.
LEMMA RelayTyped ==
    ASSUME NEW r \in Outcome, NEW to, to = "server" \/ to = "peer",
           panicked \in BOOLEAN, Relay(to, r)
    PROVE  /\ \/ wire' = None
              \/ wire'.msg \in Wire /\ (wire'.to = "server" \/ wire'.to = "peer")
           /\ panicked' \in BOOLEAN
<1>1. r.send \in Option(Wire) /\ r.panic \in BOOLEAN
  BY DEF Outcome
<1>2. panicked' \in BOOLEAN
  <2>1. CASE panicked = TRUE \/ r.panic = TRUE
    BY <2>1 DEF Relay
  <2>2. CASE panicked = FALSE /\ r.panic = FALSE
    BY <2>2 DEF Relay
  <2> QED
    BY <1>1, <2>1, <2>2
<1>3. CASE r.send = None
  BY <1>2, <1>3 DEF Relay
<1>4. CASE r.send # None
  <2>1. r.send \in Wire
    BY <1>1, <1>4 DEF Option
  <2>2. wire' = [to |-> to, msg |-> r.send]
    BY <1>4 DEF Relay
  <2> QED
    BY <1>2, <2>1, <2>2
<1> QED
  BY <1>3, <1>4

LEMMA NextTyped == Typed /\ [Next]_vars => Typed'
<1> SUFFICES ASSUME Typed, [Next]_vars
             PROVE  Typed'
  OBVIOUS
<1> USE DEF Typed
<1>1. CASE Start
  <2>1. started' \in 0..MaxConversations
    BY <1>1, ConversationAssumption DEF Start
  <2> QED
    BY <1>1, <2>1, PlainWires DEF Start
<1>2. CASE ServerReceives
  <2> DEFINE r == Server_receive(srv, wire.msg)
  <2>1. wire.msg \in Option(Wire)
    BY <1>2 DEF ServerReceives, Option
  <2>2. r \in Outcome
    BY <2>1, ServerReceiveType
  <2>3. srv' = r.sess /\ Relay("peer", r) /\ UNCHANGED <<peer, started>>
    BY <1>2 DEF ServerReceives
  <2> HIDE DEF r
  <2>4. srv' \in Session
    BY <2>2, <2>3 DEF Outcome
  <2> QED
    BY <2>2, <2>3, <2>4, RelayTyped
<1>3. CASE PeerReceives
  <2> DEFINE r == Peer_receive(peer, wire.msg)
  <2>1. wire.msg \in Option(Wire)
    BY <1>3 DEF PeerReceives, Option
  <2>2. r \in Outcome
    BY <2>1, PeerReceiveType
  <2>3. peer' = r.sess /\ Relay("server", r) /\ UNCHANGED <<srv, started>>
    BY <1>3 DEF PeerReceives
  <2> HIDE DEF r
  <2>4. peer' \in Session
    BY <2>2, <2>3 DEF Outcome
  <2> QED
    BY <2>2, <2>3, <2>4, RelayTyped
<1>4. CASE Lose
  BY <1>4 DEF Lose
<1>5. ASSUME NEW noob \in Noobs, OobOutput(noob)
      PROVE  Typed'
  <2>1. srv' \in Session
    BY <1>5 DEF OobOutput, oob_output_with, Session, Option
  <2> QED
    BY <1>5, <2>1 DEF OobOutput
<1>6. ASSUME NEW noob \in Noobs, OobInput(noob)
      PROVE  Typed'
  <2>1. peer' \in Session
    BY <1>6 DEF OobInput, oob_input_noob, Session, Option, State, OobReceived
  <2> QED
    BY <1>6, <2>1 DEF OobInput
<1>7. CASE UNCHANGED vars
  BY <1>7 DEF vars
<1> QED
  BY <1>1, <1>2, <1>3, <1>4, <1>5, <1>6, <1>7 DEF Next

LEMMA AlwaysTyped == Spec => []Typed
  BY InitTyped, NextTyped, PTL DEF Spec

\* Sessions and messages stay well-formed through every message, loss and
\* restart: each handler of machine.rs returns what the other side parses.
THEOREM Typing == Spec => []TypeOK
<1>1. Typed => TypeOK
  BY DEF Typed, TypeOK
<1> QED
  BY <1>1, AlwaysTyped, PTL

-----------------------------------------------------------------------------
(* The two machines stay in step.                                          *)

LEMMA InitRelated == Init => Related
<1> SUFFICES ASSUME Init
             PROVE  Related
  OBVIOUS
<1>1. /\ srv.state = Unregistered /\ srv.csp = 0 /\ srv.choice = None
      /\ srv.offer = None
      /\ peer.state = Unregistered /\ peer.csp = 0 /\ peer.choice = None
  BY DEF Init, NewSession
<1>2. InStep(srv, peer)
  BY <1>1 DEF InStep, SuiteChosen, OwnInfo, Unregistered, Registered
<1> QED
  BY <1>2 DEF Related, Truthful, Init

\* What every step does to the two sessions: they stay in step, and one that is
\* Registered stays Registered with the association it has.
Kept ==
    /\ srv.state = Registered => srv'.state = Registered /\ srv'.assoc = srv.assoc
    /\ peer.state = Registered => peer'.state = Registered /\ peer'.assoc = peer.assoc

LEMMA NextRelated == Typed /\ Related /\ [Next]_vars => Related' /\ Kept
<1> SUFFICES ASSUME Typed, Related, [Next]_vars
             PROVE  Related' /\ Kept
  OBVIOUS
<1> USE DEF Related
<1>1. CASE Start
  <2>1. ToPeer(srv, peer, Server_start)
    <3> DEFINE w == Server_start
    <3>1. w.type = 1 /\ w.eap = None
      BY DEF Server_start, Wire0
    <3> HIDE DEF w
    <3> QED
      BY <3>1, ConfigAssumption DEF ToPeer, w
  <2> QED
    BY <1>1, <2>1 DEF Start, Truthful, Kept
<1>2. CASE ServerReceives
  <2> DEFINE r == Server_receive(srv, wire.msg)
  <2>1. wire.msg \in Wire /\ ToServer(srv, peer, wire.msg)
    BY <1>2 DEF ServerReceives, Typed, Truthful
  <2>2. ServerSteps(srv, peer, r)
    BY <2>1, ServerStep DEF Typed
  <2>3. srv' = r.sess /\ Relay("peer", r) /\ peer' = peer
    BY <1>2 DEF ServerReceives
  <2> HIDE DEF r
  <2>4. InStep(srv', peer') /\ Kept
    BY <2>2, <2>3 DEF ServerSteps, Kept
  <2>5. Truthful'
    BY <2>2, <2>3 DEF ServerSteps, Relay, Truthful
  <2>6. panicked' = FALSE
    BY <2>2, <2>3 DEF ServerSteps, Relay
  <2> QED
    BY <2>4, <2>5, <2>6
<1>3. CASE PeerReceives
  <2> DEFINE r == Peer_receive(peer, wire.msg)
  <2>1. wire.msg \in Wire /\ ToPeer(srv, peer, wire.msg)
    BY <1>3 DEF PeerReceives, Typed, Truthful
  <2>2. PeerSteps(srv, peer, r)
    BY <2>1, PeerStep DEF Typed
  <2>3. peer' = r.sess /\ Relay("server", r) /\ srv' = srv
    BY <1>3 DEF PeerReceives
  <2> HIDE DEF r
  <2>4. InStep(srv', peer') /\ Kept
    BY <2>2, <2>3 DEF PeerSteps, Kept
  <2>5. Truthful'
    BY <2>2, <2>3 DEF PeerSteps, Relay, Truthful
  <2>6. panicked' = FALSE
    BY <2>2, <2>3 DEF PeerSteps, Relay
  <2> QED
    BY <2>4, <2>5, <2>6
<1>4. CASE Lose
  BY <1>4 DEF Lose, Truthful, Kept
<1>5. ASSUME NEW noob \in Noobs, OobOutput(noob)
      PROVE  Related' /\ Kept
  <2>1. /\ OobAllowed(srv) /\ srv' = oob_output_with(srv, noob)
        /\ UNCHANGED <<peer, wire, panicked>>
    BY <1>5 DEF OobOutput
  <2>2. /\ InStep(srv', peer)
        /\ \A m : ToPeer(srv, peer, m) => ToPeer(srv', peer, m)
        /\ \A m : ToServer(srv, peer, m) => ToServer(srv', peer, m)
    BY <2>1, OutputStep DEF Typed
  <2>3. srv.state # Registered
    BY <2>1 DEF OobAllowed, Waiting, Registered
  <2> QED
    BY <2>1, <2>2, <2>3 DEF Truthful, Kept
<1>6. ASSUME NEW noob \in Noobs, OobInput(noob)
      PROVE  Related' /\ Kept
  <2>1. /\ OobAllowed(peer) /\ peer' = oob_input_noob(peer, noob)
        /\ UNCHANGED <<srv, wire, panicked>>
    BY <1>6 DEF OobInput
  <2>2. /\ InStep(srv, peer')
        /\ \A m : ToPeer(srv, peer, m) => ToPeer(srv, peer', m)
        /\ \A m : ToServer(srv, peer, m) => ToServer(srv, peer', m)
    BY <2>1, InputStep DEF Typed
  <2>3. peer.state # Registered
    BY <2>1 DEF OobAllowed, Waiting, Registered
  <2> QED
    BY <2>1, <2>2, <2>3 DEF Truthful, Kept
<1>7. CASE UNCHANGED vars
  BY <1>7 DEF vars, Truthful, Kept
<1> QED
  BY <1>1, <1>2, <1>3, <1>4, <1>5, <1>6, <1>7 DEF Next

LEMMA AlwaysRelated == Spec => []Related
  BY InitRelated, NextRelated, AlwaysTyped, PTL DEF Spec

\* However often conversations are lost, restarted or interleaved with PIN
\* entry, no unwrap() of machine.rs (379, 406, 488, 740) meets a None.
THEOREM NoPanicSafe == Spec => []NoPanic
<1>1. Related => NoPanic
  BY DEF Related, NoPanic
<1> QED
  BY <1>1, AlwaysRelated, PTL

\* A Registered Peer has a Registered Server (machine.rs:481-513, 646).
THEOREM PeerNeverAloneSafe == Spec => []PeerNeverAlone
<1>1. Related => PeerNeverAlone
  BY DEF Related, PeerNeverAlone, InStep
<1> QED
  BY <1>1, AlwaysRelated, PTL

\* A Registered Server shares the secret, the key and the transcript with its
\* Peer (machine.rs:481-513, 760-800), whichever PINs were shown and tried.
THEOREM KeyAgreementSafe == Spec => []KeyAgreement
<1>1. ASSUME Related
      PROVE  KeyAgreement
  <2> SUFFICES ASSUME srv.state = Registered
               PROVE  /\ srv.noob = peer.noob
                      /\ srv.assoc = {[csp |-> peer.csp, kz |-> peer.keym]}
                      /\ srv.offer = peer.offer /\ srv.choice = peer.choice
                      /\ peer.state = Registered => peer.assoc = srv.assoc
    BY DEF KeyAgreement
  <2>1. InStep(srv, peer)
    BY <1>1 DEF Related
  <2>2. Agree(srv, peer) /\ InSync(srv, peer)
    BY <2>1 DEF InStep, Unregistered, Registered
  <2>3. srv.csp = peer.csp
    BY <2>1, <2>2 DEF InStep, InSync, SuiteChosen
  <2> QED
    BY <2>2, <2>3 DEF Agree, InSync
<1> QED
  BY <1>1, AlwaysRelated, PTL

\* No message, restart or PIN takes a Registered side back or replaces its key
\* (machine.rs:313-333, 481-513, 641-653).
THEOREM RegisteredIsFinalSafe == Spec => RegisteredIsFinal
<1>1. Typed /\ Related /\ [Next]_vars =>
        [/\ srv.state = Registered =>
              srv'.state = Registered /\ srv'.assoc = srv.assoc
         /\ peer.state = Registered =>
              peer'.state = Registered /\ peer'.assoc = peer.assoc]_vars
  BY NextRelated DEF Kept
<1> QED
  BY <1>1, AlwaysTyped, AlwaysRelated, PTL DEF Spec, RegisteredIsFinal

-----------------------------------------------------------------------------
(* The negotiation ends with the best that both sides support.             *)

\* An offer is that of the Server's configuration.
Offered(o) ==
    o # None => /\ o.vers = ServerVersions /\ o.cryptosuites = ServerSuites
                /\ o.dirs = ServerDirs

ChoiceInv ==
    /\ Offered(srv.offer)
    /\ peer.choice # None => BestChoice(peer.choice)

\* What a handler hands back of the session it was given.
LEMMA OutcomeSession ==
    ASSUME NEW s
    PROVE  /\ \A w : Send(s, w).sess = s
           /\ \A code : fail_code(s, code).sess = s /\ peer_error(s, code).sess = s
           /\ Panic(s).sess = s /\ fail(s).sess = s
  BY DEF Send, Panic, fail, fail_code, peer_error

\* Only build_negotiation makes an offer, and it offers the configuration.
LEMMA ServerOffers ==
    ASSUME NEW s \in Session, NEW m \in Wire, Offered(s.offer)
    PROVE  Offered(Server_receive(s, m).sess.offer)
<1>1. ASSUME NEW t \in Session
      PROVE  /\ Offered(build_negotiation(t).sess.offer)
             /\ build_key_exchange(t).sess.offer = t.offer
             /\ build_completion(t).sess.offer = t.offer
             /\ build_waiting(t).sess.offer = t.offer
             /\ start_completion(t).sess.offer = t.offer
  <2>1. Offered(build_negotiation(t).sess.offer)
    <3> DEFINE o == [vers |-> ServerVersions, peer_id |-> Fresh(t),
                     cryptosuites |-> ServerSuites, dirs |-> ServerDirs, info |-> t.info]
               t1 == [Drew(t) EXCEPT !.peer_id = Fresh(t), !.offer = o]
    <3>1. build_negotiation(t).sess = t1
      BY OutcomeSession DEF build_negotiation
    <3>2. t1.offer = o
      BY DEF Drew, Session
    <3> QED
      BY <3>1, <3>2 DEF Offered
  <2>2. build_key_exchange(t).sess.offer = t.offer
    <3> DEFINE t1 == [Drew(t) EXCEPT !.keypair = generate(t), !.pks = generate(t)]
    <3>1. build_key_exchange(t).sess = t1
      BY OutcomeSession DEF build_key_exchange
    <3>2. t1.offer = t.offer
      BY DEF Drew, Session
    <3> QED
      BY <3>1, <3>2
  <2>3. build_completion(t).sess.offer = t.offer
    <3> DEFINE t1 == [t EXCEPT !.keym = derive_completion(t)]
    <3>1. build_completion(t).sess = t1
      BY OutcomeSession DEF build_completion
    <3>2. t1.offer = t.offer
      BY DEF Session
    <3> QED
      BY <3>1, <3>2
  <2>4. build_waiting(t).sess.offer = t.offer
    BY OutcomeSession DEF build_waiting
  <2>5. start_completion(t).sess.offer = t.offer
    BY <2>3, OutcomeSession DEF start_completion
  <2> QED
    BY <2>1, <2>2, <2>3, <2>4, <2>5
<1>2. Offered(Server_on_discovery(s, m).sess.offer)
  <2> DEFINE t == [s EXCEPT !.peer_state = IF m.peer_state = None THEN 0 ELSE m.peer_state]
  <2>1. t \in Session /\ t.offer = s.offer
    BY DEF Session, Wire, Option, State, Unregistered
  <2>2. \/ Server_on_discovery(s, m) = start_completion(t)
        \/ Server_on_discovery(s, m) = build_waiting(t)
        \/ Server_on_discovery(s, m) = build_negotiation(t)
        \/ Server_on_discovery(s, m) = fail(t)
    BY DEF Server_on_discovery
  <2> HIDE DEF t
  <2> QED
    BY <1>1, <2>1, <2>2, OutcomeSession
<1>3. Offered(Server_on_negotiation(s, m).sess.offer)
  <2> DEFINE c == m.choice
             t == [s EXCEPT !.csp = c.csp, !.dirp = c.dirp, !.choice = c]
  <2>1. CASE c = None
    BY <2>1, OutcomeSession DEF Server_on_negotiation
  <2>2. CASE c # None
    <3>0. c \in Choice
      BY <2>2 DEF Wire, Option
    <3>1. t \in Session /\ t.offer = s.offer
      <4>1. c.csp \in Int /\ c.dirp \in Int /\ c \in Option(Choice)
        BY <3>0 DEF Choice, Option
      <4> HIDE DEF c
      <4> QED
        BY <4>1 DEF Session
    <3>2. Server_on_negotiation(s, m) \in {fail(s), build_key_exchange(t)}
      BY DEF Server_on_negotiation
    <3> HIDE DEF t
    <3> QED
      BY <1>1, <3>1, <3>2, OutcomeSession
  <2> QED
    BY <2>1, <2>2
<1>4. Offered(Server_on_key_exchange(s, m).sess.offer)
  <2> DEFINE z == compute_z(s.keypair, m.pk)
             t == [s EXCEPT !.z = z, !.pkp = m.pk, !.state = Waiting]
  <2>1. t.offer = s.offer
    BY DEF Session
  <2>2. Server_on_key_exchange(s, m).sess \in {s, t}
    BY DEF Server_on_key_exchange, fail, fail_code, Panic, Done, Send
  <2> HIDE DEF t
  <2> QED
    BY <2>1, <2>2
<1>5. Offered(Server_on_noob_id(s, m).sess.offer)
  BY <1>1, OutcomeSession DEF Server_on_noob_id
<1>6. Offered(Server_on_completion(s, m).sess.offer)
  <2> DEFINE t == [s EXCEPT !.assoc = Server_finish(s), !.state = Registered]
  <2>1. t.offer = s.offer
    BY DEF Session
  <2>2. Server_on_completion(s, m).sess \in {s, t}
    BY DEF Server_on_completion, fail, fail_code, Panic, Done, Send
  <2> HIDE DEF t
  <2> QED
    BY <2>1, <2>2
<1>7. CASE m.error_code # None
  <2>1. Server_receive(s, m) = peer_error(s, m.error_code)
    BY <1>7, OptionAssumption DEF Server_receive
  <2> QED
    BY <2>1, OutcomeSession
<1>8. CASE m.error_code = None
  <2>1. Offered(fail(s).sess.offer) /\ Offered(done_failure(s).sess.offer)
    BY DEF done_failure, Done, fail, fail_code, Send
  <2>2. m # None
    BY OptionAssumption
  <2> QED
    BY <1>2, <1>3, <1>4, <1>5, <1>6, <1>8, <2>1, <2>2 DEF Server_receive
<1> QED
  BY <1>7, <1>8

\* What the Peer picks from the Server's offer is the best that both support.
LEMMA PeerPicksBest ==
    ASSUME NEW o \in Offer, Offered(o), NEW c,
           c.verp = best_version(o.vers, PeerVersions),
           c.csp = first_supported(o.cryptosuites, PeerSuites),
           c.dirp = choose_dir(o.dirs, PreferDir),
           c.verp # None, c.csp # None, c.dirp # None
    PROVE  BestChoice(c)
<1>1. o.vers = ServerVersions /\ o.cryptosuites = ServerSuites /\ o.dirs = ServerDirs
  BY OptionAssumption DEF Offered
<1>2. /\ ServerVersions \in Seq(WireInt) /\ PeerVersions \in Seq(WireInt)
      /\ ServerSuites \in Seq(Int) /\ PeerSuites \in Seq(Int)
      /\ ServerDirs \in Int /\ PreferDir \in Int
  BY ConfigAssumption
<1>3. LET common == Elems(ServerVersions) \cap Elems(PeerVersions)
      IN  c.verp \in common /\ \A v \in common : v <= c.verp
  BY <1>1, <1>2, HighestCommon
<1>4. LET fits == {k \in DOMAIN ServerSuites :
                      ServerSuites[k] \in Elems(PeerSuites)
                      /\ from_id(ServerSuites[k]) # 0}
      IN  \E k \in fits : c.csp = ServerSuites[k] /\ \A l \in fits : k <= l
  BY <1>1, <1>2, FirstFitting
<1>5. c.dirp \in Bits(ServerDirs)
  BY <1>1, <1>2, OfferedDirection
<1> QED
  BY <1>3, <1>4, <1>5 DEF BestChoice

LEMMA PeerChooses ==
    ASSUME NEW p \in Session, NEW m \in Wire, p.choice # None => BestChoice(p.choice),
           m.type = 2 => m.offer # None /\ Offered(m.offer)
    PROVE  LET c == Peer_receive(p, m).sess.choice IN c # None => BestChoice(c)
<1> DEFINE Good(q) == q.choice # None => BestChoice(q.choice)
<1>0. Good(p)
  OBVIOUS
<1>1. Good(Peer_on_result(p, m.eap).sess)
  <2> DEFINE q == [p EXCEPT !.assoc = {[csp |-> p.csp, kz |-> p.keym]}, !.state = Registered]
  <2>1. q.choice = p.choice
    BY DEF Session
  <2>2. Peer_on_result(p, m.eap).sess \in {q, p}
    BY DEF Peer_on_result, Done, Send
  <2> HIDE DEF q
  <2> QED
    BY <1>0, <2>1, <2>2
<1>2. ASSUME m.type = 2 PROVE Good(Peer_on_negotiation(p, m).sess)
  <2> DEFINE o    == m.offer
             verp == best_version(o.vers, PeerVersions)
             csp  == first_supported(o.cryptosuites, PeerSuites)
             dirp == choose_dir(o.dirs, PreferDir)
             c    == [verp |-> verp, csp |-> csp, dirp |-> dirp, info |-> p.info]
             p1   == [p EXCEPT !.peer_id = m.peer_id]
             p2   == [p1 EXCEPT !.csp = csp, !.dirp = dirp, !.offer = o, !.choice = c]
             w    == [Wire0 EXCEPT !.type = 2, !.peer_id = m.peer_id, !.choice = c]
  <2>1. o \in Offer /\ Offered(o)
    BY <1>2 DEF Wire, Option
  <2>2. p1.choice = p.choice /\ p2.choice = c
    BY DEF Session
  <2>3. c.verp = verp /\ c.csp = csp /\ c.dirp = dirp
    OBVIOUS
  <2>4. \/ Peer_on_negotiation(p, m) = fail(p)
        \/ Peer_on_negotiation(p, m) = fail(p1)
        \/ Peer_on_negotiation(p, m) = Send(p2, w) /\ None \notin {verp, csp, dirp}
    BY DEF Peer_on_negotiation
  <2> HIDE DEF p1, p2, w, c
  <2>5. None \notin {verp, csp, dirp} => BestChoice(c)
    BY <2>1, <2>3, PeerPicksBest
  <2> HIDE DEF o, verp, csp, dirp
  <2> QED
    BY <1>0, <2>2, <2>4, <2>5, OutcomeSession
<1>3. Good(Peer_on_key_exchange(p, m).sess)
  <2> DEFINE kp == generate(p)
             z  == compute_z(kp, m.pk)
             q  == [Drew(p) EXCEPT !.keypair = kp, !.z = z, !.pks = m.pk, !.pkp = kp,
                                   !.state = Waiting]
             w  == [Wire0 EXCEPT !.type = 3, !.peer_id = q.peer_id, !.pk = kp]
  <2>1. Drew(p).choice = p.choice /\ q.choice = p.choice
    BY DEF Session, Drew
  <2>2. Peer_on_key_exchange(p, m) \in {fail(p), Panic(p), fail(Drew(p)), Send(q, w)}
    BY DEF Peer_on_key_exchange
  <2> HIDE DEF q, w
  <2> QED
    BY <1>0, <2>1, <2>2, OutcomeSession
<1>4. Good(Peer_on_completion(p, m).sess)
  <2> DEFINE q == [p EXCEPT !.keym = derive_completion(p)]
             w == [Wire0 EXCEPT !.type = 6, !.peer_id = q.peer_id, !.mac = compute_mac(q, 1)]
  <2>1. q.choice = p.choice
    BY DEF Session
  <2>2. Peer_on_completion(p, m) \in
           {fail(p), fail_code(p, UNRECOGNIZED_OOB_MSG_ID),
            fail_code(q, HMAC_VERIFICATION_FAILED), Send(q, w)}
    BY DEF Peer_on_completion
  <2> HIDE DEF q, w
  <2> QED
    BY <1>0, <2>1, <2>2, OutcomeSession
<1>5. /\ Good(Peer_on_discovery(p).sess) /\ Good(Peer_on_waiting(p).sess)
      /\ Good(Peer_on_noob_id(p).sess)
  BY <1>0, OutcomeSession DEF Peer_on_discovery, Peer_on_waiting, Peer_on_noob_id
<1>6. m # None
  BY OptionAssumption
<1>7. Good(fail(p).sess) /\ Good(peer_error(p, m.error_code).sess)
  BY <1>0, OutcomeSession
<1>8. Good(Peer_receive(p, m).sess)
  <2> HIDE DEF Good
  <2>1. CASE m.eap # None
    BY <1>1, <1>6, <2>1 DEF Peer_receive
  <2>2. CASE m.eap = None /\ m.error_code # None
    BY <1>6, <1>7, <2>2 DEF Peer_receive
  <2>3. CASE m.eap = None /\ m.error_code = None
    BY <1>2, <1>3, <1>4, <1>5, <1>6, <1>7, <2>3 DEF Peer_receive
  <2> QED
    BY <2>1, <2>2, <2>3
<1> QED
  BY <1>8

LEMMA AlwaysChosen == Spec => []ChoiceInv
<1>1. Init => ChoiceInv
  BY DEF Init, NewSession, ChoiceInv, Offered
<1>2. Typed /\ Related /\ ChoiceInv /\ [Next]_vars => ChoiceInv'
  <2> SUFFICES ASSUME Typed, Related, ChoiceInv, [Next]_vars
               PROVE  ChoiceInv'
    OBVIOUS
  <2>1. CASE srv' = srv /\ peer' = peer
    BY <2>1 DEF ChoiceInv
  <2>2. CASE ServerReceives
    <3>1. srv' = Server_receive(srv, wire.msg).sess /\ peer' = peer /\ wire.msg \in Wire
      BY <2>2 DEF ServerReceives, Typed
    <3> QED
      BY <3>1, ServerOffers DEF ChoiceInv, Typed
  <2>3. CASE PeerReceives
    <3>1. peer' = Peer_receive(peer, wire.msg).sess /\ srv' = srv /\ wire.msg \in Wire
      BY <2>3 DEF PeerReceives, Typed
    <3>2. wire.msg.type = 2 => wire.msg.offer # None /\ Offered(wire.msg.offer)
      BY <2>3 DEF PeerReceives, Related, Truthful, ToPeer, ChoiceInv
    <3> QED
      BY <3>1, <3>2, PeerChooses DEF ChoiceInv, Typed
  <2>4. ASSUME NEW noob \in Noobs, OobOutput(noob) PROVE ChoiceInv'
    BY <2>4 DEF OobOutput, oob_output_with, ChoiceInv, Typed, Session
  <2>5. ASSUME NEW noob \in Noobs, OobInput(noob) PROVE ChoiceInv'
    BY <2>5 DEF OobInput, oob_input_noob, ChoiceInv, Typed, Session
  <2> QED
    BY <2>1, <2>2, <2>3, <2>4, <2>5 DEF Next, Start, Lose, vars
<1> QED
  BY <1>1, <1>2, AlwaysTyped, AlwaysRelated, PTL DEF Spec

\* For every configuration of the two sides, what they register with is the best
\* that both support (machine.rs, best_version, first_supported, choose_dir),
\* although the Server only checks that the Peer's choice is allowed.
THEOREM BestNegotiatedSafe == Spec => []BestNegotiated
<1>1. Related /\ ChoiceInv => BestNegotiated
  <2> SUFFICES ASSUME Related, ChoiceInv, srv.state # Unregistered
               PROVE  /\ BestChoice(srv.choice) /\ srv.csp = srv.choice.csp
                      /\ srv.state = Registered => \A a \in srv.assoc : a.csp = srv.csp
    BY DEF BestNegotiated
  <2>1. InStep(srv, peer)
    BY DEF Related
  <2>2. srv.choice # None /\ srv.choice = peer.choice
    BY <2>1 DEF InStep, InSync
  <2>3. srv.csp = srv.choice.csp
    BY <2>1, <2>2 DEF InStep, SuiteChosen
  <2>4. srv.state = Registered => srv.assoc = {[csp |-> srv.csp, kz |-> srv.keym]}
    BY <2>1 DEF InStep, Agree
  <2> QED
    BY <2>2, <2>3, <2>4 DEF ChoiceInv
<1> QED
  BY <1>1, AlwaysRelated, AlwaysChosen, PTL

=============================================================================
