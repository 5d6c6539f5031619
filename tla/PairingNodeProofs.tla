-------------------------- MODULE PairingNodeProofs --------------------------
(* Theorems about PairingNode, for every set of nodes, invites and PINs,    *)
(* every configuration of the EAP-NOOB machines and every fault bound.      *)
EXTENDS PairingNode, EapProofs

-----------------------------------------------------------------------------
(* Connections and handlers are well-formed.                               *)

LEMMA ConnType ==
    /\ Idle \in Conn
    /\ \A phase \in Phases, msg \in Option(Wire) : Request(phase, msg) \in Conn
<1>1. None \in Option(Phases) /\ None \in Option(Wire)
  BY Some
<1>2. Idle \in Conn
  BY <1>1 DEF Idle, Conn
<1>3. ASSUME NEW phase \in Phases, NEW msg \in Option(Wire)
      PROVE  Request(phase, msg) \in Conn
  <2>1. phase \in Option(Phases)
    BY Some
  <2> QED
    BY <2>1 DEF Request, Conn
<1> QED
  BY <1>2, <1>3

\* What becomes of an invite's connections: accepted, broken, or answered.
LEMMA InviteConnType ==
    ASSUME TypeOK, NEW i \in Invites, NEW msg \in Option(Wire)
    PROVE  \A c \in {iconn[i], cconn[i]} :
              /\ Accept(c) \in Conn
              /\ Break(c) \in Conn
              /\ Respond(c, 200, msg) \in Conn
              /\ Respond(c, 400, None) \in Conn
              /\ Respond(c, 409, None) \in Conn
<1> SUFFICES ASSUME NEW c \in {iconn[i], cconn[i]}
             PROVE  /\ Accept(c) \in Conn
                    /\ Break(c) \in Conn
                    /\ Respond(c, 200, msg) \in Conn
                    /\ Respond(c, 400, None) \in Conn
                    /\ Respond(c, 409, None) \in Conn
  OBVIOUS
<1>1. c \in Conn /\ None \in Option(Phases) /\ None \in Option(Wire)
  BY Some DEF TypeOK, InitialOK, CompletionOK
<1>2. Accept(c) \in Conn /\ Break(c) \in Conn
  BY <1>1 DEF Accept, Break, Conn
<1>3. ASSUME NEW status \in {200, 400, 409}, NEW m \in Option(Wire)
      PROVE  Respond(c, status, m) \in Conn
  <2>1. status \in {0, 200, 400, 409}
    OBVIOUS
  <2>2. [c EXCEPT !.st = "resp", !.status = status, !.msg = m] \in Conn
    BY <1>1, <2>1 DEF Conn
  <2> QED
    BY <1>1, <2>2 DEF Respond
<1>4. Respond(c, 200, msg) \in Conn
  BY <1>3
<1>5. Respond(c, 400, None) \in Conn
  BY <1>1, <1>3
<1>6. Respond(c, 409, None) \in Conn
  BY <1>1, <1>3
<1> QED
  BY <1>2, <1>4, <1>5, <1>6

\* A new session is well-formed, so Init is.
LEMMA NewSessionType ==
    ASSUME NEW id \in SessionIds, NEW info \in Nodes
    PROVE  NewSession(id, info) \in Session
<1>1. Unregistered \in State /\ 0 \in State
  BY DEF State, Unregistered
<1>2. /\ None \in Option(Token) /\ None \in Option(Key)
      /\ None \in Option(Noobs) /\ None \in Option(KeyMaterial)
      /\ None \in Option(Offer) /\ None \in Option(Choice)
      /\ None \in Option(Nodes)
  BY Some
<1> QED
  BY <1>1, <1>2 DEF NewSession, Session

\* JoinerSession::on_initial and InviterSession::on_completion keep the
\* session well-formed and only capture a valid identity.
LEMMA OnInitialType ==
    ASSUME NEW s \in Session, NEW msg \in Option(Wire)
    PROVE  LET r == on_initial(s, msg) IN
           r.sess \in Session /\ r.send \in Option(Wire)
<1> DEFINE o == Peer_receive(s, msg)
           first == o.sess.state = Waiting /\ o.sess.other = None
           err   == \/ o.error_code # None
                    \/ first /\ o.sess.offer.info \notin ValidInfo
<1>1. o \in Outcome
  BY PeerReceiveType
<1> HIDE DEF o
<1>2. o.sess \in Session /\ o.send \in Option(Wire)
  BY <1>1 DEF Outcome
<1>3. CASE first /\ ~err
  <2>1. o.sess.offer.info \in Option(Nodes)
    BY <1>3, PairingAssumption, Some
  <2>2. [o.sess EXCEPT !.other = o.sess.offer.info] \in Session
    BY <1>2, <2>1 DEF Session
  <2> QED
    BY <1>2, <1>3, <2>2 DEF on_initial, o
<1>4. CASE ~(first /\ ~err)
  BY <1>2, <1>4 DEF on_initial, o
<1> QED
  BY <1>3, <1>4

LEMMA OnCompletionType ==
    ASSUME NEW s \in Session, NEW msg \in Option(Wire)
    PROVE  LET r == on_completion(s, msg) IN
           r.sess \in Session /\ r.send \in Option(Wire)
<1> DEFINE o == Server_receive(s, msg)
           first == o.sess.state = Registered /\ o.sess.other = None
           err   == first /\ o.sess.choice.info \notin ValidInfo
<1>1. o \in Outcome
  BY ServerReceiveType
<1> HIDE DEF o
<1>2. o.sess \in Session /\ o.send \in Option(Wire)
  BY <1>1 DEF Outcome
<1>3. CASE first /\ ~err
  <2>1. o.sess.choice.info \in Option(Nodes)
    BY <1>3, PairingAssumption, Some
  <2>2. [o.sess EXCEPT !.other = o.sess.choice.info] \in Session
    BY <1>2, <2>1 DEF Session
  <2> QED
    BY <1>2, <1>3, <2>2 DEF on_completion, o
<1>4. CASE ~(first /\ ~err)
  BY <1>2, <1>4 DEF on_completion, o
<1> QED
  BY <1>3, <1>4

\* What a session pins is well-formed.
LEMMA PairedOfType ==
    ASSUME NEW s \in Session
    PROVE  PairedOf(s) \subseteq Paired
  BY DEF PairedOf, Paired, Session

\* Displaying and entering a PIN.
LEMMA OobType ==
    ASSUME NEW s \in Session, NEW noob \in Noobs
    PROVE  /\ oob_output_with(s, noob) \in Session
           /\ oob_input_noob(s, noob) \in Session
<1>1. noob \in Option(Noobs) /\ OobReceived \in State
  BY Some DEF State, OobReceived
<1> QED
  BY <1>1 DEF oob_output_with, oob_input_noob, Session

-----------------------------------------------------------------------------
(* Type correctness: one lemma per group of actions.                       *)

\* A part of TypeOK whose variables do not change stays well-formed.
LEMMA TypeFrame ==
    /\ SessionsOK /\ UNCHANGED sessions => SessionsOK'
    /\ MapsOK /\ UNCHANGED maps => MapsOK'
    /\ InitialOK /\ UNCHANGED initialX => InitialOK'
    /\ CompletionOK /\ UNCHANGED completionX => CompletionOK'
    /\ TrustOK /\ UNCHANGED trust => TrustOK'
    /\ FaultsOK /\ UNCHANGED faults => FaultsOK'
  BY DEF SessionsOK, MapsOK, InitialOK, CompletionOK, TrustOK, FaultsOK,
         sessions, maps, initialX, completionX, trust, faults

\* Init is well-formed.
LEMMA InitType == Init => TypeOK
<1> SUFFICES ASSUME Init
             PROVE  TypeOK
  OBVIOUS
<1>1. SessionsOK
  <2>1. ASSUME NEW i \in Invites
        PROVE  /\ NewSession(<<i, "server">>, Inviter[i]) \in Session
               /\ NewSession(<<i, "peer">>, Joiner[i]) \in Session
    <3>1. <<i, "server">> \in SessionIds /\ <<i, "peer">> \in SessionIds
      BY PairingAssumption
    <3> QED
      BY <3>1, NewSessionType, PairingAssumption
  <2> QED
    BY <2>1 DEF Init, SessionsOK
<1>2. InitialOK /\ CompletionOK
  <2>1. NoHandler \in [st : {"none", "session", "pending"}, msg : Option(Wire)]
    BY Some DEF NoHandler
  <2>2. NoHandler \in [st : {"none", "session", "pin"}, msg : Option(Wire)]
    BY Some DEF NoHandler
  <2> QED
    BY <2>1, <2>2, ConnType
       DEF Init, InitialOK, CompletionOK, CreateStates, SubmitStates
<1>3. MapsOK /\ TrustOK /\ FaultsOK
  BY PairingAssumption DEF Init, MapsOK, TrustOK, FaultsOK
<1> QED
  BY <1>1, <1>2, <1>3 DEF TypeOK

\* create_invite keeps the types.
LEMMA CreateType ==
    ASSUME TypeOK, NEW i \in Invites,
           \/ CreateInvite(i)
           \/ \E noob \in Noobs : CreateReceives(i, noob)
           \/ CreateFails(i)
    PROVE  TypeOK'
<1> USE DEF TypeOK
<1>1. CASE CreateInvite(i)
  <2>1. Request("initial", Server_start) \in Conn
    BY ConnType, PlainWires, Some DEF Phases
  <2>2. InitialOK'
    BY <1>1, <2>1 DEF CreateInvite, InitialOK, CreateStates
  <2> QED
    BY <1>1, <2>2, TypeFrame DEF CreateInvite
<1>2. ASSUME NEW noob \in Noobs, CreateReceives(i, noob)
      PROVE  TypeOK'
  <2> DEFINE r    == Server_receive(isess[i], iconn[i].msg)
             made == /\ ~r.panic /\ r.error_code = None /\ r.done
                     /\ OobAllowed(r.sess)
             more == ~r.panic /\ ~r.done /\ r.send # None
             s1   == IF made THEN oob_output_with(r.sess, noob) ELSE r.sess
             c1   == IF made THEN "made" ELSE IF more THEN "call" ELSE "failed"
             w1   == IF more THEN Request("initial", r.send) ELSE Idle
  <2>1. isess[i] \in Session /\ iconn[i].msg \in Option(Wire)
    BY DEF SessionsOK, InitialOK, Conn
  <2>2. r \in Outcome
    BY <2>1, ServerReceiveType
  <2>3. /\ isess' = [isess EXCEPT ![i] = s1]
        /\ inviters' = IF made THEN inviters \cup {i} ELSE inviters
        /\ create' = [create EXCEPT ![i] = c1]
        /\ iconn' = [iconn EXCEPT ![i] = w1]
        /\ panicked' = IF r.panic THEN panicked \cup {i} ELSE panicked
    BY <1>2 DEF CreateReceives, Panics
  <2> HIDE DEF r
  <2>4. r.sess \in Session /\ r.send \in Option(Wire)
    BY <2>2 DEF Outcome
  <2>5. s1 \in Session /\ w1 \in Conn /\ c1 \in CreateStates
    BY <2>4, OobType, ConnType DEF Phases, CreateStates
  <2> HIDE DEF s1, w1, c1, made
  <2>6. SessionsOK'
    BY <1>2, <2>3, <2>5 DEF CreateReceives, SessionsOK
  <2>7. MapsOK'
    BY <1>2, <2>3 DEF CreateReceives, MapsOK
  <2>8. InitialOK'
    BY <1>2, <2>3, <2>5 DEF CreateReceives, InitialOK
  <2>9. FaultsOK'
    BY <1>2, <2>3 DEF CreateReceives, FaultsOK
  <2> QED
    BY <1>2, <2>6, <2>7, <2>8, <2>9, TypeFrame DEF CreateReceives
<1>3. CASE CreateFails(i)
  <2>1. InitialOK'
    BY <1>3, ConnType DEF CreateFails, InitialOK, CreateStates
  <2> QED
    BY <1>3, <2>1, TypeFrame DEF CreateFails
<1> QED
  BY <1>1, <1>2, <1>3

\* The handler records of the two exchanges.
LEMMA HandlerType ==
    ASSUME NEW msg \in Option(Wire)
    PROVE  /\ NoHandler \in [st : {"none", "session", "pending"}, msg : Option(Wire)]
           /\ NoHandler \in [st : {"none", "session", "pin"}, msg : Option(Wire)]
           /\ \A st \in {"session", "pending"} : Handler(st, msg) \in
                 [st : {"none", "session", "pending"}, msg : Option(Wire)]
           /\ \A st \in {"session", "pin"} : Handler(st, msg) \in
                 [st : {"none", "session", "pin"}, msg : Option(Wire)]
<1>1. None \in Option(Wire)
  BY Some
<1> QED
  BY <1>1 DEF NoHandler, Handler

\* on_initial_request keeps the types.
LEMMA InitialType ==
    ASSUME TypeOK, NEW i \in Invites,
           InitialLookup(i) \/ InitialSession(i) \/ InitialPending(i)
    PROVE  TypeOK'
<1> USE DEF TypeOK
<1> DEFINE H == [st : {"none", "session", "pending"}, msg : Option(Wire)]
<1>1. /\ iconn[i] \in Conn /\ iconn[i].msg \in Option(Wire)
      /\ ihand[i].msg \in Option(Wire)
      /\ jsess[i] \in Session /\ None \in Option(Wire)
  BY Some DEF SessionsOK, InitialOK, Conn
<1>2. CASE InitialLookup(i)
  <2> DEFINE s0 == NewSession(<<i, "peer">>, Joiner[i])
             h1 == Handler("session", iconn[i].msg)
  <2>1. h1 \in H
    BY <1>1, HandlerType
  <2>2. s0 \in Session
    <3>1. <<i, "peer">> \in SessionIds
      BY PairingAssumption
    <3> QED
      BY <3>1, NewSessionType, PairingAssumption
  <2>3. /\ Accept(iconn[i]) \in Conn
        /\ Respond(iconn[i], 400, None) \in Conn
        /\ Respond(iconn[i], 409, None) \in Conn
    BY <1>1, InviteConnType
  <2> HIDE DEF s0, h1
  <2>4. /\ jsess' = jsess \/ jsess' = [jsess EXCEPT ![i] = s0]
        /\ joiners' = joiners \/ joiners' = joiners \cup {i}
        /\ ihand' = ihand \/ ihand' = [ihand EXCEPT ![i] = h1]
        /\ \/ iconn' = [iconn EXCEPT ![i] = Accept(iconn[i])]
           \/ iconn' = [iconn EXCEPT ![i] = Respond(iconn[i], 400, None)]
           \/ iconn' = [iconn EXCEPT ![i] = Respond(iconn[i], 409, None)]
    BY <1>2 DEF InitialLookup, s0, h1
  <2>5. SessionsOK'
    BY <1>2, <2>2, <2>4 DEF InitialLookup, SessionsOK
  <2>6. MapsOK'
    BY <1>2, <2>4 DEF InitialLookup, MapsOK
  <2>7. InitialOK'
    BY <1>2, <2>1, <2>3, <2>4 DEF InitialLookup, InitialOK
  <2> QED
    BY <1>2, <2>5, <2>6, <2>7, TypeFrame DEF InitialLookup
<1>3. CASE InitialSession(i)
  <2> DEFINE r     == on_initial(jsess[i], ihand[i].msg)
             await == /\ ~r.panic /\ ~r.err
                      /\ r.sess.state = Waiting /\ r.sess.other # None
             h1    == IF await THEN Handler("pending", r.send) ELSE NoHandler
             w1    == IF r.panic THEN Break(iconn[i])
                      ELSE IF r.err THEN Respond(iconn[i], 400, None)
                      ELSE IF await THEN iconn[i]
                      ELSE Respond(iconn[i], 200, r.send)
  <2>1. r.sess \in Session /\ r.send \in Option(Wire)
    BY <1>1, OnInitialType
  <2>2. /\ jsess' = [jsess EXCEPT ![i] = r.sess]
        /\ joiners' = IF r.err THEN joiners \ {i} ELSE joiners
        /\ ihand' = [ihand EXCEPT ![i] = h1]
        /\ iconn' = [iconn EXCEPT ![i] = w1]
        /\ panicked' = IF r.panic THEN panicked \cup {i} ELSE panicked
    BY <1>3 DEF InitialSession, Panics
  <2> HIDE DEF r
  <2>3. h1 \in H /\ w1 \in Conn
    BY <1>1, <2>1, HandlerType, InviteConnType
  <2> HIDE DEF h1, w1
  <2>4. SessionsOK'
    BY <1>3, <2>1, <2>2 DEF InitialSession, SessionsOK
  <2>5. MapsOK'
    BY <1>3, <2>2 DEF InitialSession, MapsOK
  <2>6. InitialOK'
    BY <1>3, <2>2, <2>3 DEF InitialSession, InitialOK
  <2>7. FaultsOK'
    BY <1>3, <2>2 DEF InitialSession, FaultsOK
  <2> QED
    BY <1>3, <2>4, <2>5, <2>6, <2>7, TypeFrame DEF InitialSession
<1>4. CASE InitialPending(i)
  <2>1. NoHandler \in H /\ Respond(iconn[i], 200, ihand[i].msg) \in Conn
    BY <1>1, HandlerType, InviteConnType
  <2>2. InitialOK'
    BY <1>4, <2>1 DEF InitialPending, InitialOK
  <2>3. MapsOK'
    BY <1>4 DEF InitialPending, MapsOK
  <2> QED
    BY <1>4, <2>2, <2>3, TypeFrame DEF InitialPending
<1> QED
  BY <1>2, <1>3, <1>4

\* pin_peer keeps the trust state well-formed.
LEMMA PinPeerType ==
    ASSUME TrustOK, NEW n \in Nodes, NEW m \in Option(Nodes), PinPeer(n, m)
    PROVE  /\ pins' \in [Nodes -> SUBSET Option(Nodes)]
           /\ trusted' \in [Nodes -> SUBSET Option(Nodes)]
           /\ clustered' \in [Nodes -> BOOLEAN]
<1>1. /\ pins' = [pins EXCEPT ![n] = @ \cup {m}]
      /\ \/ trusted' = trusted
         \/ trusted' = [trusted EXCEPT ![n] = @ \cup {m}]
         \/ trusted' = [trusted EXCEPT ![n] = @ \ {m}]
      /\ clustered' = clustered \/ clustered' = [clustered EXCEPT ![n] = TRUE]
  BY DEF PinPeer
<1>2. pins' \in [Nodes -> SUBSET Option(Nodes)]
  BY <1>1 DEF TrustOK
<1>3. trusted' \in [Nodes -> SUBSET Option(Nodes)]
  BY <1>1 DEF TrustOK
<1>4. clustered' \in [Nodes -> BOOLEAN]
  BY <1>1 DEF TrustOK
<1> QED
  BY <1>2, <1>3, <1>4

\* submit_pin keeps the types.
LEMMA SubmitType ==
    ASSUME TypeOK, NEW i \in Invites,
           \/ \E noob \in Noobs : SubmitPin(i, noob)
           \/ SubmitReceives(i) \/ SubmitFails(i) \/ SubmitPins(i)
           \/ SubmitCleanup(i) \/ SubmitSignalled(i)
    PROVE  TypeOK'
<1> USE DEF TypeOK
<1>1. /\ cconn[i] \in Conn /\ cconn[i].msg \in Option(Wire)
      /\ jsess[i] \in Session /\ None \in Option(Wire)
  BY Some DEF SessionsOK, CompletionOK, Conn
<1>2. /\ Request("completion", None) \in Conn
      /\ Request("fail", None) \in Conn
      /\ Request("ack", None) \in Conn
      /\ Idle \in Conn
  BY <1>1, ConnType DEF Phases
<1>3. ASSUME NEW noob \in Noobs, SubmitPin(i, noob)
      PROVE  TypeOK'
  <2>1. oob_input_noob(jsess[i], noob) \in Session
    BY <1>1, OobType
  <2>2. SessionsOK'
    BY <1>3, <2>1 DEF SubmitPin, SessionsOK
  <2>3. CompletionOK'
    BY <1>2, <1>3 DEF SubmitPin, CompletionOK, SubmitStates
  <2> QED
    BY <1>3, <2>2, <2>3, TypeFrame DEF SubmitPin
<1>4. CASE SubmitReceives(i)
  <2> DEFINE r     == Peer_receive(jsess[i], cconn[i].msg)
             auth  == r.error_code # None /\ is_wrong_pin_code(r.error_code)
             stall == r.panic \/ (~r.done /\ r.send = None)
             b1    == IF stall THEN "failed" ELSE IF ~r.done THEN "call"
                      ELSE IF r.success THEN "pin" ELSE "fail"
             v1    == IF auth THEN "incorrect-pin"
                      ELSE IF stall \/ (r.done /\ ~r.success) THEN "error"
                      ELSE verdict[i]
             w1    == IF stall \/ r.success THEN Idle
                      ELSE IF r.done THEN Request("fail", None)
                      ELSE Request("completion", r.send)
  <2>1. r \in Outcome
    BY <1>1, PeerReceiveType
  <2>2. /\ jsess' = [jsess EXCEPT ![i] = r.sess]
        /\ submit' = [submit EXCEPT ![i] = b1]
        /\ verdict' = [verdict EXCEPT ![i] = v1]
        /\ cconn' = [cconn EXCEPT ![i] = w1]
        /\ panicked' = IF r.panic THEN panicked \cup {i} ELSE panicked
    BY <1>4 DEF SubmitReceives, Panics
  <2> HIDE DEF r
  <2>3. r.sess \in Session /\ r.send \in Option(Wire)
    BY <2>1 DEF Outcome
  <2>4. w1 \in Conn
    BY <1>2, <2>3, ConnType DEF Phases
  <2>5. b1 \in SubmitStates
    BY DEF SubmitStates
  <2>6. v1 \in {"none", "error", "incorrect-pin"}
    BY DEF CompletionOK
  <2> HIDE DEF w1, b1, v1
  <2>7. SessionsOK'
    BY <1>4, <2>2, <2>3 DEF SubmitReceives, SessionsOK
  <2>8. CompletionOK'
    BY <1>4, <2>2, <2>4, <2>5, <2>6 DEF SubmitReceives, CompletionOK
  <2>9. FaultsOK'
    BY <1>4, <2>2 DEF SubmitReceives, FaultsOK
  <2> QED
    BY <1>4, <2>7, <2>8, <2>9, TypeFrame DEF SubmitReceives
<1>5. CASE SubmitFails(i)
  <2>1. CompletionOK'
    BY <1>2, <1>5 DEF SubmitFails, CompletionOK, SubmitStates
  <2> QED
    BY <1>5, <2>1, TypeFrame DEF SubmitFails
<1>6. CASE SubmitPins(i)
  <2>1. jsess[i].other \in Option(Nodes) /\ Joiner[i] \in Nodes
    BY <1>1, PairingAssumption DEF Session
  <2>2. PairedOf(jsess[i]) \subseteq Paired
    BY <1>1, PairedOfType
  <2>3. /\ pins' \in [Nodes -> SUBSET Option(Nodes)]
        /\ trusted' \in [Nodes -> SUBSET Option(Nodes)]
        /\ clustered' \in [Nodes -> BOOLEAN]
    BY <1>6, <2>1, PinPeerType DEF SubmitPins
  <2>4. TrustOK'
    BY <1>6, <2>2, <2>3 DEF SubmitPins, TrustOK
  <2>5. CompletionOK'
    BY <1>6 DEF SubmitPins, CompletionOK, SubmitStates
  <2> QED
    BY <1>6, <2>4, <2>5, TypeFrame DEF SubmitPins
<1>7. CASE SubmitCleanup(i)
  <2>1. CompletionOK'
    BY <1>2, <1>7 DEF SubmitCleanup, CompletionOK, SubmitStates
  <2>2. MapsOK'
    BY <1>7 DEF SubmitCleanup, MapsOK
  <2> QED
    BY <1>7, <2>1, <2>2, TypeFrame DEF SubmitCleanup
<1>8. CASE SubmitSignalled(i)
  <2>1. CompletionOK'
    BY <1>2, <1>8 DEF SubmitSignalled, CompletionOK, SubmitStates
  <2> QED
    BY <1>8, <2>1, TypeFrame DEF SubmitSignalled
<1> QED
  BY <1>3, <1>4, <1>5, <1>6, <1>7, <1>8

\* on_completion_request and on_signal keep the types.
LEMMA CompletionType ==
    ASSUME TypeOK, NEW i \in Invites,
           \/ CompletionLookup(i) \/ CompletionSession(i) \/ CompletionPin(i)
           \/ OnSignal(i)
    PROVE  TypeOK'
<1> USE DEF TypeOK
<1> DEFINE H == [st : {"none", "session", "pin"}, msg : Option(Wire)]
<1>1. /\ cconn[i] \in Conn /\ cconn[i].msg \in Option(Wire)
      /\ chand[i].msg \in Option(Wire)
      /\ isess[i] \in Session /\ None \in Option(Wire)
      /\ Server_start \in Option(Wire)
  BY Some, PlainWires DEF SessionsOK, CompletionOK, Conn
<1>2. CASE CompletionLookup(i)
  <2>1. Handler("session", cconn[i].msg) \in H
    BY <1>1, HandlerType
  <2>2. Accept(cconn[i]) \in Conn /\ Respond(cconn[i], 409, None) \in Conn
    BY <1>1, InviteConnType
  <2>3. CompletionOK'
    BY <1>2, <2>1, <2>2 DEF CompletionLookup, CompletionOK
  <2> QED
    BY <1>2, <2>3, TypeFrame DEF CompletionLookup
<1>3. CASE CompletionSession(i)
  <2> DEFINE r  == on_completion(isess[i], chand[i].msg)
             h1 == IF r.paired THEN Handler("pin", r.send) ELSE NoHandler
             w1 == IF r.panic THEN Break(cconn[i])
                   ELSE IF r.err THEN Respond(cconn[i], 400, None)
                   ELSE IF r.paired THEN cconn[i]
                   ELSE Respond(cconn[i], 200, r.send)
  <2>1. CASE chand[i].msg = None
    <3>1. /\ NoHandler \in H
          /\ Respond(cconn[i], 200, Server_start) \in Conn
      BY <1>1, HandlerType, InviteConnType
    <3>2. CompletionOK'
      BY <1>3, <2>1, <3>1 DEF CompletionSession, CompletionOK
    <3>3. SessionsOK' /\ FaultsOK'
      BY <1>3, <2>1 DEF CompletionSession, SessionsOK, FaultsOK
    <3> QED
      BY <1>3, <3>2, <3>3, TypeFrame DEF CompletionSession
  <2>2. CASE chand[i].msg # None
    <3>1. r.sess \in Session /\ r.send \in Option(Wire)
      BY <1>1, OnCompletionType
    <3>2. /\ isess' = [isess EXCEPT ![i] = r.sess]
          /\ chand' = [chand EXCEPT ![i] = h1]
          /\ cconn' = [cconn EXCEPT ![i] = w1]
          /\ panicked' = IF r.panic THEN panicked \cup {i} ELSE panicked
      BY <1>3, <2>2 DEF CompletionSession, Panics
    <3> HIDE DEF r
    <3>3. h1 \in H /\ w1 \in Conn
      BY <1>1, <3>1, HandlerType, InviteConnType
    <3> HIDE DEF h1, w1
    <3>4. SessionsOK'
      BY <1>3, <3>1, <3>2 DEF CompletionSession, SessionsOK
    <3>5. CompletionOK'
      BY <1>3, <3>2, <3>3 DEF CompletionSession, CompletionOK
    <3>6. FaultsOK'
      BY <1>3, <3>2 DEF CompletionSession, FaultsOK
    <3> QED
      BY <1>3, <3>4, <3>5, <3>6, TypeFrame DEF CompletionSession
  <2> QED
    BY <2>1, <2>2
<1>4. CASE CompletionPin(i)
  <2>1. isess[i].other \in Option(Nodes) /\ Inviter[i] \in Nodes
    BY <1>1, PairingAssumption DEF Session
  <2>2. PairedOf(isess[i]) \subseteq Paired
    BY <1>1, PairedOfType
  <2>3. /\ pins' \in [Nodes -> SUBSET Option(Nodes)]
        /\ trusted' \in [Nodes -> SUBSET Option(Nodes)]
        /\ clustered' \in [Nodes -> BOOLEAN]
    BY <1>4, <2>1, PinPeerType DEF CompletionPin
  <2>4. TrustOK'
    BY <1>4, <2>2, <2>3 DEF CompletionPin, TrustOK
  <2>5. NoHandler \in H /\ Respond(cconn[i], 200, chand[i].msg) \in Conn
    BY <1>1, HandlerType, InviteConnType
  <2>6. CompletionOK'
    BY <1>4, <2>5 DEF CompletionPin, CompletionOK
  <2> QED
    BY <1>4, <2>4, <2>6, TypeFrame DEF CompletionPin
<1>5. CASE OnSignal(i)
  <2>1. Respond(cconn[i], 200, None) \in Conn
    BY <1>1, InviteConnType
  <2>2. CompletionOK'
    BY <1>5, <2>1 DEF OnSignal, CompletionOK
  <2>3. MapsOK'
    BY <1>5 DEF OnSignal, MapsOK
  <2> QED
    BY <1>5, <2>2, <2>3, TypeFrame DEF OnSignal
<1> QED
  BY <1>2, <1>3, <1>4, <1>5

\* Foreign signals and connection faults keep the types.
LEMMA FaultType ==
    ASSUME TypeOK, NEW i \in Invites,
           \/ CancelJoiner(i) \/ CancelPending(i) \/ Decline(i)
           \/ BreakInitial(i) \/ BreakCompletion(i)
           \/ DropInitial(i) \/ DropCompletion(i)
           \/ AbandonCreate(i) \/ AbandonSubmit(i)
    PROVE  TypeOK'
<1> USE DEF TypeOK
<1>1. /\ Break(iconn[i]) \in Conn /\ Break(cconn[i]) \in Conn
      /\ Idle \in Conn
  BY InviteConnType, ConnType, Some
<1>2. /\ NoHandler \in [st : {"none", "session", "pending"}, msg : Option(Wire)]
      /\ NoHandler \in [st : {"none", "session", "pin"}, msg : Option(Wire)]
  BY HandlerType, Some
<1>3. CASE CancelJoiner(i) \/ CancelPending(i)
  <2>1. MapsOK' /\ FaultsOK'
    BY <1>3 DEF CancelJoiner, CancelPending, MapsOK, FaultsOK
  <2> QED
    BY <1>3, <2>1, TypeFrame DEF CancelJoiner, CancelPending
<1>4. CASE Decline(i)
  <2>1. MapsOK'
    BY <1>4 DEF Decline, MapsOK
  <2> QED
    BY <1>4, <2>1, TypeFrame DEF Decline
<1>5. CASE BreakInitial(i) \/ DropInitial(i) \/ AbandonCreate(i)
  <2>1. InitialOK'
    BY <1>1, <1>2, <1>5
       DEF BreakInitial, DropInitial, AbandonCreate, InitialOK, CreateStates
  <2> QED
    BY <1>5, <2>1, TypeFrame DEF BreakInitial, DropInitial, AbandonCreate
<1>6. CASE BreakCompletion(i) \/ DropCompletion(i) \/ AbandonSubmit(i)
  <2>1. CompletionOK'
    <3>1. CASE BreakCompletion(i)
      BY <1>1, <3>1 DEF BreakCompletion, CompletionOK
    <3>2. CASE DropCompletion(i)
      BY <1>1, <1>2, <3>2 DEF DropCompletion, CompletionOK
    <3>3. CASE AbandonSubmit(i)
      BY <1>1, <3>3 DEF AbandonSubmit, CompletionOK, SubmitStates
    <3> QED
      BY <1>6, <3>1, <3>2, <3>3
  <2> QED
    BY <1>6, <2>1, TypeFrame DEF BreakCompletion, DropCompletion, AbandonSubmit
<1> QED
  BY <1>3, <1>4, <1>5, <1>6

\* A process ends and another one starts, after a crash or because a command
\* returned.
Restarted(n) ==
    /\ \E torn \in Tears(n) : Restart(n, torn)
    /\ crashes' \in 0..MaxCrashes

\* What the endpoints do, whoever drives them.
Move ==
    \/ \E i \in Invites : Step(i) \/ Environment(i)
    \/ \E n \in Nodes : Restarted(n)

LEMMA NextMoves == TypeOK /\ [Next]_vars => [Move]_vars
  BY PairingAssumption DEF Next, Move, Crash, Restarted, TypeOK, FaultsOK

\* A restart keeps the types.
LEMMA RestartType ==
    ASSUME TypeOK, NEW n \in Nodes, Restarted(n)
    PROVE  TypeOK'
<1> USE DEF TypeOK
<1> DEFINE serves(c) == IF c.st = "open" THEN Break(c) ELSE c
<1>1. ASSUME NEW i \in Invites
      PROVE  /\ iconn[i] \in Conn /\ serves(iconn[i]) \in Conn
             /\ cconn[i] \in Conn /\ serves(cconn[i]) \in Conn
             /\ Idle \in Conn
  BY <1>1, InviteConnType, ConnType, Some DEF InitialOK, CompletionOK
<1>2. /\ NoHandler \in [st : {"none", "session", "pending"}, msg : Option(Wire)]
      /\ NoHandler \in [st : {"none", "session", "pin"}, msg : Option(Wire)]
  BY HandlerType, Some
<1>3. /\ create' \in [Invites -> CreateStates]
      /\ submit' \in [Invites -> SubmitStates]
  BY DEF Restarted, Restart, InitialOK, CompletionOK, CreateStates, SubmitStates
<1>4. iconn' \in [Invites -> Conn]
  <2>1. iconn' = [i \in Invites |->
          IF Inviter[i] = n THEN Idle
          ELSE IF Joiner[i] = n THEN serves(iconn[i]) ELSE iconn[i]]
    BY DEF Restarted, Restart
  <2> HIDE DEF serves
  <2> QED
    BY <1>1, <2>1
<1>5. cconn' \in [Invites -> Conn]
  <2>1. cconn' = [i \in Invites |->
          IF Joiner[i] = n THEN Idle
          ELSE IF Inviter[i] = n THEN serves(cconn[i]) ELSE cconn[i]]
    BY DEF Restarted, Restart
  <2> HIDE DEF serves
  <2> QED
    BY <1>1, <2>1
<1>6. InitialOK'
  BY <1>2, <1>3, <1>4 DEF Restarted, Restart, InitialOK
<1>7. CompletionOK'
  BY <1>2, <1>3, <1>5 DEF Restarted, Restart, CompletionOK
<1>8. MapsOK'
  BY DEF Restarted, Restart, MapsOK
<1>9. TrustOK'
  BY DEF Restarted, Restart, TrustOK, load_or_init
<1>10. FaultsOK'
  BY PairingAssumption DEF Restarted, Restart, FaultsOK
<1>11. SessionsOK'
  BY TypeFrame DEF Restarted, Restart
<1> QED
  BY <1>6, <1>7, <1>8, <1>9, <1>10, <1>11

\* Every step keeps the types.
LEMMA NextType == TypeOK /\ [Move]_vars => TypeOK'
<1> SUFFICES ASSUME TypeOK, [Move]_vars
             PROVE  TypeOK'
  OBVIOUS
<1>1. ASSUME NEW i \in Invites, Step(i)
      PROVE  TypeOK'
  BY <1>1, CreateType, InitialType, SubmitType, CompletionType, FaultType
     DEF Step
<1>2. ASSUME NEW i \in Invites, Environment(i)
      PROVE  TypeOK'
  BY <1>2, CreateType, SubmitType, FaultType DEF Environment
<1>3. ASSUME NEW n \in Nodes, Restarted(n)
      PROVE  TypeOK'
  BY <1>3, RestartType
<1>4. CASE UNCHANGED vars
  BY <1>4, TypeFrame DEF TypeOK, vars
<1> QED
  BY <1>1, <1>2, <1>3, <1>4 DEF Move

\* Type correctness: whatever users, losses, signals and crashes do, sessions,
\* connections and pin stores stay well-formed, and every message that
\* node.rs relays is one machine.rs is defined for.
THEOREM TypeCorrect == Spec => []TypeOK
<1>1. Init => TypeOK
  BY InitType
<1>2. TypeOK /\ [Next]_vars => TypeOK'
  BY NextType, NextMoves
<1> QED
  BY <1>1, <1>2, PTL DEF Spec

-----------------------------------------------------------------------------
(* Commit order.                                                           *)

\* What CommitOrder needs to be inductive: an EAP success waiting for the
\* joiner, and a joiner about to pin, are both evidence that the inviter has
\* pinned; an inviter about to pin holds the association to pin.
CommitInvOf(i) ==
    /\ cconn[i].st = "resp" /\ SaysSuccess(cconn[i].msg) => ipaired[i] # {}
    /\ chand[i].st = "pin" => isess[i].assoc # {}
    /\ submit[i] = "pin" => ipaired[i] # {}
    /\ jpaired[i] # {} => ipaired[i] # {}
CommitInv == \A i \in Invites : CommitInvOf(i)

\* A step that touches none of the six variables CommitInvOf(i) reads keeps it.
LEMMA CommitFrame ==
    ASSUME NEW i \in Invites, CommitInvOf(i),
           cconn'[i] = cconn[i], chand'[i] = chand[i], isess'[i] = isess[i],
           submit'[i] = submit[i], ipaired'[i] = ipaired[i],
           jpaired'[i] = jpaired[i]
    PROVE  CommitInvOf(i)'
  BY DEF CommitInvOf

\* A connection that is not being answered carries no EAP success.
LEMMA QuietConn ==
    ASSUME NEW c \in Conn, NEW phase, NEW msg
    PROVE  /\ Idle.st # "resp"
           /\ Request(phase, msg).st # "resp"
           /\ Accept(c).st # "resp"
           /\ Break(c).st # "resp"
  BY DEF Idle, Request, Accept, Break, Conn

\* A reply carries its message, or finds the client gone.
LEMMA ReplyConn ==
    ASSUME NEW c \in Conn, NEW status, NEW msg
    PROVE  \/ Respond(c, status, msg) = c
           \/ Respond(c, status, msg).msg = msg
  BY DEF Respond, Conn

\* A pairing on_completion reports has an association; a reply that announces
\* success without one being reported does not exist (node.rs:267-290).
LEMMA OnCompletionCommit ==
    ASSUME NEW s \in Session, NEW msg \in Option(Wire)
    PROVE  LET r == on_completion(s, msg) IN
           /\ r.paired => r.sess.assoc # {}
           /\ ~r.panic /\ ~r.err /\ ~r.paired => ~SaysSuccess(r.send)
<1> DEFINE o     == Server_receive(s, msg)
           first == o.sess.state = Registered /\ o.sess.other = None
           err   == first /\ o.sess.choice.info \notin ValidInfo
           s1    == IF first /\ ~err
                    THEN [o.sess EXCEPT !.other = o.sess.choice.info] ELSE o.sess
<1>1. o \in Outcome /\ Sound(s, o)
  BY ServerReceiveType, ServerSound
<1> HIDE DEF o
<1>2. o.sess \in Session
  BY <1>1 DEF Outcome
<1>3. s1.assoc = o.sess.assoc /\ s1.state = o.sess.state
  BY <1>2 DEF Session
<1>4. first /\ ~err => s1.other # None
  <2> SUFFICES ASSUME first, ~err
               PROVE  s1.other # None
    OBVIOUS
  <2>1. o.sess.choice.info \in Nodes
    BY PairingAssumption
  <2>2. s1.other = o.sess.choice.info
    BY <1>2 DEF Session
  <2> QED
    BY <2>1, <2>2, ConfigAssumption
<1>5. o.sess.state = Registered /\ ~err => s1.other # None
  BY <1>4
<1> HIDE DEF s1
<1>6. on_completion(s, msg) =
        [sess |-> s1, err |-> err, send |-> o.send, panic |-> o.panic,
         paired |-> /\ ~err /\ o.done /\ o.success
                    /\ s1.other # None /\ s1.assoc # {}]
  BY DEF on_completion, o, s1
<1> HIDE DEF err
<1> QED
  BY <1>1, <1>3, <1>5, <1>6 DEF Sound

\* create_invite can only add to the association.
LEMMA CreateCommit ==
    ASSUME TypeOK, CommitInv, NEW i \in Invites, NEW noob \in Noobs,
           CreateReceives(i, noob)
    PROVE  CommitInv'
<1> SUFFICES ASSUME NEW j \in Invites
             PROVE  CommitInvOf(j)'
  BY DEF CommitInv
<1> DEFINE r  == Server_receive(isess[i], iconn[i].msg)
           s1 == IF /\ ~r.panic /\ r.error_code = None /\ r.done
                    /\ OobAllowed(r.sess)
                 THEN oob_output_with(r.sess, noob) ELSE r.sess
<1>1. isess[i] \in Session /\ iconn[i].msg \in Option(Wire)
  BY DEF TypeOK, SessionsOK, InitialOK, Conn
<1>2. r \in Outcome /\ Sound(isess[i], r)
  BY <1>1, ServerReceiveType, ServerSound
<1>3. isess' = [isess EXCEPT ![i] = s1]
  BY DEF CreateReceives
<1> HIDE DEF r
<1>4. isess[i].assoc # {} => s1.assoc # {}
  BY <1>2 DEF Sound, Outcome, Session, oob_output_with
<1> HIDE DEF s1
<1>5. isess[j].assoc # {} => isess'[j].assoc # {}
  BY <1>3, <1>4 DEF TypeOK, SessionsOK
<1>6. /\ cconn' = cconn /\ chand' = chand /\ submit' = submit
      /\ ipaired' = ipaired /\ jpaired' = jpaired
  BY DEF CreateReceives, completionX, trust
<1>7. CommitInvOf(j)
  BY DEF CommitInv
<1> QED
  BY <1>5, <1>6, <1>7 DEF CommitInvOf

\* submit_pin pins only on an EAP success, after the inviter has pinned.
LEMMA SubmitCommit ==
    ASSUME TypeOK, CommitInv, NEW i \in Invites,
           \/ \E noob \in Noobs : SubmitPin(i, noob)
           \/ SubmitReceives(i) \/ SubmitFails(i) \/ SubmitPins(i)
           \/ SubmitCleanup(i) \/ SubmitSignalled(i) \/ AbandonSubmit(i)
    PROVE  CommitInv'
<1> SUFFICES ASSUME NEW j \in Invites
             PROVE  CommitInvOf(j)'
  BY DEF CommitInv
<1>1. /\ cconn \in [Invites -> Conn] /\ submit \in [Invites -> SubmitStates]
      /\ jsess[i] \in Session /\ cconn[i].msg \in Option(Wire)
      /\ DOMAIN jpaired = Invites
  BY DEF TypeOK, SessionsOK, CompletionOK, TrustOK, Conn
<1>2. CommitInvOf(i) /\ CommitInvOf(j)
  BY DEF CommitInv
<1>3. Idle.st # "resp" /\ \A phase, msg : Request(phase, msg).st # "resp"
  BY <1>1, QuietConn
<1>4. ASSUME NEW noob \in Noobs, SubmitPin(i, noob)
      PROVE  CommitInvOf(j)'
  <2>1. /\ cconn' = [cconn EXCEPT ![i] = Request("completion", None)]
        /\ submit' = [submit EXCEPT ![i] = "call"]
        /\ chand' = chand /\ isess' = isess
        /\ ipaired' = ipaired /\ jpaired' = jpaired
    BY <1>4 DEF SubmitPin, trust
  <2> QED
    BY <1>1, <1>2, <1>3, <2>1 DEF CommitInvOf
<1>5. CASE SubmitReceives(i)
  <2> DEFINE r     == Peer_receive(jsess[i], cconn[i].msg)
             stall == r.panic \/ (~r.done /\ r.send = None)
             b     == IF stall THEN "failed" ELSE IF ~r.done THEN "call"
                      ELSE IF r.success THEN "pin" ELSE "fail"
  <2>1. r.success => SaysSuccess(cconn[i].msg)
    BY <1>1, PeerSound
  <2>2. cconn[i].st = "resp"
    BY <1>5 DEF SubmitReceives
  <2>3. r.success => ipaired[i] # {}
    BY <1>2, <2>1, <2>2 DEF CommitInvOf
  <2>4. /\ chand' = chand /\ isess' = isess
        /\ ipaired' = ipaired /\ jpaired' = jpaired
    BY <1>5 DEF SubmitReceives, trust
  <2>5. \/ cconn' = [cconn EXCEPT ![i] = Idle]
        \/ \E phase, msg : cconn' = [cconn EXCEPT ![i] = Request(phase, msg)]
    <3>1. cconn' = [cconn EXCEPT
             ![i] = IF stall \/ r.success THEN Idle
                    ELSE IF r.done THEN Request("fail", None)
                    ELSE Request("completion", r.send)]
      BY <1>5 DEF SubmitReceives
    <3> HIDE DEF r, stall
    <3>2. CASE stall \/ r.success
      BY <3>1, <3>2
    <3>3. CASE ~(stall \/ r.success) /\ r.done
      BY <3>1, <3>3
    <3>4. CASE ~(stall \/ r.success) /\ ~r.done
      BY <3>1, <3>4
    <3> QED
      BY <3>2, <3>3, <3>4
  <2>6. submit' = [submit EXCEPT ![i] = b] /\ (b = "pin" => r.success)
    BY <1>5 DEF SubmitReceives
  <2> HIDE DEF r, b
  <2>7. cconn'[i].st # "resp"
    BY <1>1, <1>3, <2>5
  <2>8. submit'[i] = "pin" => ipaired[i] # {}
    BY <1>1, <2>3, <2>6
  <2>9. CASE j = i
    BY <1>2, <2>4, <2>7, <2>8, <2>9 DEF CommitInvOf
  <2>10. CASE j # i
    <3>1. cconn'[j] = cconn[j] /\ submit'[j] = submit[j]
      BY <1>1, <2>5, <2>6, <2>10
    <3> QED
      BY <1>2, <2>4, <3>1, CommitFrame
  <2> QED
    BY <2>9, <2>10
<1>6. CASE SubmitFails(i) \/ SubmitSignalled(i) \/ AbandonSubmit(i)
  <2>1. /\ cconn' = [cconn EXCEPT ![i] = Idle]
        /\ \E b \in {"failed", "failclean", "done"} :
              submit' = [submit EXCEPT ![i] = b]
        /\ chand' = chand /\ isess' = isess
        /\ ipaired' = ipaired /\ jpaired' = jpaired
    BY <1>6 DEF SubmitFails, SubmitSignalled, AbandonSubmit, sessions, trust
  <2>2. PICK b \in {"failed", "failclean", "done"} :
          submit' = [submit EXCEPT ![i] = b]
    BY <2>1
  <2>3. b # "pin"
    OBVIOUS
  <2> QED
    BY <1>1, <1>2, <1>3, <2>1, <2>2, <2>3 DEF CommitInvOf
<1>7. CASE SubmitPins(i)
  <2>1. submit[i] = "pin" /\ ipaired[i] # {}
    BY <1>2, <1>7 DEF SubmitPins, CommitInvOf
  <2>2. /\ cconn' = cconn /\ chand' = chand /\ isess' = isess
        /\ ipaired' = ipaired
        /\ submit' = [submit EXCEPT ![i] = "clean"]
        /\ jpaired' = [jpaired EXCEPT ![i] = PairedOf(jsess[i])]
    BY <1>7 DEF SubmitPins, sessions
  <2>3. CASE j = i
    BY <1>1, <1>2, <2>1, <2>2, <2>3 DEF CommitInvOf
  <2>4. CASE j # i
    BY <1>1, <1>2, <2>2, <2>4, CommitFrame
  <2> QED
    BY <2>3, <2>4
<1>8. CASE SubmitCleanup(i)
  <2>1. /\ cconn' = cconn \/ cconn' = [cconn EXCEPT ![i] = cconn[i]]
           \/ cconn' = [cconn EXCEPT ![i] = Request("ack", None)]
        /\ \E b \in {"ack", "failed"} : submit' = [submit EXCEPT ![i] = b]
        /\ chand' = chand /\ isess' = isess
        /\ ipaired' = ipaired /\ jpaired' = jpaired
    BY <1>8 DEF SubmitCleanup, sessions, trust
  <2> QED
    BY <1>1, <1>2, <1>3, <2>1 DEF CommitInvOf
<1> QED
  BY <1>4, <1>5, <1>6, <1>7, <1>8

\* on_completion_request pins before it answers with EAP success; on_signal
\* and a broken connection answer with nothing.
LEMMA CompletionCommit ==
    ASSUME TypeOK, CommitInv, NEW i \in Invites,
           \/ CompletionLookup(i) \/ CompletionSession(i) \/ CompletionPin(i)
           \/ OnSignal(i) \/ BreakCompletion(i) \/ DropCompletion(i)
    PROVE  CommitInv'
<1> SUFFICES ASSUME NEW j \in Invites
             PROVE  CommitInvOf(j)'
  BY DEF CommitInv
<1>1. /\ cconn \in [Invites -> Conn] /\ DOMAIN chand = Invites
      /\ isess \in [Invites -> Session] /\ DOMAIN ipaired = Invites
      /\ chand[i].msg \in Option(Wire) /\ cconn[i] \in Conn
  BY DEF TypeOK, SessionsOK, CompletionOK, TrustOK
<1>2. CommitInvOf(i) /\ CommitInvOf(j)
  BY DEF CommitInv
<1>3. ASSUME NEW status, NEW msg, ~SaysSuccess(msg)
      PROVE  LET c == Respond(cconn[i], status, msg) IN
             c.st = "resp" /\ SaysSuccess(c.msg) => ipaired[i] # {}
  BY <1>1, <1>2, <1>3, ReplyConn DEF CommitInvOf
<1>4. NoHandler.st # "pin" /\ \A msg : Handler("session", msg).st # "pin"
  BY DEF NoHandler, Handler
<1>5. Accept(cconn[i]).st # "resp" /\ Break(cconn[i]).st # "resp"
  BY <1>1, QuietConn
<1>6. CASE CompletionLookup(i)
  <2>1. /\ isess' = isess /\ submit' = submit
        /\ ipaired' = ipaired /\ jpaired' = jpaired
    BY <1>6 DEF CompletionLookup, sessions, trust
  <2>2. \/ /\ cconn' = [cconn EXCEPT ![i] = Accept(cconn[i])]
           /\ chand' = [chand EXCEPT ![i] = Handler("session", cconn[i].msg)]
        \/ /\ cconn' = [cconn EXCEPT ![i] = Respond(cconn[i], 409, None)]
           /\ chand' = chand
    BY <1>6 DEF CompletionLookup
  <2>3. CASE j = i
    BY <1>1, <1>2, <1>3, <1>4, <1>5, <2>1, <2>2, <2>3, QuietWires
       DEF CommitInvOf
  <2>4. CASE j # i
    BY <1>1, <1>2, <2>1, <2>2, <2>4, CommitFrame
  <2> QED
    BY <2>3, <2>4
<1>7. CASE CompletionSession(i)
  <2> DEFINE r  == on_completion(isess[i], chand[i].msg)
             h1 == IF r.paired THEN Handler("pin", r.send) ELSE NoHandler
             w1 == IF r.panic THEN Break(cconn[i])
                   ELSE IF r.err THEN Respond(cconn[i], 400, None)
                   ELSE IF r.paired THEN cconn[i]
                   ELSE Respond(cconn[i], 200, r.send)
  <2>1. submit' = submit /\ ipaired' = ipaired /\ jpaired' = jpaired
    BY <1>7 DEF CompletionSession, trust
  <2>2. CASE chand[i].msg = None
    <3>1. /\ cconn' = [cconn EXCEPT ![i] = Respond(cconn[i], 200, Server_start)]
          /\ chand' = [chand EXCEPT ![i] = NoHandler]
          /\ isess' = isess
      BY <1>7, <2>2 DEF CompletionSession
    <3>2. CASE j = i
      BY <1>1, <1>2, <1>3, <1>4, <2>1, <3>1, <3>2, QuietWires DEF CommitInvOf
    <3>3. CASE j # i
      BY <1>1, <1>2, <2>1, <3>1, <3>3, CommitFrame
    <3> QED
      BY <3>2, <3>3
  <2>3. CASE chand[i].msg # None
    <3>1. /\ r.paired => r.sess.assoc # {}
          /\ ~r.panic /\ ~r.err /\ ~r.paired => ~SaysSuccess(r.send)
      BY <1>1, OnCompletionCommit
    <3>2. /\ isess' = [isess EXCEPT ![i] = r.sess]
          /\ chand' = [chand EXCEPT ![i] = h1]
          /\ cconn' = [cconn EXCEPT ![i] = w1]
      BY <1>7, <2>3 DEF CompletionSession
    <3> HIDE DEF r
    <3>3. w1.st = "resp" /\ SaysSuccess(w1.msg) => ipaired[i] # {}
      <4>1. CASE r.panic
        BY <1>5, <4>1
      <4>2. CASE ~r.panic /\ r.err
        BY <1>3, <4>2, QuietWires
      <4>3. CASE ~r.panic /\ ~r.err /\ r.paired
        BY <1>2, <4>3 DEF CommitInvOf
      <4>4. CASE ~r.panic /\ ~r.err /\ ~r.paired
        BY <1>3, <3>1, <4>4
      <4> QED
        BY <4>1, <4>2, <4>3, <4>4
    <3>4. h1.st = "pin" => r.sess.assoc # {}
      BY <1>4, <3>1
    <3> HIDE DEF w1, h1
    <3>5. CASE j = i
      BY <1>1, <1>2, <2>1, <3>2, <3>3, <3>4, <3>5 DEF CommitInvOf
    <3>6. CASE j # i
      BY <1>1, <1>2, <2>1, <3>2, <3>6, CommitFrame
    <3> QED
      BY <3>5, <3>6
  <2> QED
    BY <2>2, <2>3
<1>8. CASE CompletionPin(i)
  <2>1. isess[i].assoc # {}
    BY <1>2, <1>8 DEF CompletionPin, CommitInvOf
  <2>2. PairedOf(isess[i]) # {}
    BY <2>1 DEF PairedOf
  <2>3. /\ isess' = isess /\ submit' = submit /\ jpaired' = jpaired
        /\ ipaired' = [ipaired EXCEPT ![i] = PairedOf(isess[i])]
        /\ chand' = [chand EXCEPT ![i] = NoHandler]
        /\ cconn' = [cconn EXCEPT ![i] = Respond(cconn[i], 200, chand[i].msg)]
    BY <1>8 DEF CompletionPin, sessions
  <2>4. CASE j = i
    BY <1>1, <1>4, <2>2, <2>3, <2>4 DEF CommitInvOf
  <2>5. CASE j # i
    BY <1>1, <1>2, <2>3, <2>5, CommitFrame
  <2> QED
    BY <2>4, <2>5
<1>9. CASE OnSignal(i)
  <2>1. /\ isess' = isess /\ submit' = submit /\ chand' = chand
        /\ ipaired' = ipaired /\ jpaired' = jpaired
        /\ cconn' = [cconn EXCEPT ![i] = Respond(cconn[i], 200, None)]
    BY <1>9 DEF OnSignal, sessions, trust
  <2>2. CASE j = i
    BY <1>1, <1>2, <1>3, <2>1, <2>2, QuietWires DEF CommitInvOf
  <2>3. CASE j # i
    BY <1>1, <1>2, <2>1, <2>3, CommitFrame
  <2> QED
    BY <2>2, <2>3
<1>10. CASE BreakCompletion(i) \/ DropCompletion(i)
  <2>1. /\ isess' = isess /\ submit' = submit
        /\ ipaired' = ipaired /\ jpaired' = jpaired
        /\ cconn' = cconn \/ cconn' = [cconn EXCEPT ![i] = Break(cconn[i])]
        /\ chand' = chand \/ chand' = [chand EXCEPT ![i] = NoHandler]
    BY <1>10 DEF BreakCompletion, DropCompletion, sessions, trust
  <2>2. CASE j = i
    BY <1>1, <1>2, <1>4, <1>5, <2>1, <2>2 DEF CommitInvOf
  <2>3. CASE j # i
    BY <1>1, <1>2, <2>1, <2>3, CommitFrame
  <2> QED
    BY <2>2, <2>3
<1> QED
  BY <1>6, <1>7, <1>8, <1>9, <1>10

\* A restart loses connections and tasks, never what was pinned: a record of
\* the pairing survives it (ipaired is history, not memory).
LEMMA RestartCommit ==
    ASSUME TypeOK, CommitInv, NEW n \in Nodes, Restarted(n)
    PROVE  CommitInv'
<1> SUFFICES ASSUME NEW j \in Invites
             PROVE  CommitInvOf(j)'
  BY DEF CommitInv
<1>1. CommitInvOf(j) /\ cconn[j] \in Conn
  BY DEF CommitInv, TypeOK, CompletionOK
<1>2. Idle.st # "resp" /\ Break(cconn[j]).st # "resp"
  BY <1>1, QuietConn
<1>3. isess' = isess /\ ipaired' = ipaired /\ jpaired' = jpaired
  BY DEF Restarted, Restart, sessions
<1>4. cconn'[j] = cconn[j] \/ cconn'[j] = Idle \/ cconn'[j] = Break(cconn[j])
  BY DEF Restarted, Restart
<1>5. chand'[j] = chand[j] \/ chand'[j] = NoHandler
  BY DEF Restarted, Restart
<1>6. submit'[j] = submit[j] \/ submit'[j] = "crashed"
  BY DEF Restarted, Restart
<1> QED
  BY <1>1, <1>2, <1>3, <1>4, <1>5, <1>6 DEF CommitInvOf, NoHandler

\* Every step keeps the strengthened invariant.
LEMMA NextCommit == TypeOK /\ CommitInv /\ [Move]_vars => CommitInv'
<1> SUFFICES ASSUME TypeOK, CommitInv, [Move]_vars
             PROVE  CommitInv'
  OBVIOUS
<1>1. ASSUME isess' = isess, completionX' = completionX, trust' = trust
      PROVE  CommitInv'
  BY <1>1 DEF CommitInv, CommitInvOf, completionX, trust
<1>2. ASSUME NEW i \in Invites,
             \/ CreateInvite(i) \/ CreateFails(i) \/ InitialLookup(i)
             \/ InitialSession(i) \/ InitialPending(i) \/ CancelJoiner(i)
             \/ CancelPending(i) \/ Decline(i) \/ BreakInitial(i)
             \/ DropInitial(i) \/ AbandonCreate(i)
      PROVE  CommitInv'
  <2>1. isess' = isess /\ completionX' = completionX /\ trust' = trust
    BY <1>2 DEF CreateInvite, CreateFails, InitialLookup, InitialSession,
         InitialPending, CancelJoiner, CancelPending, Decline, BreakInitial,
         DropInitial, AbandonCreate, sessions
  <2> QED
    BY <1>1, <2>1
<1>3. ASSUME NEW i \in Invites, Step(i)
      PROVE  CommitInv'
  BY <1>2, <1>3, CreateCommit, SubmitCommit, CompletionCommit DEF Step
<1>4. ASSUME NEW i \in Invites, Environment(i)
      PROVE  CommitInv'
  BY <1>2, <1>4, SubmitCommit, CompletionCommit DEF Environment
<1>5. ASSUME NEW n \in Nodes, Restarted(n)
      PROVE  CommitInv'
  BY <1>5, RestartCommit
<1>6. CASE UNCHANGED vars
  BY <1>1, <1>6 DEF vars, sessions
<1> QED
  BY <1>3, <1>4, <1>5, <1>6 DEF Move

LEMMA InitCommit == Init => CommitInv
<1> SUFFICES ASSUME Init, NEW i \in Invites
             PROVE  CommitInvOf(i)
  BY DEF CommitInv
<1>1. cconn[i] = Idle /\ chand[i] = NoHandler
  BY DEF Init
<1>2. submit[i] = "idle" /\ jpaired[i] = {}
  BY DEF Init
<1>3. Idle.st # "resp" /\ NoHandler.st # "pin"
  BY DEF Idle, NoHandler
<1> QED
  BY <1>1, <1>2, <1>3 DEF CommitInvOf

\* Commit order, for any number of nodes and invites and any losses, crashes,
\* disk errors and signals: the joiner (node.rs:458) pins only after the
\* inviter did (node.rs:301).
THEOREM CommitOrdered == Spec => []CommitOrder
<1>1. Init => CommitInv
  BY InitCommit
<1>2. TypeOK /\ CommitInv /\ [Next]_vars => CommitInv'
  BY NextCommit, NextMoves
<1>3. CommitInv => CommitOrder
  BY DEF CommitInv, CommitInvOf, CommitOrder
<1> QED
  BY <1>1, <1>2, <1>3, TypeCorrect, PTL DEF Spec

-----------------------------------------------------------------------------
(* Membership and the disk.                                                *)

\* What of MembershipFollowsDisk holds whichever files are rewritten: a
\* clustered node has a peer pinned, a node with a certificate on disk is
\* clustered and has it pinned, and one without a cluster directory has none.
MemberInv ==
    \A n \in Nodes :
        /\ clustered[n] => pins[n] # {}
        /\ trusted[n] # {} => clustered[n]
        /\ trusted[n] \subseteq pins[n]
        /\ n \notin Persistent => trusted[n] = {}

\* pin_peer keeps pins, trusted/ and `clustered` in step whether or not its
\* write succeeds.
LEMMA PinPeerMember ==
    ASSUME TypeOK, MemberInv, NEW n \in Nodes, NEW peer, PinPeer(n, peer)
    PROVE  MemberInv'
<1> SUFFICES ASSUME NEW m \in Nodes
             PROVE  /\ clustered'[m] => pins'[m] # {}
                    /\ trusted'[m] # {} => clustered'[m]
                    /\ trusted'[m] \subseteq pins'[m]
                    /\ m \notin Persistent => trusted'[m] = {}
  BY DEF MemberInv
<1>1. pins' = [pins EXCEPT ![n] = @ \cup {peer}]
  BY DEF PinPeer
<1>2. DOMAIN pins = Nodes /\ DOMAIN trusted = Nodes /\ DOMAIN clustered = Nodes
  BY DEF TypeOK, TrustOK
<1>3. /\ clustered[m] => pins[m] # {}
      /\ trusted[m] # {} => clustered[m]
      /\ trusted[m] \subseteq pins[m]
      /\ m \notin Persistent => trusted[m] = {}
  BY DEF MemberInv
<1>4. CASE m # n
  <2>1. pins'[m] = pins[m] /\ trusted'[m] = trusted[m] /\ clustered'[m] = clustered[m]
    BY <1>2, <1>4 DEF PinPeer
  <2> QED
    BY <1>3, <2>1
<1>5. CASE m = n
  <2>1. pins'[m] = pins[m] \cup {peer}
    BY <1>1, <1>2, <1>5
  <2>2. \/ n \notin Persistent /\ clustered'[m] = TRUE /\ trusted'[m] = trusted[m]
        \/ n \in Persistent /\ clustered'[m] = TRUE /\ trusted'[m] = trusted[m] \cup {peer}
        \/ /\ n \in Persistent /\ clustered'[m] = clustered[m]
           /\ trusted'[m] = trusted[m] \/ trusted'[m] = trusted[m] \ {peer}
    BY <1>2, <1>5 DEF PinPeer
  <2> QED
    BY <1>3, <1>5, <2>1, <2>2
<1> QED
  BY <1>4, <1>5

\* A restart takes pins and `clustered` from trusted/.
LEMMA RestartMember ==
    ASSUME TypeOK, MemberInv, NEW n \in Nodes, Restarted(n)
    PROVE  MemberInv'
<1> SUFFICES ASSUME NEW m \in Nodes
             PROVE  /\ clustered'[m] => pins'[m] # {}
                    /\ trusted'[m] # {} => clustered'[m]
                    /\ trusted'[m] \subseteq pins'[m]
                    /\ m \notin Persistent => trusted'[m] = {}
  BY DEF MemberInv
<1>1. PICK torn : /\ pins' = [pins EXCEPT ![n] = trusted[n] \ torn]
                  /\ clustered' = [clustered EXCEPT ![n] = trusted[n] \ torn # {}]
                  /\ trusted' = [trusted EXCEPT ![n] = trusted[n] \ torn]
  BY DEF Restarted, Restart, load_or_init
<1>2. DOMAIN pins = Nodes /\ DOMAIN clustered = Nodes /\ DOMAIN trusted = Nodes
  BY DEF TypeOK, TrustOK
<1>3. /\ clustered[m] => pins[m] # {}
      /\ trusted[m] # {} => clustered[m]
      /\ trusted[m] \subseteq pins[m]
      /\ m \notin Persistent => trusted[m] = {}
  BY DEF MemberInv
<1>4. CASE m # n
  <2>1. pins'[m] = pins[m] /\ clustered'[m] = clustered[m] /\ trusted'[m] = trusted[m]
    BY <1>1, <1>2, <1>4
  <2> QED
    BY <1>3, <2>1
<1>5. CASE m = n
  <2>1. /\ pins'[m] = trusted[m] \ torn /\ trusted'[m] = trusted[m] \ torn
        /\ clustered'[m] = (trusted[m] \ torn # {})
    BY <1>1, <1>2, <1>5
  <2> QED
    BY <1>3, <2>1
<1> QED
  BY <1>4, <1>5

\* Only pin_peer, at either end, and a restart touch what MemberInv reads.
LEMMA NextMember ==
    ASSUME TypeOK, MemberInv, [Move]_vars
    PROVE  MemberInv'
<1>1. ASSUME UNCHANGED <<pins, trusted, clustered>>
      PROVE  MemberInv'
  BY <1>1 DEF MemberInv
<1>2. ASSUME NEW i \in Invites,
             \/ CreateInvite(i) \/ CreateFails(i) \/ InitialLookup(i)
             \/ InitialSession(i) \/ InitialPending(i) \/ CancelJoiner(i)
             \/ CancelPending(i) \/ Decline(i) \/ BreakInitial(i)
             \/ DropInitial(i) \/ AbandonCreate(i)
             \/ \E noob \in Noobs : CreateReceives(i, noob)
      PROVE  MemberInv'
  <2>1. trust' = trust
    BY <1>2 DEF CreateInvite, CreateFails, InitialLookup, InitialSession,
         InitialPending, CancelJoiner, CancelPending, Decline, BreakInitial,
         DropInitial, AbandonCreate, CreateReceives
  <2> QED
    BY <1>1, <2>1 DEF trust
<1>3. ASSUME NEW i \in Invites,
             \/ \E noob \in Noobs : SubmitPin(i, noob)
             \/ SubmitReceives(i) \/ SubmitFails(i) \/ SubmitCleanup(i)
             \/ SubmitSignalled(i) \/ AbandonSubmit(i) \/ CompletionLookup(i)
             \/ CompletionSession(i) \/ OnSignal(i) \/ BreakCompletion(i)
             \/ DropCompletion(i)
      PROVE  MemberInv'
  <2>1. trust' = trust
    BY <1>3 DEF SubmitPin, SubmitReceives, SubmitFails, SubmitCleanup,
         SubmitSignalled, AbandonSubmit, CompletionLookup, CompletionSession,
         OnSignal, BreakCompletion, DropCompletion
  <2> QED
    BY <1>1, <2>1 DEF trust
<1>4. ASSUME NEW i \in Invites, SubmitPins(i)
      PROVE  MemberInv'
  <2>1. PinPeer(Joiner[i], jsess[i].other) /\ Joiner[i] \in Nodes
    BY <1>4, PairingAssumption DEF SubmitPins
  <2> QED
    BY <2>1, PinPeerMember
<1>5. ASSUME NEW i \in Invites, CompletionPin(i)
      PROVE  MemberInv'
  <2>1. PinPeer(Inviter[i], isess[i].other) /\ Inviter[i] \in Nodes
    BY <1>5, PairingAssumption DEF CompletionPin
  <2> QED
    BY <2>1, PinPeerMember
<1>6. ASSUME NEW n \in Nodes, Restarted(n)
      PROVE  MemberInv'
  BY <1>6, RestartMember
<1>7. CASE UNCHANGED vars
  BY <1>1, <1>7 DEF vars, trust
<1>8. ASSUME NEW i \in Invites, Step(i)
      PROVE  MemberInv'
  BY <1>2, <1>3, <1>4, <1>5, <1>8 DEF Step
<1>9. ASSUME NEW i \in Invites, Environment(i)
      PROVE  MemberInv'
  BY <1>2, <1>3, <1>9 DEF Environment
<1> QED
  BY <1>6, <1>7, <1>8, <1>9 DEF Move

=============================================================================
