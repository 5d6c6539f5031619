----------------------- MODULE PairingAgreementProofs ------------------------
(***************************************************************************)
(* Two nodes that pair agree: theorems about PairingNode that need the two *)
(* sessions of an invite side by side.  The last two parts take them to    *)
(* the commands and the dashboard that drive the endpoint                  *)
(* (PairingCommands), and to the contract it implements                    *)
(* (PairingRefinement).                                                    *)
(***************************************************************************)
EXTENDS PairingRefinement, PairingNodeProofs, PairingCommands, FiniteSetTheorems

-----------------------------------------------------------------------------
(* The invariant of one invite i.  In its parts, s and p are the inviter's *)
(* and the joiner's session, cr and su say where create_invite and         *)
(* submit_pin are, ic with ih and cc with ch are the two connections with  *)
(* their handlers.                                                         *)

FirstJoiner(i) == NewSession(<<i, "peer">>, Joiner[i])

\* Each side knows who it is, and captured nobody else than the other side,
\* whose PairingInfo is valid.
Identities(i, s, p) ==
    /\ s.info = Inviter[i] /\ p.info = Joiner[i]
    /\ s.other # None => s.other = Joiner[i] /\ Joiner[i] \in ValidInfo
    /\ p.other # None => p.other = Inviter[i] /\ Inviter[i] \in ValidInfo

\* A PIN is minted when the Initial Exchange is over and never again; a joiner
\* past Waiting has a PIN and the inviter's identity.
PinsHeld(cr, s, p) ==
    /\ cr = "made" => s.state # Unregistered /\ s.noob # None
    /\ cr # "made" => s.noob = None
    /\ p.state \in {OobReceived, Registered} => p.noob # None /\ p.other # None

\* The Initial Exchange: one message is under way at a time, it says the truth,
\* and the joiner is Unregistered until the key exchange.  A Type 1 request
\* finds a session that is as good as new.
InitialFlow(i, s, p, cr, ic, ih) ==
    /\ cr \in {"idle", "made"} => ic.st = "idle" /\ ih.st = "none"
    /\ cr = "idle" => p = FirstJoiner(i)
    /\ ic.st # "idle" => cr = "call"
    /\ ic.st \in {"sent", "resp"} => ih.st = "none"
    /\ ic.st = "sent" =>
          /\ p.state = Unregistered /\ ic.msg # None /\ ToPeer(s, p, ic.msg)
          /\ ic.msg.type = 1 => p = FirstJoiner(i)
    /\ ih.st = "session" =>
          p.state = Unregistered /\ ih.msg # None /\ ToPeer(s, p, ih.msg)
    /\ ih.st = "pending" /\ ih.msg # None =>
          ToServer(s, p, ih.msg) /\ (p.state # Unregistered => ih.msg.type = 3)
    /\ ic.st = "resp" /\ ic.status = 200 /\ ic.msg # None =>
          ToServer(s, p, ic.msg) /\ (p.state # Unregistered => ic.msg.type = 3)

\* The Completion Exchange: the same, for messages that are exact about the PIN.
\* submit_pin takes one PIN per session.
CompletionFlow(s, p, cr, su, cc, ch) ==
    /\ su # "idle" => p.state \in {OobReceived, Registered}
    /\ su \in {"pin", "clean"} => p.state = Registered /\ ch.st = "none"
    /\ cc.st = "sent" /\ cc.phase = "completion" => su = "call"
    /\ cc.st = "sent" /\ cc.msg # None =>
          cr = "made" /\ ToServer(s, p, cc.msg) /\ ExactToServer(s, p, cc.msg)
    /\ cc.st = "resp" /\ cc.msg # None =>
          cr = "made" /\ ToPeer(s, p, cc.msg) /\ ExactToPeer(s, p, cc.msg)
    /\ ch.st # "none" =>
          cr = "made" /\ su # "idle" /\ cc.st # "sent" /\ cc.st # "resp"
    /\ ch.st = "session" /\ ch.msg # None =>
          ToServer(s, p, ch.msg) /\ ExactToServer(s, p, ch.msg)
    /\ ch.st = "pin" =>
          /\ s.state = Registered /\ s.other # None
          /\ ch.msg # None => ToPeer(s, p, ch.msg) /\ ExactToPeer(s, p, ch.msg)

\* What was pinned is what the Registered session holds.
PinnedIsHeld(s, p, ip, jp) ==
    /\ ip # {} => s.state = Registered /\ s.other # None /\ ip = PairedOf(s)
    /\ jp # {} => p.state = Registered /\ p.other # None /\ jp = PairedOf(p)

\* A PIN is only blamed when it is not the minted one.
BlameIsRight(s, p, cr, su, v) ==
    v = "incorrect-pin" => cr = "made" /\ su # "idle" /\ s.noob # p.noob

PairInvOf(i) ==
    /\ InStep(isess[i], jsess[i])
    /\ Identities(i, isess[i], jsess[i])
    /\ PinsHeld(create[i], isess[i], jsess[i])
    /\ InitialFlow(i, isess[i], jsess[i], create[i], iconn[i], ihand[i])
    /\ CompletionFlow(isess[i], jsess[i], create[i], submit[i], cconn[i], chand[i])
    /\ PinnedIsHeld(isess[i], jsess[i], ipaired[i], jpaired[i])
    /\ BlameIsRight(isess[i], jsess[i], create[i], submit[i], verdict[i])

PairInv ==
    /\ \A i \in Invites : PairInvOf(i)
    /\ inviters \subseteq {i \in Invites : create[i] = "made"}
    /\ panicked = {}

\* Every pin is that of an invite whose inviter pinned the joiner.
PinsInv ==
    \A n \in Nodes : \A m \in pins[n] :
        /\ m \in ValidInfo
        /\ \E i \in Invites : {n, m} = {Inviter[i], Joiner[i]} /\ ipaired[i] # {}

\* Each side of an invite pins at most once: an inviter that has pinned gets no
\* further message of the Completion Exchange, for what it answered was EAP
\* success, which ends submit_pin's loop, or reached nobody.
OnceInvOf(i) ==
    /\ submit[i] = "call" /\ cconn[i].st = "sent" => cconn[i].phase = "completion"
    /\ chand[i].st = "pin" => ipaired[i] = {} /\ SaysSuccess(chand[i].msg)
    /\ ipaired[i] # {} =>
          /\ chand[i].st = "none"
          /\ ~(cconn[i].st = "sent" /\ cconn[i].phase = "completion")
          /\ submit[i] = "call" /\ cconn[i].st = "resp" /\ cconn[i].status = 200 =>
                SaysSuccess(cconn[i].msg)
    /\ jpaired[i] # {} => submit[i] \notin {"call", "pin"}
OnceInv == \A i \in Invites : OnceInvOf(i)

\* Every certificate on disk is that of an invite whose side there has pinned.
Filed(n, m) ==
    \E i \in Invites :
        \/ Inviter[i] = n /\ Joiner[i] = m /\ ipaired[i] # {}
        \/ Joiner[i] = n /\ Inviter[i] = m /\ jpaired[i] # {}
FiledInv == \A n \in Nodes : \A m \in trusted[n] : Filed(n, m)

\* The two invariants that a rewritten file would break.  Where writes succeed,
\* a pin of an inviter with a cluster directory is on disk; and whether or not
\* they do, a clustered node with a cluster directory has a certificate there.
DiskInv ==
    FirstPairings => \A i \in Invites :
        ipaired[i] # {} /\ Inviter[i] \in Persistent \ DiskFails => Joiner[i] \in trusted[Inviter[i]]
FlagInv ==
    FirstPairings => \A n \in Persistent : clustered[n] => trusted[n] # {}

\* The inductive invariant.
AgreementInv ==
    /\ TypeOK /\ CommitInv /\ MemberInv /\ PairInv /\ OnceInv
    /\ PinsInv /\ FiledInv /\ DiskInv /\ FlagInv

-----------------------------------------------------------------------------
(* Facts about connections, handlers and the parts of the invariant.       *)

LEMMA Locals ==
    ASSUME TypeOK, NEW i \in Invites
    PROVE  /\ isess[i] \in Session /\ jsess[i] \in Session
           /\ iconn[i] \in Conn /\ cconn[i] \in Conn
           /\ iconn[i].msg \in Option(Wire) /\ cconn[i].msg \in Option(Wire)
           /\ ihand[i].msg \in Option(Wire) /\ chand[i].msg \in Option(Wire)
           /\ ihand[i].st \in {"none", "session", "pending"}
           /\ chand[i].st \in {"none", "session", "pin"}
           /\ create[i] \in CreateStates /\ submit[i] \in SubmitStates
  BY DEF TypeOK, SessionsOK, InitialOK, CompletionOK, Conn

\* A message is None or a Wire, and not both.
LEMMA Message ==
    ASSUME NEW m \in Option(Wire)
    PROVE  m # None => m \in Wire
  BY DEF Option

LEMMA ConnParts ==
    ASSUME NEW c \in Conn, NEW phase, NEW msg
    PROVE  /\ Idle.st = "idle"
           /\ Request(phase, msg).st = "sent" /\ Request(phase, msg).phase = phase
           /\ Request(phase, msg).msg = msg
           /\ Accept(c).st = "open" /\ Break(c).st = "broken"
  BY DEF Idle, Request, Accept, Break, Conn

LEMMA RespondParts ==
    ASSUME NEW c \in Conn, NEW status, NEW msg
    PROVE  LET d == Respond(c, status, msg) IN
           \/ d = c /\ c.st # "sent" /\ c.st # "open"
           \/ /\ c.st \in {"sent", "open"}
              /\ d.st = "resp" /\ d.status = status /\ d.msg = msg
  BY DEF Respond, Conn

LEMMA HandlerParts ==
    ASSUME NEW st, NEW msg
    PROVE  /\ NoHandler.st = "none"
           /\ Handler(st, msg).st = st /\ Handler(st, msg).msg = msg
  BY DEF NoHandler, Handler

LEMMA FirstJoinerParts ==
    ASSUME NEW i
    PROVE  FirstJoiner(i).state = Unregistered /\ FirstJoiner(i).noob = None
  BY DEF FirstJoiner, NewSession

\* Server_start is true of any two sessions.
LEMMA StartMessage ==
    ASSUME NEW s, NEW p
    PROVE  /\ ToPeer(s, p, Server_start) /\ ExactToPeer(s, p, Server_start)
           /\ Server_start # None /\ Server_start.type = 1
<1> DEFINE w == Server_start
<1>1. w.type = 1 /\ w.eap = None /\ w.error_code = None
  BY DEF Server_start, Wire0
<1>2. w # None
  BY PlainWires, OptionAssumption
<1> HIDE DEF w
<1>3. ToPeer(s, p, w)
  BY <1>1, ConfigAssumption DEF ToPeer
<1>4. ExactToPeer(s, p, w)
  BY <1>1, ExactMessages
<1> QED
  BY <1>1, <1>2, <1>3, <1>4 DEF w

\* Before the PIN is minted the Completion Exchange carries no message.
LEMMA CompletionRests ==
    ASSUME NEW s, NEW p, NEW cr, NEW su, NEW cc, NEW ch,
           CompletionFlow(s, p, cr, su, cc, ch), cr # "made"
    PROVE  /\ ch.st = "none"
           /\ \A s1, cr1 : CompletionFlow(s1, p, cr1, su, cc, ch)
           /\ su = "idle" => \A s1, p1, cr1 : CompletionFlow(s1, p1, cr1, su, cc, ch)
<1>1. ch.st = "none"
  BY DEF CompletionFlow
<1>2. ~(cc.st = "sent" /\ cc.msg # None) /\ ~(cc.st = "resp" /\ cc.msg # None)
  BY DEF CompletionFlow
<1>3. ASSUME NEW s1, NEW cr1
      PROVE  CompletionFlow(s1, p, cr1, su, cc, ch)
  BY <1>1, <1>2 DEF CompletionFlow
<1>4. ASSUME NEW s1, NEW p1, NEW cr1, su = "idle"
      PROVE  CompletionFlow(s1, p1, cr1, su, cc, ch)
  BY <1>1, <1>2, <1>4 DEF CompletionFlow
<1> QED
  BY <1>1, <1>3, <1>4

\* Once it is minted, or before the invite, the Initial Exchange rests.
LEMMA InitialRests ==
    ASSUME NEW i, NEW s, NEW p, NEW ic, NEW ih,
           InitialFlow(i, s, p, "made", ic, ih)
    PROVE  \A s1, p1 : InitialFlow(i, s1, p1, "made", ic, ih)
  BY DEF InitialFlow

\* What is pinned stays what the sessions hold when neither side loses its
\* registration.
LEMMA PinnedStays ==
    ASSUME NEW s, NEW p, NEW ip, NEW jp, PinnedIsHeld(s, p, ip, jp), NEW s1, NEW p1,
           s.state = Registered =>
              s1.state = Registered /\ s1.assoc = s.assoc
              /\ (s.other # None => s1.other = s.other),
           p.state = Registered =>
              p1.state = Registered /\ p1.assoc = p.assoc
              /\ (p.other # None => p1.other = p.other)
    PROVE  PinnedIsHeld(s1, p1, ip, jp)
<1>1. ip # {} => PairedOf(s1) = PairedOf(s) /\ s1.other # None /\ s1.state = Registered
  BY DEF PinnedIsHeld, PairedOf
<1>2. jp # {} => PairedOf(p1) = PairedOf(p) /\ p1.other # None /\ p1.state = Registered
  BY DEF PinnedIsHeld, PairedOf
<1> QED
  BY <1>1, <1>2 DEF PinnedIsHeld

\* Capturing the other side's identity changes nothing else.
LEMMA CaptureKeeps ==
    ASSUME NEW s \in Session, NEW p, NEW who
    PROVE  LET s1 == [s EXCEPT !.other = who] IN
           /\ s1.other = who /\ s1.info = s.info /\ s1.noob = s.noob
           /\ s1.state = s.state /\ s1.assoc = s.assoc /\ s1.offer = s.offer
           /\ InStep(s, p) => InStep(s1, p)
           /\ InStep(p, s) => InStep(p, s1)
           /\ \A m : ToPeer(s, p, m) => ToPeer(s1, p, m)
           /\ \A m : ToServer(p, s, m) => ToServer(p, s1, m)
           /\ \A m : ExactToPeer(s, p, m) => ExactToPeer(s1, p, m)
<1> DEFINE s1 == [s EXCEPT !.other = who]
<1>1. /\ s1.state = s.state /\ s1.csp = s.csp /\ s1.choice = s.choice
      /\ s1.offer = s.offer /\ s1.info = s.info /\ s1.noob = s.noob
      /\ s1.assoc = s.assoc /\ s1.pks = s.pks /\ s1.pkp = s.pkp /\ s1.z = s.z
      /\ s1.keym = s.keym /\ s1.keypair = s.keypair /\ s1.other = who
  BY DEF Session
<1> HIDE DEF s1
<1>2. compute_mac(s1, 1) = compute_mac(s, 1) /\ compute_mac(s1, 2) = compute_mac(s, 2)
  BY <1>1 DEF compute_mac
<1>3. derive_completion(s1) = derive_completion(s)
  BY <1>1 DEF derive_completion
<1>4. InStep(s, p) => InStep(s1, p)
  BY <1>1 DEF InStep, SuiteChosen, OwnInfo, InSync, Agree
<1>5. InStep(p, s) => InStep(p, s1)
  BY <1>1 DEF InStep, SuiteChosen, OwnInfo, InSync, Agree
<1>6. \A m : ToPeer(s, p, m) => ToPeer(s1, p, m)
  BY <1>1 DEF ToPeer, Negotiated
<1>7. \A m : ToServer(p, s, m) => ToServer(p, s1, m)
  BY <1>1, <1>2 DEF ToServer, Negotiated
<1>8. \A m : ExactToPeer(s, p, m) => ExactToPeer(s1, p, m)
  BY <1>1, <1>2, <1>3 DEF ExactToPeer
<1> QED
  BY <1>1, <1>4, <1>5, <1>6, <1>7, <1>8 DEF s1

-----------------------------------------------------------------------------
(* A step of one invite leaves the others alone.                           *)

\* What PairInvOf(j) reads.
Focus(j) ==
    <<isess[j], jsess[j], create[j], submit[j], verdict[j], iconn[j], ihand[j],
      cconn[j], chand[j], ipaired[j], jpaired[j]>>

LEMMA PairFrame ==
    ASSUME NEW j \in Invites, PairInvOf(j), Focus(j)' = Focus(j)
    PROVE  PairInvOf(j)'
  BY DEF PairInvOf, Focus

LEMMA Elsewhere ==
    ASSUME TypeOK, NEW i \in Invites, Step(i) \/ Environment(i),
           NEW j \in Invites, j # i
    PROVE  Focus(j)' = Focus(j)
<1> USE DEF sessions, maps, initialX, completionX, trust, faults
<1>1. /\ DOMAIN isess = Invites /\ DOMAIN jsess = Invites /\ DOMAIN create = Invites
      /\ DOMAIN submit = Invites /\ DOMAIN verdict = Invites
      /\ DOMAIN iconn = Invites /\ DOMAIN ihand = Invites
      /\ DOMAIN cconn = Invites /\ DOMAIN chand = Invites
      /\ DOMAIN ipaired = Invites /\ DOMAIN jpaired = Invites
  BY DEF TypeOK, SessionsOK, InitialOK, CompletionOK, TrustOK
<1>2. ASSUME NEW noob \in Noobs, CreateReceives(i, noob)
      PROVE  Focus(j)' = Focus(j)
  BY <1>1, <1>2 DEF CreateReceives, Focus
<1>3. ASSUME NEW noob \in Noobs, SubmitPin(i, noob)
      PROVE  Focus(j)' = Focus(j)
  BY <1>1, <1>3 DEF SubmitPin, Focus
<1>4. CASE CreateFails(i)
  BY <1>1, <1>4 DEF CreateFails, Focus
<1>5. CASE InitialLookup(i)
  BY <1>1, <1>5 DEF InitialLookup, Focus
<1>6. CASE InitialSession(i)
  BY <1>1, <1>6 DEF InitialSession, Focus
<1>7. CASE InitialPending(i)
  BY <1>1, <1>7 DEF InitialPending, Focus
<1>8. CASE SubmitReceives(i)
  BY <1>1, <1>8 DEF SubmitReceives, Focus
<1>9. CASE SubmitFails(i)
  BY <1>1, <1>9 DEF SubmitFails, Focus
<1>10. CASE SubmitPins(i)
  BY <1>1, <1>10 DEF SubmitPins, Focus
<1>11. CASE SubmitCleanup(i)
  BY <1>1, <1>11 DEF SubmitCleanup, Focus
<1>12. CASE SubmitSignalled(i)
  BY <1>1, <1>12 DEF SubmitSignalled, Focus
<1>13. CASE CompletionLookup(i)
  BY <1>1, <1>13 DEF CompletionLookup, Focus
<1>14. CASE CompletionSession(i)
  BY <1>1, <1>14 DEF CompletionSession, Focus
<1>15. CASE CompletionPin(i)
  BY <1>1, <1>15 DEF CompletionPin, Focus
<1>16. CASE OnSignal(i)
  BY <1>1, <1>16 DEF OnSignal, Focus
<1>17. CASE CancelPending(i)
  BY <1>1, <1>17 DEF CancelPending, Focus
<1>18. CASE CreateInvite(i)
  BY <1>1, <1>18 DEF CreateInvite, Focus
<1>19. CASE CancelJoiner(i)
  BY <1>1, <1>19 DEF CancelJoiner, Focus
<1>20. CASE Decline(i)
  BY <1>1, <1>20 DEF Decline, Focus
<1>21. CASE BreakInitial(i)
  BY <1>1, <1>21 DEF BreakInitial, Focus
<1>22. CASE BreakCompletion(i)
  BY <1>1, <1>22 DEF BreakCompletion, Focus
<1>23. CASE DropInitial(i)
  BY <1>1, <1>23 DEF DropInitial, Focus
<1>24. CASE DropCompletion(i)
  BY <1>1, <1>24 DEF DropCompletion, Focus
<1>25. CASE AbandonCreate(i)
  BY <1>1, <1>25 DEF AbandonCreate, Focus
<1>26. CASE AbandonSubmit(i)
  BY <1>1, <1>26 DEF AbandonSubmit, Focus
<1> QED
  BY <1>2, <1>3, <1>4, <1>5, <1>6, <1>7, <1>8, <1>9, <1>10, <1>11, <1>12, <1>13,
     <1>14, <1>15, <1>16, <1>17, <1>18, <1>19, <1>20, <1>21, <1>22, <1>23, <1>24,
     <1>25, <1>26 DEF Step, Environment

-----------------------------------------------------------------------------
(* The steps of invite i, one lemma per group of actions.                  *)

\* A step of invite i changes no PIN, mints its only one, or enters one.
PinsStep(i) ==
    \/ isess'[i].noob = isess[i].noob /\ jsess'[i].noob = jsess[i].noob
    \/ /\ isess[i].noob = None /\ isess'[i].noob \in Noobs
       /\ jsess'[i].noob = jsess[i].noob
    \/ isess'[i].noob = isess[i].noob /\ jsess'[i].noob \in Noobs

\* What a step of invite i has to establish.
Kept(i) ==
    /\ PairInvOf(i)' /\ PinsStep(i) /\ panicked' = {}
    /\ inviters' \subseteq inviters \cup {i}
    /\ i \in inviters' => create'[i] = "made"

\* A step of the Initial Exchange that touches neither session.
LEMMA InitialOnly ==
    ASSUME PairInv, NEW i \in Invites,
           isess' = isess, jsess' = jsess, inviters' = inviters, panicked' = panicked,
           submit' = submit, verdict' = verdict, cconn' = cconn, chand' = chand,
           ipaired' = ipaired, jpaired' = jpaired,
           create'[i] = create[i] \/ (create[i] # "made" /\ create'[i] # "made"),
           InitialFlow(i, isess[i], jsess[i], create'[i], iconn'[i], ihand'[i])
    PROVE  Kept(i)
<1>1. PairInvOf(i)
  BY DEF PairInv
<1>2. create'[i] = "made" <=> create[i] = "made"
  OBVIOUS
<1>3. PinsHeld(create'[i], isess[i], jsess[i])
  BY <1>1, <1>2 DEF PairInvOf, PinsHeld
<1>4. CompletionFlow(isess[i], jsess[i], create'[i], submit[i], cconn[i], chand[i])
  <2>1. CompletionFlow(isess[i], jsess[i], create[i], submit[i], cconn[i], chand[i])
    BY <1>1 DEF PairInvOf
  <2> QED
    BY <1>2, <2>1 DEF CompletionFlow
<1>5. BlameIsRight(isess[i], jsess[i], create'[i], submit[i], verdict[i])
  BY <1>1, <1>2 DEF PairInvOf, BlameIsRight
<1>6. PairInvOf(i)'
  BY <1>1, <1>3, <1>4, <1>5 DEF PairInvOf
<1> QED
  BY <1>2, <1>6 DEF Kept, PinsStep, PairInv

LEMMA CreatePair ==
    ASSUME TypeOK, PairInv, NEW i \in Invites,
           CreateInvite(i) \/ CreateFails(i) \/ AbandonCreate(i)
           \/ BreakInitial(i) \/ DropInitial(i)
    PROVE  Kept(i)
<1> USE DEF sessions, maps, initialX, completionX, trust, faults
<1>1. /\ create \in [Invites -> CreateStates] /\ iconn \in [Invites -> Conn]
      /\ DOMAIN ihand = Invites
  BY DEF TypeOK, InitialOK
<1>2. InitialFlow(i, isess[i], jsess[i], create[i], iconn[i], ihand[i])
  BY DEF PairInv, PairInvOf
<1>3. Idle.st = "idle" /\ NoHandler.st = "none" /\ Break(iconn[i]).st = "broken"
  BY <1>1, ConnParts, HandlerParts
<1>4. CASE CreateInvite(i)
  <2> DEFINE c == Request("initial", Server_start)
  <2>1. c.st = "sent" /\ c.msg = Server_start
    BY <1>1, ConnParts
  <2>2. ToPeer(isess[i], jsess[i], Server_start) /\ Server_start # None
    BY StartMessage
  <2>3. create[i] = "idle" /\ create'[i] = "call" /\ iconn'[i] = c
    BY <1>1, <1>4 DEF CreateInvite
  <2>4. ihand' = ihand
    BY <1>4 DEF CreateInvite
  <2> HIDE DEF c
  <2>5. jsess[i] = FirstJoiner(i) /\ jsess[i].state = Unregistered /\ ihand[i].st = "none"
    BY <1>2, <2>3, FirstJoinerParts DEF InitialFlow
  <2>6. InitialFlow(i, isess[i], jsess[i], create'[i], iconn'[i], ihand'[i])
    BY <2>1, <2>2, <2>3, <2>4, <2>5 DEF InitialFlow
  <2> QED
    BY <1>4, <2>3, <2>6, InitialOnly DEF CreateInvite
<1>5. CASE CreateFails(i)
  <2>1. /\ create[i] = "call" /\ create'[i] \in {"rejected", "failed"}
        /\ iconn'[i] = Idle /\ ihand' = ihand
    BY <1>1, <1>5 DEF CreateFails
  <2>2. InitialFlow(i, isess[i], jsess[i], create'[i], iconn'[i], ihand'[i])
    BY <1>2, <1>3, <2>1 DEF InitialFlow
  <2> QED
    BY <1>5, <2>1, <2>2, InitialOnly DEF CreateFails
<1>6. CASE AbandonCreate(i)
  <2>1. /\ create[i] = "call" /\ create'[i] = "failed"
        /\ iconn'[i] = Idle /\ ihand' = ihand
    BY <1>1, <1>6 DEF AbandonCreate
  <2>2. InitialFlow(i, isess[i], jsess[i], create'[i], iconn'[i], ihand'[i])
    BY <1>2, <1>3, <2>1 DEF InitialFlow
  <2> QED
    BY <1>6, <2>1, <2>2, InitialOnly DEF AbandonCreate
<1>7. CASE BreakInitial(i)
  <2>1. /\ iconn[i].st # "idle" /\ iconn'[i] = Break(iconn[i])
        /\ create' = create /\ ihand' = ihand
    BY <1>1, <1>7 DEF BreakInitial, InFlight
  <2>2. InitialFlow(i, isess[i], jsess[i], create'[i], iconn'[i], ihand'[i])
    BY <1>2, <1>3, <2>1 DEF InitialFlow
  <2> QED
    BY <1>7, <2>1, <2>2, InitialOnly DEF BreakInitial
<1>8. CASE DropInitial(i)
  <2>1. ihand'[i] = NoHandler /\ create' = create /\ iconn' = iconn
    BY <1>1, <1>8 DEF DropInitial
  <2>2. InitialFlow(i, isess[i], jsess[i], create'[i], iconn'[i], ihand'[i])
    BY <1>2, <1>3, <2>1 DEF InitialFlow
  <2> QED
    BY <1>8, <2>1, <2>2, InitialOnly DEF DropInitial
<1> QED
  BY <1>4, <1>5, <1>6, <1>7, <1>8

\* One turn of create_invite's loop.
LEMMA CreateReceivesPair ==
    ASSUME TypeOK, PairInv, NEW i \in Invites, NEW noob \in Noobs,
           CreateReceives(i, noob)
    PROVE  Kept(i)
<1> USE DEF sessions, maps, initialX, completionX, trust, faults
<1> DEFINE s    == isess[i]
           p    == jsess[i]
           m    == iconn[i].msg
           r    == Server_receive(s, m)
           made == ~r.panic /\ r.error_code = None /\ r.done /\ OobAllowed(r.sess)
           more == ~r.panic /\ ~r.done /\ r.send # None
           s1   == IF made THEN oob_output_with(r.sess, noob) ELSE r.sess
           cr1  == IF made THEN "made" ELSE IF more THEN "call" ELSE "failed"
           ic1  == IF more THEN Request("initial", r.send) ELSE Idle
<1>1. s \in Session /\ p \in Session /\ m \in Option(Wire) /\ iconn[i] \in Conn
  BY Locals
<1>2. PairInvOf(i) /\ panicked = {}
  BY DEF PairInv
<1>3. create[i] = "call" /\ iconn[i].st = "resp" /\ iconn[i].status = 200
  BY DEF CreateReceives
<1>4. isess'[i] = s1 /\ create'[i] = cr1 /\ iconn'[i] = ic1
  BY DEF CreateReceives, TypeOK, SessionsOK, InitialOK
<1>5. inviters' = (IF made THEN inviters \cup {i} ELSE inviters)
      /\ panicked' = (IF r.panic THEN panicked \cup {i} ELSE panicked)
  BY DEF CreateReceives, Panics
<1>6. /\ jsess' = jsess /\ ihand' = ihand /\ submit' = submit /\ verdict' = verdict
      /\ cconn' = cconn /\ chand' = chand /\ ipaired' = ipaired /\ jpaired' = jpaired
  BY DEF CreateReceives
<1>7. Idle.st = "idle" /\ Request("initial", r.send).st = "sent"
      /\ Request("initial", r.send).msg = r.send
  BY <1>1, ConnParts
<1>8. noob # None
  BY ConfigAssumption
<1>9. ihand[i].st = "none" /\ s.noob = None /\ verdict[i] # "incorrect-pin"
  BY <1>2, <1>3 DEF PairInvOf, InitialFlow, PinsHeld, BlameIsRight
<1>10. r \in Outcome
  BY <1>1, ServerReceiveType
<1>11. r.sess \in Session
  BY <1>10 DEF Outcome
<1>12. /\ InStep(r.sess, p) /\ r.panic = FALSE
       /\ r.sess.info = s.info /\ r.sess.other = s.other /\ r.sess.noob = s.noob
       /\ s.state = Registered => r.sess.state = Registered /\ r.sess.assoc = s.assoc
       /\ more => /\ p.state = Unregistered /\ r.send # None
                  /\ ToPeer(r.sess, p, r.send) /\ r.send.type # 1
  <2>1. CASE m = None
    <3>1. r = fail(s)
      BY <2>1 DEF Server_receive
    <3>2. r.sess = s /\ r.panic = FALSE /\ r.done = TRUE
      BY <3>1 DEF fail, fail_code, Send
    <3> HIDE DEF r
    <3> QED
      BY <1>2, <3>2 DEF PairInvOf
  <2>2. CASE m # None
    <3>1. m \in Wire
      BY <1>1, <2>2, Message
    <3>2. ToServer(s, p, m) /\ (p.state # Unregistered => m.type = 3)
      BY <1>2, <1>3, <2>2 DEF PairInvOf, InitialFlow
    <3>3. ServerSteps(s, p, r)
      BY <1>1, <1>2, <3>1, <3>2, ServerStep DEF PairInvOf
    <3>4. r.panic = FALSE
      BY <3>3 DEF ServerSteps
    <3>5. m.type = 3 => r.done
      BY <2>2, <3>4, KeyExchangeEnds
    <3> HIDE DEF r
    <3> QED
      BY <3>2, <3>3, <3>4, <3>5 DEF ServerSteps
  <2> QED
    BY <2>1, <2>2
<1> HIDE DEF r
<1>13. made => LET t == oob_output_with(r.sess, noob) IN
         /\ InStep(t, p) /\ t.state = r.sess.state /\ t.info = r.sess.info
         /\ t.other = r.sess.other /\ t.noob = noob /\ t.assoc = r.sess.assoc
  BY <1>1, <1>11, <1>12, OutputStep DEF oob_output_with, Session
<1>14. made => r.sess.state = Waiting
  BY DEF OobAllowed
<1>15. /\ InStep(s1, p) /\ s1.info = s.info /\ s1.other = s.other
       /\ s.state = Registered => s1.state = Registered /\ s1.assoc = s.assoc
       /\ made => s1.noob = noob /\ s1.state = Waiting
       /\ ~made => s1 = r.sess
  BY <1>12, <1>13, <1>14 DEF Waiting, Registered
<1>16. made => ~more
  OBVIOUS
<1> HIDE DEF s1, made, more
<1>17. Identities(i, s1, p)
  BY <1>2, <1>15 DEF PairInvOf, Identities
<1>18. PinsHeld(cr1, s1, p)
  BY <1>2, <1>8, <1>9, <1>12, <1>15 DEF PairInvOf, PinsHeld, Waiting, Unregistered
<1>19. InitialFlow(i, s1, p, cr1, ic1, ihand[i])
  <2>1. CASE more
    BY <1>7, <1>9, <1>12, <1>15, <1>16, <2>1 DEF InitialFlow
  <2>2. CASE ~more
    BY <1>7, <1>9, <2>2 DEF InitialFlow
  <2> QED
    BY <2>1, <2>2
<1>20. CompletionFlow(s1, p, cr1, submit[i], cconn[i], chand[i])
  BY <1>2, <1>3, CompletionRests DEF PairInvOf
<1>21. PinnedIsHeld(s1, p, ipaired[i], jpaired[i])
  <2>1. PinnedIsHeld(s, p, ipaired[i], jpaired[i])
    BY <1>2 DEF PairInvOf
  <2> QED
    BY <1>15, <2>1, PinnedStays
<1>22. BlameIsRight(s1, p, cr1, submit[i], verdict[i])
  BY <1>9 DEF BlameIsRight
<1>23. PairInvOf(i)'
  BY <1>4, <1>6, <1>15, <1>17, <1>18, <1>19, <1>20, <1>21, <1>22 DEF PairInvOf
<1>24. i \in inviters' => create'[i] = "made"
  <2>1. i \notin inviters
    BY <1>3 DEF PairInv
  <2> QED
    BY <1>4, <1>5, <2>1
<1>25. PinsStep(i)
  BY <1>4, <1>6, <1>9, <1>12, <1>15 DEF PinsStep
<1> QED
  BY <1>2, <1>5, <1>12, <1>23, <1>24, <1>25 DEF Kept

\* The joiner looks an invite up: opening a session for a Type 1 request finds
\* one that is as good as new.
LEMMA InitialLookupPair ==
    ASSUME TypeOK, PairInv, NEW i \in Invites, InitialLookup(i)
    PROVE  Kept(i)
<1> USE DEF sessions, maps, initialX, completionX, trust, faults
<1> DEFINE s == isess[i]
           p == jsess[i]
           c == iconn[i]
           h == Handler("session", c.msg)
<1>1. c \in Conn /\ DOMAIN iconn = Invites /\ DOMAIN ihand = Invites
      /\ jsess \in [Invites -> Session]
  BY DEF TypeOK, InitialOK, SessionsOK
<1>2. InitialFlow(i, s, p, create[i], c, ihand[i])
  BY DEF PairInv, PairInvOf
<1>3. c.st = "sent" /\ create' = create
  BY DEF InitialLookup
<1>4. create[i] = "call" /\ ihand[i].st = "none" /\ p.state = Unregistered
      /\ c.msg # None /\ ToPeer(s, p, c.msg)
      /\ (c.msg.type = 1 => p = FirstJoiner(i))
  BY <1>2, <1>3 DEF InitialFlow
<1>5. h.st = "session" /\ h.msg = c.msg /\ Accept(c).st = "open"
  BY <1>1, ConnParts, HandlerParts
<1>6. \A status : Respond(c, status, None).st = "resp"
                  /\ Respond(c, status, None).status = status
  BY <1>1, <1>3 DEF Respond, Conn
<1>7. \/ ihand'[i] = h /\ iconn'[i] = Accept(c)
      \/ ihand' = ihand /\ iconn'[i] = Respond(c, 400, None)
      \/ ihand' = ihand /\ iconn'[i] = Respond(c, 409, None)
  BY <1>1 DEF InitialLookup
<1>8. jsess' = jsess
  <2>1. \/ jsess' = jsess
        \/ c.msg.type = 1
           /\ jsess' = [jsess EXCEPT ![i] = NewSession(<<i, "peer">>, Joiner[i])]
    BY DEF InitialLookup
  <2> QED
    BY <1>1, <1>4, <2>1 DEF FirstJoiner
<1> HIDE DEF h
<1>9. InitialFlow(i, s, p, create[i], iconn'[i], ihand'[i])
  <2>1. CASE ihand'[i] = h /\ iconn'[i] = Accept(c)
    BY <1>4, <1>5, <2>1 DEF InitialFlow
  <2>2. CASE ihand' = ihand /\ iconn'[i] = Respond(c, 400, None)
    BY <1>4, <1>6, <2>2 DEF InitialFlow
  <2>3. CASE ihand' = ihand /\ iconn'[i] = Respond(c, 409, None)
    BY <1>4, <1>6, <2>3 DEF InitialFlow
  <2> QED
    BY <1>7, <2>1, <2>2, <2>3
<1> QED
  BY <1>3, <1>8, <1>9, InitialOnly DEF InitialLookup

LEMMA InitialPendingPair ==
    ASSUME TypeOK, PairInv, NEW i \in Invites, InitialPending(i)
    PROVE  Kept(i)
<1> USE DEF sessions, maps, initialX, completionX, trust, faults
<1> DEFINE s == isess[i]
           p == jsess[i]
           c == iconn[i]
           d == Respond(c, 200, ihand[i].msg)
<1>1. c \in Conn /\ DOMAIN iconn = Invites /\ DOMAIN ihand = Invites
  BY DEF TypeOK, InitialOK
<1>2. InitialFlow(i, s, p, create[i], c, ihand[i])
  BY DEF PairInv, PairInvOf
<1>3. ihand[i].st = "pending" /\ create' = create /\ ihand'[i] = NoHandler /\ iconn'[i] = d
  BY <1>1 DEF InitialPending
<1>4. NoHandler.st = "none"
  BY HandlerParts
<1>5. \/ d = c /\ c.st # "sent" /\ c.st # "open"
      \/ c.st \in {"sent", "open"} /\ d.st = "resp" /\ d.status = 200 /\ d.msg = ihand[i].msg
  BY <1>1, RespondParts
<1> HIDE DEF d
<1>6. InitialFlow(i, s, p, create[i], d, NoHandler)
  <2>1. CASE d = c
    BY <1>2, <1>3, <1>4, <2>1 DEF InitialFlow
  <2>2. CASE d # c
    BY <1>2, <1>3, <1>4, <1>5, <2>2 DEF InitialFlow
  <2> QED
    BY <2>1, <2>2
<1> QED
  BY <1>3, <1>6, InitialOnly DEF InitialPending

\* What on_initial does: the Peer's step, and the inviter's identity captured
\* when it is valid.
LEMMA OnInitialStep ==
    ASSUME NEW i \in Invites, NEW s \in Session, NEW p \in Session, NEW m \in Wire,
           InStep(s, p), ToPeer(s, p, m), Identities(i, s, p), p.state = Unregistered
    PROVE  LET r == on_initial(p, m) IN
           /\ InStep(s, r.sess) /\ Identities(i, s, r.sess) /\ r.panic = FALSE
           /\ r.sess.state \in {Unregistered, Waiting} /\ r.sess.noob = p.noob
           /\ r.send # None => /\ ToServer(s, r.sess, r.send)
                               /\ r.sess.state # Unregistered => r.send.type = 3
<1> DEFINE o     == Peer_receive(p, m)
           first == o.sess.state = Waiting /\ o.sess.other = None
           err   == \/ o.error_code # None
                    \/ first /\ o.sess.offer.info \notin ValidInfo
           t     == [o.sess EXCEPT !.other = o.sess.offer.info]
<1>1. PeerSteps(s, p, o)
  BY PeerStep
<1>2. o.sess \in Session
  BY PeerReceiveType, Some DEF Outcome, Option
<1>3. on_initial(p, m) = [sess |-> IF first /\ ~err THEN t ELSE o.sess,
                          err |-> err, send |-> o.send, panic |-> o.panic]
  BY DEF on_initial
<1> HIDE DEF o
<1>4. /\ InStep(s, o.sess) /\ o.panic = FALSE
      /\ o.send # None => ToServer(s, o.sess, o.send)
      /\ o.sess.info = p.info /\ o.sess.other = p.other /\ o.sess.noob = p.noob
      /\ \/ o.sess.state = Unregistered
         \/ o.sess.state = Waiting /\ o.send # None /\ o.send.type = 3
  BY <1>1 DEF PeerSteps
<1>5. o.sess.state = Waiting => o.sess.offer.info = Inviter[i]
  <2> SUFFICES ASSUME o.sess.state = Waiting
               PROVE  o.sess.offer.info = Inviter[i]
    OBVIOUS
  <2>1. Negotiated(s, o.sess)
    BY <1>4 DEF ToServer, Waiting, Unregistered
  <2> QED
    BY <1>4, <2>1 DEF Negotiated, InStep, OwnInfo, Identities
<1>6. o.send # None /\ o.sess.state # Unregistered => o.send.type = 3
  BY <1>4 DEF Waiting, Unregistered
<1>7. CASE ~(first /\ ~err)
  <2>1. /\ on_initial(p, m).sess = o.sess /\ on_initial(p, m).send = o.send
        /\ on_initial(p, m).panic = o.panic
    BY <1>3, <1>7
  <2>2. Identities(i, s, o.sess)
    BY <1>4 DEF Identities
  <2> QED
    BY <1>4, <1>6, <2>1, <2>2
<1>8. CASE first /\ ~err
  <2>1. /\ on_initial(p, m).sess = t /\ on_initial(p, m).send = o.send
        /\ on_initial(p, m).panic = o.panic
    BY <1>3, <1>8
  <2>2. Inviter[i] \in ValidInfo
    BY <1>5, <1>8
  <2>3. /\ t.other = Inviter[i] /\ t.info = o.sess.info /\ t.state = o.sess.state
        /\ t.noob = o.sess.noob /\ InStep(s, t) /\ (o.send # None => ToServer(s, t, o.send))
    BY <1>2, <1>4, <1>5, <1>8, CaptureKeeps
  <2> HIDE DEF t
  <2>4. Identities(i, s, t)
    BY <1>4, <2>2, <2>3 DEF Identities
  <2> QED
    BY <1>4, <1>6, <2>1, <2>3, <2>4
<1> QED
  BY <1>7, <1>8

LEMMA InitialSessionPair ==
    ASSUME TypeOK, PairInv, NEW i \in Invites, InitialSession(i)
    PROVE  Kept(i)
<1> USE DEF sessions, maps, initialX, completionX, trust, faults
<1> DEFINE s     == isess[i]
           p     == jsess[i]
           c     == iconn[i]
           r     == on_initial(p, ihand[i].msg)
           await == ~r.panic /\ ~r.err /\ r.sess.state = Waiting /\ r.sess.other # None
           h     == IF await THEN Handler("pending", r.send) ELSE NoHandler
           d     == IF r.panic THEN Break(c)
                    ELSE IF r.err THEN Respond(c, 400, None)
                    ELSE IF await THEN c
                    ELSE Respond(c, 200, r.send)
<1>1. /\ s \in Session /\ p \in Session /\ c \in Conn
      /\ ihand[i].msg \in Option(Wire) /\ create[i] \in CreateStates
  BY Locals
<1>2. PairInvOf(i) /\ panicked = {} /\ (i \in inviters => create[i] = "made")
  BY DEF PairInv
<1>3. InitialFlow(i, s, p, create[i], c, ihand[i])
  BY <1>2 DEF PairInvOf
<1>4. ihand[i].st = "session"
  BY DEF InitialSession
<1>5. /\ p.state = Unregistered /\ ihand[i].msg # None /\ ToPeer(s, p, ihand[i].msg)
      /\ create[i] \notin {"idle", "made"} /\ c.st # "sent" /\ c.st # "resp"
      /\ (c.st # "idle" => create[i] = "call")
  BY <1>3, <1>4 DEF InitialFlow
<1>6. jsess'[i] = r.sess /\ ihand'[i] = h /\ iconn'[i] = d
  BY DEF InitialSession, TypeOK, SessionsOK, InitialOK
<1>7. /\ isess' = isess /\ create' = create /\ submit' = submit /\ verdict' = verdict
      /\ cconn' = cconn /\ chand' = chand /\ ipaired' = ipaired /\ jpaired' = jpaired
      /\ inviters' = inviters
      /\ panicked' = (IF r.panic THEN panicked \cup {i} ELSE panicked)
  BY DEF InitialSession, Panics
<1>8. ihand[i].msg \in Wire
  BY <1>1, <1>5, Message
<1>9. /\ InStep(s, r.sess) /\ Identities(i, s, r.sess) /\ r.panic = FALSE
      /\ r.sess.state \in {Unregistered, Waiting} /\ r.sess.noob = p.noob
      /\ r.send # None => /\ ToServer(s, r.sess, r.send)
                          /\ r.sess.state # Unregistered => r.send.type = 3
  BY <1>1, <1>2, <1>5, <1>8, OnInitialStep DEF PairInvOf
<1> HIDE DEF r
<1>10. NoHandler.st = "none" /\ Handler("pending", r.send).st = "pending"
       /\ Handler("pending", r.send).msg = r.send
  BY HandlerParts
<1>11. \/ Respond(c, 200, r.send) = c
       \/ /\ c.st = "open" /\ Respond(c, 200, r.send).st = "resp"
          /\ Respond(c, 200, r.send).msg = r.send
  BY <1>1, <1>5, RespondParts
<1>12. \/ Respond(c, 400, None) = c
       \/ /\ c.st = "open" /\ Respond(c, 400, None).st = "resp"
          /\ Respond(c, 400, None).status = 400
  BY <1>1, <1>5, RespondParts
<1>13. PinsHeld(create[i], s, r.sess)
  BY <1>2, <1>9 DEF PairInvOf, PinsHeld, Unregistered, Waiting, OobReceived, Registered
<1>14. InitialFlow(i, s, r.sess, create[i], d, h)
  <2>1. CASE await
    <3>1. d = c /\ h = Handler("pending", r.send)
      BY <1>9, <2>1
    <3> HIDE DEF await, d, h
    <3> QED
      BY <1>5, <1>9, <1>10, <3>1 DEF InitialFlow
  <2>2. CASE ~await /\ r.err
    <3>1. d = Respond(c, 400, None) /\ h = NoHandler
      BY <1>9, <2>2
    <3> HIDE DEF await, d, h
    <3> QED
      BY <1>5, <1>10, <1>12, <3>1 DEF InitialFlow
  <2>3. CASE ~await /\ ~r.err
    <3>1. d = Respond(c, 200, r.send) /\ h = NoHandler
      BY <1>9, <2>3
    <3> HIDE DEF await, d, h
    <3> QED
      BY <1>5, <1>9, <1>10, <1>11, <3>1 DEF InitialFlow
  <2> QED
    BY <2>1, <2>2, <2>3
<1> HIDE DEF await, h, d
<1>15. CompletionFlow(s, r.sess, create[i], submit[i], cconn[i], chand[i])
  <2>1. CompletionFlow(s, p, create[i], submit[i], cconn[i], chand[i])
    BY <1>2 DEF PairInvOf
  <2>2. submit[i] = "idle"
    BY <1>5, <2>1 DEF CompletionFlow, Unregistered, OobReceived, Registered
  <2> QED
    BY <1>5, <2>1, <2>2, CompletionRests
<1>16. PinnedIsHeld(s, r.sess, ipaired[i], jpaired[i])
  <2>1. PinnedIsHeld(s, p, ipaired[i], jpaired[i])
    BY <1>2 DEF PairInvOf
  <2> QED
    BY <1>5, <2>1 DEF PinnedIsHeld, Unregistered, Registered
<1>17. BlameIsRight(s, r.sess, create[i], submit[i], verdict[i])
  BY <1>2, <1>5 DEF PairInvOf, BlameIsRight
<1>18. PairInvOf(i)'
  BY <1>6, <1>7, <1>9, <1>13, <1>14, <1>15, <1>16, <1>17 DEF PairInvOf
<1> QED
  BY <1>2, <1>5, <1>6, <1>7, <1>9, <1>18 DEF Kept, PinsStep

\* A step of the Completion Exchange that touches neither session nor pins.
LEMMA CompletionOnly ==
    ASSUME PairInv, NEW i \in Invites,
           isess' = isess, jsess' = jsess, inviters' \subseteq inviters,
           panicked' = panicked, create' = create, iconn' = iconn, ihand' = ihand,
           ipaired' = ipaired, jpaired' = jpaired,
           CompletionFlow(isess[i], jsess[i], create[i], submit'[i], cconn'[i], chand'[i]),
           verdict'[i] = "incorrect-pin" =>
              verdict[i] = "incorrect-pin" /\ submit'[i] # "idle"
    PROVE  Kept(i)
<1>1. PairInvOf(i)
  BY DEF PairInv
<1>2. BlameIsRight(isess[i], jsess[i], create[i], submit'[i], verdict'[i])
  BY <1>1 DEF PairInvOf, BlameIsRight
<1>3. PairInvOf(i)'
  BY <1>1, <1>2 DEF PairInvOf
<1> QED
  BY <1>3 DEF Kept, PinsStep, PairInv

\* The steps of submit_pin, of the inviter's handlers and of the network that
\* only move the connection on.
LEMMA CompletionPair ==
    ASSUME TypeOK, PairInv, NEW i \in Invites,
           SubmitFails(i) \/ SubmitCleanup(i) \/ SubmitSignalled(i)
           \/ CompletionLookup(i) \/ OnSignal(i) \/ BreakCompletion(i)
           \/ DropCompletion(i) \/ AbandonSubmit(i)
    PROVE  Kept(i)
<1> USE DEF sessions, maps, initialX, completionX, trust, faults
<1> DEFINE s == isess[i]
           p == jsess[i]
           c == cconn[i]
           Good == CompletionFlow(s, p, create[i], submit'[i], cconn'[i], chand'[i])
<1>1. /\ submit \in [Invites -> SubmitStates] /\ cconn \in [Invites -> Conn]
      /\ DOMAIN verdict = Invites /\ DOMAIN chand = Invites
  BY DEF TypeOK, CompletionOK
<1>2. CompletionFlow(s, p, create[i], submit[i], c, chand[i])
  BY DEF PairInv, PairInvOf
<1>3. verdict[i] = "incorrect-pin" => submit[i] # "idle"
  BY DEF PairInv, PairInvOf, BlameIsRight
<1>4. /\ Idle.st = "idle" /\ NoHandler.st = "none" /\ Break(c).st = "broken"
      /\ Accept(c).st = "open" /\ c \in Conn
      /\ Request("ack", None).st = "sent" /\ Request("ack", None).phase = "ack"
      /\ Request("ack", None).msg = None
  BY <1>1, ConnParts, HandlerParts
<1>5. ASSUME NEW status
      PROVE  Respond(c, status, None) = c
             \/ (Respond(c, status, None).st = "resp" /\ Respond(c, status, None).msg = None)
  BY <1>4, RespondParts
<1>6. Handler("session", c.msg).st = "session" /\ Handler("session", c.msg).msg = c.msg
  BY HandlerParts
<1>7. CASE SubmitFails(i)
  <2>1. /\ submit[i] = "call" /\ submit'[i] = "failed" /\ cconn'[i] = Idle
        /\ chand' = chand /\ verdict'[i] = "error"
    BY <1>1, <1>7 DEF SubmitFails
  <2>2. Good
    BY <1>2, <1>4, <2>1 DEF CompletionFlow
  <2> QED
    BY <1>3, <1>7, <2>1, <2>2, CompletionOnly DEF SubmitFails
<1>8. CASE SubmitSignalled(i)
  <2>1. /\ submit[i] # "idle" /\ submit'[i] \in {"failclean", "done"}
        /\ cconn'[i] = Idle /\ chand' = chand /\ verdict' = verdict
    BY <1>1, <1>8 DEF SubmitSignalled
  <2>2. Good
    BY <1>2, <1>4, <2>1 DEF CompletionFlow
  <2> QED
    BY <1>3, <1>8, <2>1, <2>2, CompletionOnly DEF SubmitSignalled
<1>9. CASE AbandonSubmit(i)
  <2>1. /\ submit[i] # "idle" /\ submit'[i] = "failed"
        /\ cconn'[i] = Idle /\ chand' = chand /\ verdict' = verdict
    BY <1>1, <1>9 DEF AbandonSubmit
  <2>2. Good
    BY <1>2, <1>4, <2>1 DEF CompletionFlow
  <2> QED
    BY <1>3, <1>9, <2>1, <2>2, CompletionOnly DEF AbandonSubmit
<1>10. CASE SubmitCleanup(i)
  <2>1. /\ chand' = chand /\ verdict' = verdict
        /\ \/ submit[i] = "clean" /\ submit'[i] = "ack" /\ cconn'[i] = Request("ack", None)
           \/ submit[i] = "failclean" /\ submit'[i] = "failed" /\ cconn'[i] = c
    BY <1>1, <1>10 DEF SubmitCleanup
  <2>2. Good
    BY <1>2, <1>4, <2>1 DEF CompletionFlow
  <2> QED
    BY <1>3, <1>10, <2>1, <2>2, CompletionOnly DEF SubmitCleanup
<1>11. CASE BreakCompletion(i)
  <2>1. submit' = submit /\ cconn'[i] = Break(c) /\ chand' = chand /\ verdict' = verdict
    BY <1>1, <1>11 DEF BreakCompletion
  <2>2. Good
    BY <1>2, <1>4, <2>1 DEF CompletionFlow
  <2> QED
    BY <1>3, <1>11, <2>1, <2>2, CompletionOnly DEF BreakCompletion
<1>12. CASE DropCompletion(i)
  <2>1. submit' = submit /\ cconn' = cconn /\ chand'[i] = NoHandler /\ verdict' = verdict
    BY <1>1, <1>12 DEF DropCompletion
  <2>2. Good
    BY <1>2, <1>4, <2>1 DEF CompletionFlow
  <2> QED
    BY <1>3, <1>12, <2>1, <2>2, CompletionOnly DEF DropCompletion
<1>13. CASE CompletionLookup(i)
  <2>1. submit' = submit /\ verdict' = verdict /\ c.st = "sent" /\ c.phase = "completion"
    BY <1>13 DEF CompletionLookup
  <2>2. CASE i \in inviters
    <3>1. chand'[i] = Handler("session", c.msg) /\ cconn'[i] = Accept(c)
      BY <1>1, <1>13, <2>2 DEF CompletionLookup
    <3>2. create[i] = "made"
      BY <2>2 DEF PairInv
    <3>3. Good
      BY <1>2, <1>4, <1>6, <2>1, <3>1, <3>2 DEF CompletionFlow
    <3> QED
      BY <1>3, <1>13, <2>1, <3>3, CompletionOnly DEF CompletionLookup
  <2>3. CASE i \notin inviters
    <3>1. chand' = chand /\ cconn'[i] = Respond(c, 409, None)
      BY <1>1, <1>13, <2>3 DEF CompletionLookup
    <3>2. Good
      BY <1>2, <1>4, <1>5, <2>1, <3>1 DEF CompletionFlow
    <3> QED
      BY <1>3, <1>13, <2>1, <3>2, CompletionOnly DEF CompletionLookup
  <2> QED
    BY <2>2, <2>3
<1>14. CASE OnSignal(i)
  <2>1. submit' = submit /\ verdict' = verdict /\ c.st = "sent" /\ chand' = chand
        /\ cconn'[i] = Respond(c, 200, None) /\ inviters' \subseteq inviters
    BY <1>1, <1>14 DEF OnSignal
  <2>2. Good
    BY <1>2, <1>4, <1>5, <2>1 DEF CompletionFlow
  <2> QED
    BY <1>3, <1>14, <2>1, <2>2, CompletionOnly DEF OnSignal
<1> QED
  BY <1>7, <1>8, <1>9, <1>10, <1>11, <1>12, <1>13, <1>14

\* The signals of other implementations only remove entries of the maps.
LEMMA SignalPair ==
    ASSUME TypeOK, PairInv, NEW i \in Invites,
           CancelJoiner(i) \/ CancelPending(i) \/ Decline(i)
    PROVE  Kept(i)
<1> USE DEF sessions, maps, initialX, completionX, trust, faults
<1>1. Focus(i)' = Focus(i) /\ panicked' = panicked /\ create' = create
      /\ inviters' \subseteq inviters
  BY DEF CancelJoiner, CancelPending, Decline, Focus
<1>2. PairInvOf(i)'
  BY <1>1, PairFrame DEF PairInv
<1> QED
  BY <1>1, <1>2 DEF Kept, PinsStep, PairInv, Focus

\* A PIN is entered: the joiner is Waiting, so this is its first.
LEMMA SubmitPinPair ==
    ASSUME TypeOK, PairInv, NEW i \in Invites, NEW noob \in Noobs, SubmitPin(i, noob)
    PROVE  Kept(i)
<1> USE DEF sessions, maps, initialX, completionX, trust, faults
<1> DEFINE s == isess[i]
           p == jsess[i]
           t == oob_input_noob(p, noob)
           c == Request("completion", None)
<1>1. s \in Session /\ p \in Session /\ cconn[i] \in Conn
  BY Locals
<1>2. PairInvOf(i) /\ panicked = {} /\ (i \in inviters => create[i] = "made")
  BY DEF PairInv
<1>3. p.state = Waiting /\ p.other # None /\ OobAllowed(p)
  BY DEF SubmitPin, OobAllowed
<1>4. jsess'[i] = t /\ submit'[i] = "call" /\ verdict'[i] = "none" /\ cconn'[i] = c
  BY DEF SubmitPin, TypeOK, SessionsOK, CompletionOK
<1>5. /\ isess' = isess /\ create' = create /\ iconn' = iconn /\ ihand' = ihand
      /\ chand' = chand /\ ipaired' = ipaired /\ jpaired' = jpaired
      /\ inviters' = inviters /\ panicked' = panicked
  BY DEF SubmitPin
<1>6. c.st = "sent" /\ c.msg = None
  BY <1>1, ConnParts
<1>7. noob # None
  BY ConfigAssumption
<1>8. /\ InStep(s, t)
      /\ \A m : ToServer(s, p, m) => ToServer(s, t, m)
  BY <1>1, <1>2, <1>3, InputStep DEF PairInvOf
<1>9. /\ t.info = p.info /\ t.other = p.other /\ t.noob = noob /\ t.state = OobReceived
  BY <1>1 DEF oob_input_noob, Session
<1> HIDE DEF t, c
<1>10. Identities(i, s, t)
  BY <1>2, <1>9 DEF PairInvOf, Identities
<1>11. PinsHeld(create[i], s, t)
  BY <1>2, <1>3, <1>7, <1>9 DEF PairInvOf, PinsHeld
<1>12. InitialFlow(i, s, t, create[i], iconn[i], ihand[i])
  <2>1. InitialFlow(i, s, p, create[i], iconn[i], ihand[i])
    BY <1>2 DEF PairInvOf
  <2>2. p.state # Unregistered /\ p # FirstJoiner(i)
    BY <1>3, FirstJoinerParts DEF Waiting, Unregistered
  <2> QED
    BY <1>8, <2>1, <2>2 DEF InitialFlow
<1>13. CompletionFlow(s, t, create[i], "call", c, chand[i])
  <2>1. CompletionFlow(s, p, create[i], submit[i], cconn[i], chand[i])
    BY <1>2 DEF PairInvOf
  <2>2. submit[i] = "idle"
    BY <1>3, <2>1 DEF CompletionFlow, Waiting, OobReceived, Registered
  <2>3. chand[i].st = "none"
    BY <2>1, <2>2 DEF CompletionFlow
  <2> QED
    BY <1>6, <1>9, <2>3 DEF CompletionFlow
<1>14. PinnedIsHeld(s, t, ipaired[i], jpaired[i])
  <2>1. PinnedIsHeld(s, p, ipaired[i], jpaired[i])
    BY <1>2 DEF PairInvOf
  <2> QED
    BY <1>3, <2>1 DEF PinnedIsHeld, Waiting, Registered
<1>15. BlameIsRight(s, t, create[i], "call", "none")
  BY DEF BlameIsRight
<1>16. PairInvOf(i)'
  BY <1>4, <1>5, <1>8, <1>10, <1>11, <1>12, <1>13, <1>14, <1>15 DEF PairInvOf
<1> QED
  BY <1>2, <1>4, <1>5, <1>9, <1>16 DEF Kept, PinsStep

\* One turn of submit_pin's loop.
LEMMA SubmitReceivesPair ==
    ASSUME TypeOK, PairInv, NEW i \in Invites, SubmitReceives(i)
    PROVE  Kept(i)
<1> USE DEF sessions, maps, initialX, completionX, trust, faults
<1> DEFINE s     == isess[i]
           p     == jsess[i]
           m     == cconn[i].msg
           r     == Peer_receive(p, m)
           auth  == r.error_code # None /\ is_wrong_pin_code(r.error_code)
           stall == r.panic \/ (~r.done /\ r.send = None)
           su1   == IF stall THEN "failed" ELSE IF ~r.done THEN "call"
                    ELSE IF r.success THEN "pin" ELSE "fail"
           v1    == IF auth THEN "incorrect-pin"
                    ELSE IF stall \/ (r.done /\ ~r.success) THEN "error" ELSE verdict[i]
           c1    == IF stall \/ r.success THEN Idle
                    ELSE IF r.done THEN Request("fail", None)
                    ELSE Request("completion", r.send)
<1>1. s \in Session /\ p \in Session /\ cconn[i] \in Conn /\ m \in Option(Wire)
  BY Locals
<1>2. PairInvOf(i) /\ panicked = {} /\ (i \in inviters => create[i] = "made")
  BY DEF PairInv
<1>3. submit[i] = "call" /\ cconn[i].st = "resp"
  BY DEF SubmitReceives
<1>4. jsess'[i] = r.sess /\ submit'[i] = su1 /\ verdict'[i] = v1 /\ cconn'[i] = c1
  BY DEF SubmitReceives, TypeOK, SessionsOK, CompletionOK
<1>5. /\ isess' = isess /\ create' = create /\ iconn' = iconn /\ ihand' = ihand
      /\ chand' = chand /\ ipaired' = ipaired /\ jpaired' = jpaired
      /\ inviters' = inviters
      /\ panicked' = (IF r.panic THEN panicked \cup {i} ELSE panicked)
  BY DEF SubmitReceives, Panics
<1>6. CompletionFlow(s, p, create[i], submit[i], cconn[i], chand[i])
  BY <1>2 DEF PairInvOf
<1>7. /\ p.state \in {OobReceived, Registered} /\ chand[i].st = "none"
      /\ m # None => create[i] = "made" /\ ToPeer(s, p, m) /\ ExactToPeer(s, p, m)
  BY <1>3, <1>6 DEF CompletionFlow
<1>8. /\ InStep(s, r.sess) /\ r.panic = FALSE
      /\ r.sess.info = p.info /\ r.sess.other = p.other /\ r.sess.noob = p.noob
      /\ r.sess.state \in {OobReceived, Registered}
      /\ r.success = TRUE => r.sess.state = Registered
      /\ p.state = Registered => r.sess.state = Registered /\ r.sess.assoc = p.assoc
      /\ r.sess = p \/ create[i] = "made"
      /\ r.done = FALSE /\ r.send # None =>
            create[i] = "made" /\ ToServer(s, r.sess, r.send)
            /\ ExactToServer(s, r.sess, r.send)
      /\ auth => create[i] = "made" /\ s.noob # p.noob
      /\ r.done \in BOOLEAN /\ r.success \in BOOLEAN
  <2>1. CASE m = None
    <3>1. r = fail(p)
      BY <2>1 DEF Peer_receive
    <3>2. /\ r.sess = p /\ r.panic = FALSE /\ r.done = TRUE /\ r.success = FALSE
          /\ r.error_code = INVALID_DATA
      BY <3>1 DEF fail, fail_code, Send
    <3>3. ~is_wrong_pin_code(INVALID_DATA)
      BY DEF is_wrong_pin_code, INVALID_DATA, UNRECOGNIZED_OOB_MSG_ID,
             HMAC_VERIFICATION_FAILED
    <3> HIDE DEF r
    <3> QED
      BY <1>2, <1>7, <3>2, <3>3 DEF PairInvOf
  <2>2. CASE m # None
    <3>1. m \in Wire
      BY <1>1, <2>2, Message
    <3>2. r \in Outcome
      BY <1>1, PeerReceiveType
    <3>3. PeerSteps(s, p, r)
      BY <1>1, <1>2, <1>7, <2>2, <3>1, PeerStep DEF PairInvOf
    <3>4. /\ r.send # None => ExactToServer(s, r.sess, r.send)
          /\ BlamesRightly(s, p, r)
      BY <1>1, <1>2, <1>7, <2>2, <3>1, PeerExact DEF PairInvOf
    <3>5. s.state # Unregistered
      BY <1>2, <1>7, <2>2 DEF PairInvOf, PinsHeld
    <3> HIDE DEF r
    <3>6. r.done \in BOOLEAN /\ r.success \in BOOLEAN
      BY <3>2 DEF Outcome
    <3> QED
      BY <1>7, <2>2, <3>3, <3>4, <3>5, <3>6 DEF PeerSteps, BlamesRightly
  <2> QED
    BY <2>1, <2>2
<1> HIDE DEF r
<1>9. /\ Idle.st = "idle"
      /\ Request("fail", None).st = "sent" /\ Request("fail", None).msg = None
      /\ Request("fail", None).phase = "fail"
      /\ Request("completion", r.send).st = "sent"
      /\ Request("completion", r.send).msg = r.send
  BY <1>1, ConnParts
<1>10. Identities(i, s, r.sess)
  BY <1>2, <1>8 DEF PairInvOf, Identities
<1>11. PinsHeld(create[i], s, r.sess)
  BY <1>2, <1>7, <1>8 DEF PairInvOf, PinsHeld
<1>12. InitialFlow(i, s, r.sess, create[i], iconn[i], ihand[i])
  <2>1. InitialFlow(i, s, p, create[i], iconn[i], ihand[i])
    BY <1>2 DEF PairInvOf
  <2> QED
    BY <1>8, <2>1, InitialRests
<1>13. CompletionFlow(s, r.sess, create[i], su1, c1, chand[i])
  <2>1. /\ su1 # "idle" /\ su1 # "clean"
        /\ su1 = "pin" => r.success = TRUE
        /\ \/ c1.st = "idle"
           \/ c1.st = "sent" /\ c1.msg = None /\ c1.phase = "fail"
           \/ /\ c1.st = "sent" /\ c1.msg = r.send /\ su1 = "call"
              /\ r.done = FALSE
    BY <1>8, <1>9
  <2> HIDE DEF su1, c1
  <2> QED
    BY <1>7, <1>8, <2>1 DEF CompletionFlow
<1>14. PinnedIsHeld(s, r.sess, ipaired[i], jpaired[i])
  <2>1. PinnedIsHeld(s, p, ipaired[i], jpaired[i])
    BY <1>2 DEF PairInvOf
  <2> QED
    BY <1>8, <2>1, PinnedStays
<1>15. BlameIsRight(s, r.sess, create[i], su1, v1)
  <2>1. BlameIsRight(s, p, create[i], submit[i], verdict[i])
    BY <1>2 DEF PairInvOf
  <2>2. su1 # "idle" /\ (v1 = "incorrect-pin" => auth \/ v1 = verdict[i])
    OBVIOUS
  <2> HIDE DEF auth, su1, v1
  <2> QED
    BY <1>8, <2>1, <2>2 DEF BlameIsRight
<1> HIDE DEF auth, stall, su1, v1, c1
<1>16. PairInvOf(i)'
  BY <1>4, <1>5, <1>8, <1>10, <1>11, <1>12, <1>13, <1>14, <1>15 DEF PairInvOf
<1> QED
  BY <1>2, <1>4, <1>5, <1>8, <1>16 DEF Kept, PinsStep

\* What on_completion does: the Server's step, and the joiner's identity
\* captured when it is valid.
LEMMA OnCompletionStep ==
    ASSUME NEW i \in Invites, NEW s \in Session, NEW p \in Session, NEW m \in Wire,
           InStep(s, p), ToServer(s, p, m), ExactToServer(s, p, m), Identities(i, s, p)
    PROVE  LET r == on_completion(s, m) IN
           /\ InStep(r.sess, p) /\ Identities(i, r.sess, p) /\ r.panic = FALSE
           /\ r.send # None => ToPeer(r.sess, p, r.send) /\ ExactToPeer(r.sess, p, r.send)
           /\ r.sess.noob = s.noob
           /\ s.state # Unregistered => r.sess.state # Unregistered
           /\ s.state = Registered => r.sess.state = Registered /\ r.sess.assoc = s.assoc
           /\ s.other # None => r.sess.other = s.other
           /\ r.paired => r.sess.state = Registered /\ r.sess.other # None
<1> DEFINE o     == Server_receive(s, m)
           first == o.sess.state = Registered /\ o.sess.other = None
           err   == first /\ o.sess.choice.info \notin ValidInfo
           t     == [o.sess EXCEPT !.other = o.sess.choice.info]
           x     == IF first /\ ~err THEN t ELSE o.sess
           r     == on_completion(s, m)
<1>1. ServerSteps(s, p, o) /\ (o.send # None => ExactToPeer(o.sess, p, o.send))
  BY ServerStep, ServerExact
<1>2. o \in Outcome
  BY ServerReceiveType, Some DEF Option
<1>3. r = [sess |-> x, err |-> err, send |-> o.send, panic |-> o.panic,
           paired |-> /\ ~err /\ o.done /\ o.success
                      /\ x.other # None /\ x.assoc # {}]
  BY DEF on_completion
<1> HIDE DEF o, r
<1>4. o.sess \in Session /\ o.success \in BOOLEAN
  BY <1>2 DEF Outcome
<1>5. /\ InStep(o.sess, p) /\ o.panic = FALSE
      /\ o.send # None => ToPeer(o.sess, p, o.send) /\ ExactToPeer(o.sess, p, o.send)
      /\ o.sess.info = s.info /\ o.sess.other = s.other /\ o.sess.noob = s.noob
      /\ s.state # Unregistered => o.sess.state # Unregistered
      /\ o.success = TRUE => o.sess.state = Registered
      /\ s.state = Registered => o.sess.state = Registered /\ o.sess.assoc = s.assoc
  BY <1>1 DEF ServerSteps
<1>6. o.sess.state = Registered => o.sess.choice.info = Joiner[i]
  <2> SUFFICES ASSUME o.sess.state = Registered
               PROVE  o.sess.choice.info = Joiner[i]
    OBVIOUS
  <2>1. p.choice # None /\ o.sess.choice = p.choice /\ OwnInfo(o.sess, p)
    BY <1>5 DEF InStep, InSync, Registered, Unregistered
  <2> QED
    BY <2>1 DEF OwnInfo, Identities
<1>7. /\ InStep(x, p) /\ Identities(i, x, p)
      /\ o.send # None => ToPeer(x, p, o.send) /\ ExactToPeer(x, p, o.send)
      /\ x.noob = o.sess.noob /\ x.state = o.sess.state /\ x.assoc = o.sess.assoc
      /\ s.other # None => x.other = s.other
  <2>1. CASE ~(first /\ ~err)
    <3>1. x = o.sess
      BY <2>1
    <3> HIDE DEF x
    <3>2. Identities(i, o.sess, p)
      BY <1>5 DEF Identities
    <3> QED
      BY <1>5, <3>1, <3>2
  <2>2. CASE first /\ ~err
    <3>1. x = t
      BY <2>2
    <3>2. Joiner[i] \in ValidInfo
      BY <1>6, <2>2
    <3>3. /\ t.other = Joiner[i] /\ t.info = o.sess.info /\ t.noob = o.sess.noob
          /\ t.state = o.sess.state /\ t.assoc = o.sess.assoc /\ InStep(t, p)
          /\ o.send # None => ToPeer(t, p, o.send) /\ ExactToPeer(t, p, o.send)
      BY <1>4, <1>5, <1>6, <2>2, CaptureKeeps
    <3> HIDE DEF t, x
    <3>4. Identities(i, t, p)
      BY <1>5, <3>2, <3>3 DEF Identities
    <3> QED
      BY <1>5, <2>2, <3>1, <3>3, <3>4
  <2> QED
    BY <2>1, <2>2
<1> HIDE DEF x, err
<1>8. r.sess = x /\ r.send = o.send /\ r.panic = o.panic
      /\ (r.paired => o.success /\ x.other # None)
  BY <1>3
<1> QED
  BY <1>4, <1>5, <1>7, <1>8 DEF r

LEMMA CompletionSessionPair ==
    ASSUME TypeOK, PairInv, NEW i \in Invites, CompletionSession(i)
    PROVE  Kept(i)
<1> USE DEF sessions, maps, initialX, completionX, trust, faults
<1> DEFINE s == isess[i]
           p == jsess[i]
           c == cconn[i]
           m == chand[i].msg
<1>1. s \in Session /\ p \in Session /\ c \in Conn /\ m \in Option(Wire)
  BY Locals
<1>2. PairInvOf(i) /\ panicked = {} /\ (i \in inviters => create[i] = "made")
  BY DEF PairInv
<1>3. CompletionFlow(s, p, create[i], submit[i], c, chand[i])
  BY <1>2 DEF PairInvOf
<1>4. chand[i].st = "session"
  BY DEF CompletionSession
<1>5. /\ create[i] = "made" /\ submit[i] # "idle" /\ c.st # "sent" /\ c.st # "resp"
      /\ submit[i] \notin {"pin", "clean"} /\ p.state \in {OobReceived, Registered}
      /\ m # None => ToServer(s, p, m) /\ ExactToServer(s, p, m)
  BY <1>3, <1>4 DEF CompletionFlow
<1>6. /\ jsess' = jsess /\ create' = create /\ submit' = submit /\ verdict' = verdict
      /\ iconn' = iconn /\ ihand' = ihand /\ ipaired' = ipaired /\ jpaired' = jpaired
      /\ inviters' = inviters
  BY DEF CompletionSession
<1>7. NoHandler.st = "none"
  BY HandlerParts
<1>8. CASE m = None
  <2> DEFINE d == Respond(c, 200, Server_start)
  <2>1. isess' = isess /\ panicked' = panicked /\ cconn'[i] = d /\ chand'[i] = NoHandler
    BY <1>8 DEF CompletionSession, TypeOK, CompletionOK
  <2>2. d = c \/ (d.st = "resp" /\ d.msg = Server_start)
    BY <1>1, RespondParts
  <2>3. ToPeer(s, p, Server_start) /\ ExactToPeer(s, p, Server_start)
    BY StartMessage
  <2> HIDE DEF d
  <2>4. CompletionFlow(s, p, create[i], submit[i], d, NoHandler)
    BY <1>5, <1>7, <2>2, <2>3 DEF CompletionFlow
  <2> QED
    BY <1>5, <1>6, <2>1, <2>4, CompletionOnly
<1>9. CASE m # None
  <2> DEFINE r == on_completion(s, m)
             h == IF r.paired THEN Handler("pin", r.send) ELSE NoHandler
             d == IF r.panic THEN Break(c) ELSE IF r.err THEN Respond(c, 400, None)
                  ELSE IF r.paired THEN c ELSE Respond(c, 200, r.send)
  <2>1. isess'[i] = r.sess /\ chand'[i] = h /\ cconn'[i] = d
        /\ panicked' = (IF r.panic THEN panicked \cup {i} ELSE panicked)
    BY <1>9 DEF CompletionSession, Panics, TypeOK, SessionsOK, CompletionOK
  <2>2. m \in Wire
    BY <1>1, <1>9, Message
  <2>3. /\ InStep(r.sess, p) /\ Identities(i, r.sess, p) /\ r.panic = FALSE
        /\ r.send # None => ToPeer(r.sess, p, r.send) /\ ExactToPeer(r.sess, p, r.send)
        /\ r.sess.noob = s.noob
        /\ s.state # Unregistered => r.sess.state # Unregistered
        /\ s.state = Registered => r.sess.state = Registered /\ r.sess.assoc = s.assoc
        /\ s.other # None => r.sess.other = s.other
        /\ r.paired => r.sess.state = Registered /\ r.sess.other # None
    BY <1>1, <1>2, <1>5, <1>9, <2>2, OnCompletionStep DEF PairInvOf
  <2> HIDE DEF r
  <2>4. Handler("pin", r.send).st = "pin" /\ Handler("pin", r.send).msg = r.send
    BY HandlerParts
  <2>5. /\ Respond(c, 400, None) = c
           \/ (Respond(c, 400, None).st = "resp" /\ Respond(c, 400, None).msg = None)
        /\ Respond(c, 200, r.send) = c
           \/ (Respond(c, 200, r.send).st = "resp" /\ Respond(c, 200, r.send).msg = r.send)
    BY <1>1, RespondParts
  <2>6. /\ d = c \/ (d.st = "resp" /\ d.msg = None /\ ~r.paired)
              \/ (d.st = "resp" /\ d.msg = r.send /\ ~r.paired)
              \/ (d.st = "resp" /\ d.msg = None /\ r.err)
        /\ (r.paired /\ ~r.err => d = c)
    BY <2>3, <2>5
  <2>7. r.paired => ~r.err
    BY DEF on_completion, r
  <2>8. h = NoHandler \/ (r.paired /\ h.st = "pin" /\ h.msg = r.send)
    BY <2>4
  <2> HIDE DEF h, d
  <2>9. CompletionFlow(r.sess, p, create[i], submit[i], d, h)
    BY <1>5, <1>7, <2>3, <2>6, <2>7, <2>8 DEF CompletionFlow
  <2>10. PinsHeld(create[i], r.sess, p)
    BY <1>2, <1>5, <2>3 DEF PairInvOf, PinsHeld
  <2>11. InitialFlow(i, r.sess, p, create[i], iconn[i], ihand[i])
    <3>1. InitialFlow(i, s, p, create[i], iconn[i], ihand[i])
      BY <1>2 DEF PairInvOf
    <3> QED
      BY <1>5, <3>1, InitialRests
  <2>12. PinnedIsHeld(r.sess, p, ipaired[i], jpaired[i])
    <3>1. PinnedIsHeld(s, p, ipaired[i], jpaired[i])
      BY <1>2 DEF PairInvOf
    <3> QED
      BY <2>3, <3>1, PinnedStays
  <2>13. BlameIsRight(r.sess, p, create[i], submit[i], verdict[i])
    BY <1>2, <2>3 DEF PairInvOf, BlameIsRight
  <2>14. PairInvOf(i)'
    BY <1>6, <2>1, <2>3, <2>9, <2>10, <2>11, <2>12, <2>13 DEF PairInvOf
  <2> QED
    BY <1>2, <1>6, <2>1, <2>3, <2>14 DEF Kept, PinsStep
<1> QED
  BY <1>8, <1>9

\* The two calls of TrustSink::pin_peer: each pins what its session holds.
LEMMA PinPair ==
    ASSUME TypeOK, PairInv, NEW i \in Invites, SubmitPins(i) \/ CompletionPin(i)
    PROVE  Kept(i)
<1> USE DEF sessions, maps, initialX, completionX, trust, faults
<1> DEFINE s == isess[i]
           p == jsess[i]
           c == cconn[i]
           d == Respond(c, 200, chand[i].msg)
<1>1. c \in Conn
  BY Locals
<1>2. PairInvOf(i) /\ panicked = {} /\ (i \in inviters => create[i] = "made")
  BY DEF PairInv
<1>3. /\ CompletionFlow(s, p, create[i], submit[i], c, chand[i])
      /\ PinsHeld(create[i], s, p) /\ PinnedIsHeld(s, p, ipaired[i], jpaired[i])
      /\ BlameIsRight(s, p, create[i], submit[i], verdict[i])
  BY <1>2 DEF PairInvOf
<1>4. CASE SubmitPins(i)
  <2>1. /\ submit[i] = "pin" /\ submit'[i] = "clean" /\ jpaired'[i] = PairedOf(p)
        /\ isess' = isess /\ jsess' = jsess /\ create' = create /\ verdict' = verdict
        /\ iconn' = iconn /\ ihand' = ihand /\ cconn' = cconn /\ chand' = chand
        /\ ipaired' = ipaired /\ inviters' = inviters /\ panicked' = panicked
    BY <1>4 DEF SubmitPins, TypeOK, CompletionOK, TrustOK
  <2>2. p.state = Registered /\ p.other # None
    BY <1>3, <2>1 DEF CompletionFlow, PinsHeld
  <2>3. CompletionFlow(s, p, create[i], "clean", c, chand[i])
    BY <1>3, <2>1 DEF CompletionFlow
  <2>4. PinnedIsHeld(s, p, ipaired[i], PairedOf(p))
    BY <1>3, <2>2 DEF PinnedIsHeld
  <2>5. BlameIsRight(s, p, create[i], "clean", verdict[i])
    BY <1>3 DEF BlameIsRight
  <2>6. PairInvOf(i)'
    BY <1>2, <2>1, <2>3, <2>4, <2>5 DEF PairInvOf
  <2> QED
    BY <1>2, <2>1, <2>6 DEF Kept, PinsStep
<1>5. CASE CompletionPin(i)
  <2>1. /\ chand[i].st = "pin" /\ chand'[i] = NoHandler /\ cconn'[i] = d
        /\ ipaired'[i] = PairedOf(s)
        /\ isess' = isess /\ jsess' = jsess /\ create' = create /\ verdict' = verdict
        /\ iconn' = iconn /\ ihand' = ihand /\ submit' = submit
        /\ jpaired' = jpaired /\ inviters' = inviters /\ panicked' = panicked
    BY <1>5 DEF CompletionPin, TypeOK, CompletionOK, TrustOK
  <2>2. NoHandler.st = "none"
    BY HandlerParts
  <2>3. d = c \/ (d.st = "resp" /\ d.msg = chand[i].msg)
    BY <1>1, RespondParts
  <2> HIDE DEF d
  <2>4. CompletionFlow(s, p, create[i], submit[i], d, NoHandler)
    BY <1>3, <2>1, <2>2, <2>3 DEF CompletionFlow
  <2>5. PinnedIsHeld(s, p, PairedOf(s), jpaired[i])
    BY <1>3, <2>1 DEF PinnedIsHeld, CompletionFlow
  <2>6. PairInvOf(i)'
    BY <1>2, <2>1, <2>4, <2>5 DEF PairInvOf
  <2> QED
    BY <1>2, <2>1, <2>6 DEF Kept, PinsStep
<1> QED
  BY <1>4, <1>5

\* A node restarts: its tasks and connections are gone, which only loses
\* messages.
LEMMA RestartPair ==
    ASSUME TypeOK, PairInv, NEW n \in Nodes, Restarted(n)
    PROVE  PairInv'
<1> USE DEF sessions
<1>1. /\ isess' = isess /\ jsess' = jsess /\ verdict' = verdict /\ ipaired' = ipaired
      /\ jpaired' = jpaired /\ panicked' = panicked /\ inviters' \subseteq inviters
  BY DEF Restarted, Restart
<1>2. ASSUME NEW i \in Invites
      PROVE  PairInvOf(i)' /\ (create[i] = "made" => create'[i] = "made")
  <2> DEFINE s == isess[i]
             p == jsess[i]
  <2>1. PairInvOf(i)
    BY DEF PairInv
  <2>2. iconn[i] \in Conn /\ cconn[i] \in Conn /\ submit[i] \in SubmitStates
    BY Locals
  <2>3. /\ Idle.st = "idle" /\ NoHandler.st = "none"
        /\ Break(iconn[i]).st = "broken" /\ Break(cconn[i]).st = "broken"
    BY <2>2, ConnParts, HandlerParts
  <2>4. /\ create'[i] = (IF Inviter[i] = n /\ create[i] = "call" THEN "failed" ELSE create[i])
        /\ submit'[i] = (IF Joiner[i] = n /\ submit[i] \notin {"idle", "done", "failed"}
                         THEN "crashed" ELSE submit[i])
        /\ Inviter[i] = n => iconn'[i] = Idle
        /\ iconn'[i] \in {Idle, iconn[i]}
           \/ (iconn[i].st = "open" /\ iconn'[i] = Break(iconn[i]))
        /\ ihand'[i] \in {NoHandler, ihand[i]}
        /\ Joiner[i] = n => cconn'[i] = Idle
        /\ cconn'[i] \in {Idle, cconn[i]}
           \/ (cconn[i].st = "open" /\ cconn'[i] = Break(cconn[i]))
        /\ chand'[i] \in {NoHandler, chand[i]}
    BY DEF Restarted, Restart
  <2>5. create'[i] = "made" <=> create[i] = "made"
    BY <2>4
  <2>6. InitialFlow(i, s, p, create'[i], iconn'[i], ihand'[i])
    <3>1. InitialFlow(i, s, p, create[i], iconn[i], ihand[i])
      BY <2>1 DEF PairInvOf
    <3> QED
      BY <2>3, <2>4, <3>1 DEF InitialFlow
  <2>7. CompletionFlow(s, p, create'[i], submit'[i], cconn'[i], chand'[i])
    <3>1. CompletionFlow(s, p, create[i], submit[i], cconn[i], chand[i])
      BY <2>1 DEF PairInvOf
    <3> QED
      BY <2>3, <2>4, <2>5, <3>1 DEF CompletionFlow
  <2>8. PinsHeld(create'[i], s, p) /\ BlameIsRight(s, p, create'[i], submit'[i], verdict[i])
    BY <2>1, <2>4, <2>5 DEF PairInvOf, PinsHeld, BlameIsRight
  <2>9. PairInvOf(i)'
    BY <1>1, <2>1, <2>6, <2>7, <2>8 DEF PairInvOf
  <2> QED
    BY <2>5, <2>9
<1> QED
  BY <1>1, <1>2 DEF PairInv

LEMMA InitPair == Init => PairInv
<1> SUFFICES ASSUME Init, NEW i \in Invites
             PROVE  PairInvOf(i)
  BY DEF Init, PairInv
<1> DEFINE s == NewSession(<<i, "server">>, Inviter[i])
           p == FirstJoiner(i)
<1>1. /\ isess[i] = s /\ jsess[i] = p /\ create[i] = "idle" /\ submit[i] = "idle"
      /\ verdict[i] = "none" /\ iconn[i] = Idle /\ cconn[i] = Idle
      /\ ihand[i] = NoHandler /\ chand[i] = NoHandler
      /\ ipaired[i] = {} /\ jpaired[i] = {}
  BY DEF Init, FirstJoiner
<1>2. /\ s.state = Unregistered /\ s.csp = 0 /\ s.choice = None /\ s.offer = None
      /\ s.noob = None /\ s.other = None /\ s.info = Inviter[i]
  BY DEF NewSession
<1>3. /\ p.state = Unregistered /\ p.csp = 0 /\ p.choice = None /\ p.offer = None
      /\ p.noob = None /\ p.other = None /\ p.info = Joiner[i]
  BY DEF FirstJoiner, NewSession
<1>4. Idle.st = "idle" /\ NoHandler.st = "none"
  BY DEF Idle, NoHandler
<1> HIDE DEF s
<1>5. InStep(s, p)
  BY <1>2, <1>3 DEF InStep, SuiteChosen, OwnInfo, Unregistered, Registered
<1>6. Identities(i, s, p) /\ PinsHeld("idle", s, p)
  BY <1>2, <1>3 DEF Identities, PinsHeld, Unregistered, OobReceived, Registered
<1>7. InitialFlow(i, s, p, "idle", Idle, NoHandler)
  BY <1>4 DEF InitialFlow
<1>8. CompletionFlow(s, p, "idle", "idle", Idle, NoHandler)
  BY <1>4 DEF CompletionFlow
<1>9. PinnedIsHeld(s, p, {}, {}) /\ BlameIsRight(s, p, "idle", "idle", "none")
  BY DEF PinnedIsHeld, BlameIsRight
<1> QED
  BY <1>1, <1>5, <1>6, <1>7, <1>8, <1>9 DEF PairInvOf

LEMMA StepPair ==
    ASSUME TypeOK, PairInv, NEW i \in Invites, Step(i) \/ Environment(i)
    PROVE  Kept(i)
<1>1. ASSUME NEW noob \in Noobs, CreateReceives(i, noob)
      PROVE  Kept(i)
  BY <1>1, CreateReceivesPair
<1>2. ASSUME NEW noob \in Noobs, SubmitPin(i, noob)
      PROVE  Kept(i)
  BY <1>2, SubmitPinPair
<1> QED
  BY <1>1, <1>2, CreatePair, InitialLookupPair, InitialSessionPair,
     InitialPendingPair, SubmitReceivesPair, CompletionPair, SignalPair,
     CompletionSessionPair, PinPair DEF Step, Environment

LEMMA NextPair == TypeOK /\ PairInv /\ [Move]_vars => PairInv'
<1> SUFFICES ASSUME TypeOK, PairInv, [Move]_vars
             PROVE  PairInv'
  OBVIOUS
<1>1. CASE UNCHANGED vars
  <2>1. /\ isess' = isess /\ jsess' = jsess /\ create' = create /\ submit' = submit
        /\ verdict' = verdict /\ iconn' = iconn /\ ihand' = ihand /\ cconn' = cconn
        /\ chand' = chand /\ ipaired' = ipaired /\ jpaired' = jpaired
        /\ inviters' = inviters /\ panicked' = panicked
    BY <1>1 DEF vars, sessions, maps, initialX, completionX, trust, faults
  <2>2. \A i \in Invites : PairInvOf(i)'
    BY <2>1, PairFrame DEF PairInv, Focus
  <2> QED
    BY <2>1, <2>2 DEF PairInv
<1>2. ASSUME NEW i \in Invites, Step(i) \/ Environment(i)
      PROVE  PairInv'
  <2>1. Kept(i)
    BY <1>2, StepPair
  <2>2. ASSUME NEW j \in Invites, j # i
        PROVE  PairInvOf(j)' /\ create'[j] = create[j]
    <3>1. Focus(j)' = Focus(j)
      BY <1>2, <2>2, Elsewhere
    <3> QED
      BY <3>1, PairFrame DEF PairInv, Focus
  <2> QED
    BY <2>1, <2>2 DEF Kept, PairInv
<1> QED
  BY <1>1, <1>2, RestartPair DEF Move

-----------------------------------------------------------------------------
(* Pins, in memory and on disk.                                            *)

\* Only pin_peer, at either end, and a restart change what is trusted.
LEMMA TrustRests ==
    ASSUME NEW i \in Invites, Step(i) \/ Environment(i),
           ~SubmitPins(i), ~CompletionPin(i)
    PROVE  trust' = trust
<1>1. ASSUME \/ CreateInvite(i) \/ CreateFails(i) \/ InitialLookup(i)
             \/ InitialSession(i) \/ InitialPending(i) \/ CancelJoiner(i)
             \/ CancelPending(i) \/ Decline(i) \/ BreakInitial(i)
             \/ DropInitial(i) \/ AbandonCreate(i)
             \/ \E noob \in Noobs : CreateReceives(i, noob)
      PROVE  trust' = trust
  BY <1>1 DEF CreateInvite, CreateFails, InitialLookup, InitialSession,
       InitialPending, CancelJoiner, CancelPending, Decline, BreakInitial,
       DropInitial, AbandonCreate, CreateReceives
<1>2. ASSUME \/ \E noob \in Noobs : SubmitPin(i, noob)
             \/ SubmitReceives(i) \/ SubmitFails(i) \/ SubmitCleanup(i)
             \/ SubmitSignalled(i) \/ AbandonSubmit(i) \/ CompletionLookup(i)
             \/ CompletionSession(i) \/ OnSignal(i) \/ BreakCompletion(i)
             \/ DropCompletion(i)
      PROVE  trust' = trust
  BY <1>2 DEF SubmitPin, SubmitReceives, SubmitFails, SubmitCleanup,
       SubmitSignalled, AbandonSubmit, CompletionLookup, CompletionSession,
       OnSignal, BreakCompletion, DropCompletion
<1> QED
  BY <1>1, <1>2 DEF Step, Environment

\* What pin_peer writes: only a failed rewrite takes anything off the disk.
LEMMA PinPeerSteps ==
    ASSUME TypeOK, NEW n \in Nodes, NEW peer, PinPeer(n, peer)
    PROVE  /\ pins' = [pins EXCEPT ![n] = pins[n] \cup {peer}]
           /\ \A k \in Nodes : \A m \in trusted'[k] :
                 m \in trusted[k] \/ (k = n /\ m = peer)
           /\ peer \notin trusted[n] => \A k \in Nodes : trusted[k] \subseteq trusted'[k]
           /\ n \in Persistent \ DiskFails => peer \in trusted'[n]
           /\ \A k \in Persistent : clustered'[k] => clustered[k] \/ trusted'[k] # {}
<1>1. DOMAIN trusted = Nodes /\ DOMAIN clustered = Nodes /\ Persistent \subseteq Nodes
  BY PairingAssumption DEF TypeOK, TrustOK
<1>2. /\ pins' = [pins EXCEPT ![n] = pins[n] \cup {peer}]
      /\ \A k \in Nodes : k # n => trusted'[k] = trusted[k] /\ clustered'[k] = clustered[k]
  BY <1>1 DEF PinPeer
<1>3. CASE n \notin Persistent
  BY <1>1, <1>2, <1>3 DEF PinPeer
<1>4. CASE n \in Persistent /\ trusted' = [trusted EXCEPT ![n] = @ \cup {peer}]
  BY <1>1, <1>2, <1>4
<1>5. CASE /\ n \in Persistent \cap DiskFails /\ clustered' = clustered
           /\ trusted' \in {trusted, [trusted EXCEPT ![n] = @ \ {peer}]}
  BY <1>1, <1>2, <1>5
<1> QED
  BY <1>3, <1>4, <1>5 DEF PinPeer

\* Each side pins the real other node, whose PairingInfo is valid, and the
\* inviter has pinned by then.
LEMMA PinsTheOther ==
    ASSUME AgreementInv, NEW i \in Invites
    PROVE  /\ SubmitPins(i) =>
                /\ PinPeer(Joiner[i], Inviter[i]) /\ Inviter[i] \in ValidInfo
                /\ ipaired' = ipaired /\ ipaired[i] # {}
                /\ jpaired' = [jpaired EXCEPT ![i] = PairedOf(jsess[i])]
                /\ PairedOf(jsess[i]) # {} /\ jsess[i].state = Registered
           /\ CompletionPin(i) =>
                /\ PinPeer(Inviter[i], Joiner[i]) /\ Joiner[i] \in ValidInfo
                /\ jpaired' = jpaired
                /\ ipaired' = [ipaired EXCEPT ![i] = PairedOf(isess[i])]
                /\ PairedOf(isess[i]) # {} /\ isess[i].state = Registered
<1>1. PairInvOf(i) /\ CommitInvOf(i)
  BY DEF AgreementInv, PairInv, CommitInv
<1>2. ASSUME SubmitPins(i)
      PROVE  /\ PinPeer(Joiner[i], Inviter[i]) /\ Inviter[i] \in ValidInfo
             /\ ipaired' = ipaired /\ ipaired[i] # {}
             /\ jpaired' = [jpaired EXCEPT ![i] = PairedOf(jsess[i])]
             /\ PairedOf(jsess[i]) # {} /\ jsess[i].state = Registered
  <2>1. submit[i] = "pin" /\ ipaired' = ipaired /\ PinPeer(Joiner[i], jsess[i].other)
        /\ jpaired' = [jpaired EXCEPT ![i] = PairedOf(jsess[i])]
    BY <1>2 DEF SubmitPins
  <2>2. jsess[i].state = Registered
    BY <1>1, <2>1 DEF PairInvOf, CompletionFlow
  <2>3. jsess[i].other = Inviter[i] /\ Inviter[i] \in ValidInfo
    BY <1>1, <2>2 DEF PairInvOf, Identities, PinsHeld
  <2>4. jsess[i].assoc # {}
    BY <1>1, <2>2 DEF PairInvOf, InStep, Agree
  <2>5. PairedOf(jsess[i]) # {}
    BY <2>4 DEF PairedOf
  <2> QED
    BY <1>1, <2>1, <2>2, <2>3, <2>5 DEF CommitInvOf
<1>3. ASSUME CompletionPin(i)
      PROVE  /\ PinPeer(Inviter[i], Joiner[i]) /\ Joiner[i] \in ValidInfo
             /\ jpaired' = jpaired
             /\ ipaired' = [ipaired EXCEPT ![i] = PairedOf(isess[i])]
             /\ PairedOf(isess[i]) # {} /\ isess[i].state = Registered
  <2>1. chand[i].st = "pin" /\ PinPeer(Inviter[i], isess[i].other) /\ jpaired' = jpaired
        /\ ipaired' = [ipaired EXCEPT ![i] = PairedOf(isess[i])]
    BY <1>3 DEF CompletionPin
  <2>2. isess[i].state = Registered /\ isess[i].other # None
    BY <1>1, <2>1 DEF PairInvOf, CompletionFlow
  <2>3. isess[i].other = Joiner[i] /\ Joiner[i] \in ValidInfo
    BY <1>1, <2>2 DEF PairInvOf, Identities
  <2>4. isess[i].assoc # {}
    BY <1>1, <2>1 DEF CommitInvOf
  <2>5. PairedOf(isess[i]) # {}
    BY <2>4 DEF PairedOf
  <2> QED
    BY <2>1, <2>2, <2>3, <2>5
<1> QED
  BY <1>2, <1>3

\* A Server that reports success says so to the Peer.
LEMMA SuccessIsSaid ==
    ASSUME NEW s, NEW wm
    PROVE  LET r == Server_receive(s, wm) IN r.success => SaysSuccess(r.send)
<1>1. /\ \A x, w : Send(x, w).success = FALSE /\ Done(x, w, FALSE).success = FALSE
      /\ \A x, code : fail_code(x, code).success = FALSE
      /\ \A x, code : peer_error(x, code).success = FALSE
      /\ \A x : fail(x).success = FALSE /\ Panic(x).success = FALSE
  BY DEF Send, Done, fail_code, peer_error, fail, Panic
<1>2. \A x : SaysSuccess(Done(x, result_bytes("success"), TRUE).send)
  <2>1. result_bytes("success") \in Wire /\ result_bytes("success").eap = "success"
    BY PlainWires DEF result_bytes, Wire0
  <2>2. \A x, w : Done(x, w, TRUE).send = w
    BY DEF Done, Send
  <2> QED
    BY <2>1, <2>2, OptionAssumption DEF SaysSuccess
<1>3. Server_on_discovery(s, wm).success = FALSE
  BY <1>1 DEF Server_on_discovery, start_completion, build_completion, build_waiting,
       build_negotiation
<1>4. /\ Server_on_negotiation(s, wm).success = FALSE
      /\ Server_on_key_exchange(s, wm).success = FALSE
      /\ Server_on_noob_id(s, wm).success = FALSE
      /\ done_failure(s).success = FALSE
  BY <1>1 DEF Server_on_negotiation, build_key_exchange, Server_on_key_exchange,
       Server_on_noob_id, build_completion, done_failure
<1>5. Server_on_completion(s, wm).success => SaysSuccess(Server_on_completion(s, wm).send)
  BY <1>1, <1>2 DEF Server_on_completion
<1> DEFINE Fine(r) == r.success => SaysSuccess(r.send)
<1>6. /\ Fine(fail(s)) /\ Fine(peer_error(s, wm.error_code)) /\ Fine(done_failure(s))
      /\ Fine(Server_on_discovery(s, wm)) /\ Fine(Server_on_negotiation(s, wm))
      /\ Fine(Server_on_key_exchange(s, wm)) /\ Fine(Server_on_noob_id(s, wm))
      /\ Fine(Server_on_completion(s, wm))
  BY <1>1, <1>3, <1>4, <1>5
<1> HIDE DEF Fine
<1>7. Fine(Server_receive(s, wm))
  BY <1>6 DEF Server_receive
<1> QED
  BY <1>7 DEF Fine

\* The inviter's handler pins only with a reply of EAP success at hand.
LEMMA PairedIsSaid ==
    ASSUME NEW s, NEW m
    PROVE  LET r == on_completion(s, m) IN r.paired => SaysSuccess(r.send)
<1> DEFINE o == Server_receive(s, m)
           r == on_completion(s, m)
<1>1. r.send = o.send /\ (r.paired => o.success)
  BY DEF on_completion
<1>2. o.success => SaysSuccess(o.send)
  BY SuccessIsSaid
<1> HIDE DEF o, r
<1> QED
  BY <1>1, <1>2 DEF r

\* EAP success ends the joiner's loop.
LEMMA SuccessEnds ==
    ASSUME NEW s, NEW m, SaysSuccess(m)
    PROVE  LET r == Peer_receive(s, m) IN
           r.done = TRUE /\ r.success = TRUE /\ r.panic = FALSE
<1>1. Peer_receive(s, m) = Peer_on_result(s, "success")
  BY ConfigAssumption DEF SaysSuccess, Peer_receive
<1> QED
  BY <1>1 DEF Peer_on_result, Done, Send

\* A step of one invite keeps OnceInvOf of it.
LEMMA StepOnce ==
    ASSUME AgreementInv, NEW i \in Invites, Step(i) \/ Environment(i)
    PROVE  OnceInvOf(i)'
<1> USE DEF sessions, maps, initialX, completionX, trust, faults
<1>1. /\ DOMAIN submit = Invites /\ DOMAIN cconn = Invites /\ DOMAIN chand = Invites
      /\ DOMAIN ipaired = Invites /\ DOMAIN jpaired = Invites
      /\ cconn[i] \in Conn /\ chand[i].st \in {"none", "session", "pin"}
  BY Locals DEF AgreementInv, TypeOK, CompletionOK, TrustOK
<1>2. OnceInvOf(i) /\ PairInvOf(i)
  BY DEF AgreementInv, OnceInv, PairInv
<1>3. CompletionFlow(isess[i], jsess[i], create[i], submit[i], cconn[i], chand[i])
  BY <1>2 DEF PairInvOf
<1>4. CASE /\ submit' = submit /\ cconn' = cconn /\ chand' = chand
           /\ ipaired' = ipaired /\ jpaired' = jpaired
  BY <1>2, <1>4 DEF OnceInvOf
<1>5. ASSUME NEW phase, NEW msg
      PROVE  /\ Idle.st = "idle" /\ NoHandler.st = "none" /\ Break(cconn[i]).st = "broken"
             /\ Accept(cconn[i]).st = "open" /\ Request(phase, msg).st = "sent"
             /\ Request(phase, msg).phase = phase
             /\ Handler(phase, msg).st = phase /\ Handler(phase, msg).msg = msg
  BY <1>1, ConnParts, HandlerParts
<1>6. ASSUME NEW noob \in Noobs, SubmitPin(i, noob)
      PROVE  OnceInvOf(i)'
  <2>1. /\ jsess[i].state = Waiting /\ submit'[i] = "call"
        /\ cconn'[i] = Request("completion", None)
        /\ chand' = chand /\ ipaired' = ipaired /\ jpaired' = jpaired
    BY <1>1, <1>6 DEF SubmitPin, OobAllowed
  <2>2. submit[i] = "idle"
    BY <1>3, <2>1 DEF CompletionFlow, Waiting, OobReceived, Registered
  <2>3. chand[i].st = "none"
    BY <1>1, <1>3, <2>2 DEF CompletionFlow
  <2>4. ipaired[i] = {} /\ jpaired[i] = {}
    BY <1>2, <2>1 DEF PairInvOf, PinnedIsHeld, InStep, Waiting, OobReceived, Registered
  <2> QED
    BY <1>5, <2>1, <2>3, <2>4 DEF OnceInvOf
<1>7. CASE SubmitReceives(i)
  <2> DEFINE r == Peer_receive(jsess[i], cconn[i].msg)
  <2>1. /\ submit[i] = "call" /\ cconn[i].st = "resp" /\ cconn[i].status = 200
        /\ chand' = chand /\ ipaired' = ipaired /\ jpaired' = jpaired
    BY <1>7 DEF SubmitReceives
  <2>2. \/ cconn'[i] = Idle
        \/ cconn'[i] = Request("fail", None) /\ submit'[i] # "call"
        \/ cconn'[i] = Request("completion", r.send) /\ ~r.done
    <3> HIDE DEF r
    <3>1. LET stall == r.panic \/ (~r.done /\ r.send = None) IN
          /\ submit'[i] = (IF stall THEN "failed"
                            ELSE IF ~r.done THEN "call"
                            ELSE IF r.success THEN "pin" ELSE "fail")
          /\ cconn'[i] = (IF stall \/ r.success THEN Idle
                           ELSE IF r.done THEN Request("fail", None)
                           ELSE Request("completion", r.send))
      BY <1>1, <1>7 DEF SubmitReceives, r
    <3> QED
      BY <3>1
  <2>3. ipaired[i] # {} => r.done
    BY <1>2, <2>1, SuccessEnds DEF OnceInvOf
  <2>4. jpaired[i] = {}
    BY <1>2, <2>1 DEF OnceInvOf
  <2> HIDE DEF r
  <2> QED
    BY <1>2, <1>5, <2>1, <2>2, <2>3, <2>4 DEF OnceInvOf
<1>8. CASE SubmitFails(i) \/ SubmitSignalled(i) \/ AbandonSubmit(i)
  <2>1. /\ cconn'[i] = Idle /\ submit'[i] \in {"failed", "failclean", "done"}
        /\ chand' = chand /\ ipaired' = ipaired /\ jpaired' = jpaired
    BY <1>1, <1>8 DEF SubmitFails, SubmitSignalled, AbandonSubmit
  <2> QED
    BY <1>2, <1>5, <2>1 DEF OnceInvOf
<1>9. CASE SubmitPins(i)
  <2>1. /\ submit'[i] = "clean" /\ cconn' = cconn /\ chand' = chand /\ ipaired' = ipaired
    BY <1>1, <1>9 DEF SubmitPins
  <2> QED
    BY <1>2, <2>1 DEF OnceInvOf
<1>10. CASE SubmitCleanup(i)
  <2>1. /\ submit'[i] \in {"ack", "failed"}
        /\ cconn'[i] = cconn[i] \/ cconn'[i] = Request("ack", None)
        /\ chand' = chand /\ ipaired' = ipaired /\ jpaired' = jpaired
    BY <1>1, <1>10 DEF SubmitCleanup
  <2> QED
    BY <1>2, <1>5, <2>1 DEF OnceInvOf
<1>11. CASE CompletionLookup(i)
  <2>1. ipaired[i] = {}
    BY <1>2, <1>11 DEF OnceInvOf, CompletionLookup
  <2>2. /\ submit' = submit /\ ipaired' = ipaired /\ jpaired' = jpaired
        /\ chand'[i] = chand[i] \/ chand'[i] = Handler("session", cconn[i].msg)
        /\ cconn'[i] = Accept(cconn[i]) \/ cconn'[i] = Respond(cconn[i], 409, None)
        /\ cconn[i].st = "sent"
    BY <1>1, <1>11 DEF CompletionLookup
  <2>3. cconn'[i].st # "sent"
    BY <1>1, <1>5, <2>2, RespondParts
  <2> QED
    BY <1>2, <1>5, <2>1, <2>2, <2>3 DEF OnceInvOf
<1>12. CASE CompletionSession(i)
  <2> DEFINE r == on_completion(isess[i], chand[i].msg)
  <2>1. chand[i].st = "session" /\ ipaired[i] = {}
    BY <1>2, <1>12 DEF OnceInvOf, CompletionSession
  <2>2. /\ submit' = submit /\ ipaired' = ipaired /\ jpaired' = jpaired
        /\ chand'[i] = NoHandler \/ (r.paired /\ chand'[i] = Handler("pin", r.send))
    BY <1>1, <1>12 DEF CompletionSession
  <2>3. \/ cconn'[i] = cconn[i] \/ cconn'[i] = Break(cconn[i])
        \/ \E status, msg : cconn'[i] = Respond(cconn[i], status, msg)
    BY <1>1, <1>12 DEF CompletionSession
  <2>4. cconn[i].st # "sent"
    BY <1>3, <2>1 DEF CompletionFlow
  <2>5. cconn'[i].st # "sent"
    <3>1. \A status, msg : Respond(cconn[i], status, msg).st # "sent"
      BY <1>1, <2>4, RespondParts
    <3> QED
      BY <1>5, <2>3, <2>4, <3>1
  <2>6. r.paired => SaysSuccess(r.send)
    BY PairedIsSaid
  <2> HIDE DEF r
  <2> QED
    BY <1>2, <1>5, <2>1, <2>2, <2>5, <2>6 DEF OnceInvOf
<1>13. CASE CompletionPin(i)
  <2>1. /\ chand[i].st = "pin" /\ SaysSuccess(chand[i].msg)
        /\ submit' = submit /\ jpaired' = jpaired /\ chand'[i] = NoHandler
        /\ cconn'[i] = Respond(cconn[i], 200, chand[i].msg)
    BY <1>1, <1>2, <1>13 DEF OnceInvOf, CompletionPin
  <2>2. cconn[i].st # "sent" /\ cconn[i].st # "resp"
    BY <1>3, <2>1 DEF CompletionFlow
  <2>3. \/ cconn'[i].st # "sent" /\ cconn'[i].st # "resp"
        \/ cconn'[i].st = "resp" /\ cconn'[i].msg = chand[i].msg
    BY <1>1, <2>1, <2>2, RespondParts
  <2> QED
    BY <1>2, <1>5, <2>1, <2>3 DEF OnceInvOf
<1>14. CASE OnSignal(i)
  <2>1. /\ cconn[i].st = "sent" /\ cconn[i].phase # "completion"
        /\ cconn'[i] = Respond(cconn[i], 200, None)
        /\ submit' = submit /\ chand' = chand /\ ipaired' = ipaired /\ jpaired' = jpaired
    BY <1>1, <1>14 DEF OnSignal
  <2>2. submit[i] # "call"
    BY <1>2, <2>1 DEF OnceInvOf
  <2>3. cconn'[i].st # "sent"
    BY <1>1, <2>1, RespondParts
  <2> QED
    BY <1>2, <2>1, <2>2, <2>3 DEF OnceInvOf
<1>15. CASE BreakCompletion(i) \/ DropCompletion(i)
  <2>1. /\ submit' = submit /\ ipaired' = ipaired /\ jpaired' = jpaired
        /\ cconn'[i] = cconn[i] \/ cconn'[i] = Break(cconn[i])
        /\ chand'[i] = chand[i] \/ chand'[i] = NoHandler
    BY <1>1, <1>15 DEF BreakCompletion, DropCompletion
  <2> QED
    BY <1>2, <1>5, <2>1 DEF OnceInvOf
<1>16. CASE \/ CreateInvite(i) \/ CreateFails(i) \/ InitialLookup(i)
            \/ InitialSession(i) \/ InitialPending(i) \/ CancelJoiner(i)
            \/ CancelPending(i) \/ Decline(i) \/ BreakInitial(i)
            \/ DropInitial(i) \/ AbandonCreate(i)
            \/ \E noob \in Noobs : CreateReceives(i, noob)
  <2>1. completionX' = completionX /\ trust' = trust
    BY <1>16 DEF CreateInvite, CreateFails, InitialLookup, InitialSession,
         InitialPending, CancelJoiner, CancelPending, Decline, BreakInitial,
         DropInitial, AbandonCreate, CreateReceives
  <2> QED
    BY <1>4, <2>1
<1> QED
  BY <1>6, <1>7, <1>8, <1>9, <1>10, <1>11, <1>12, <1>13, <1>14, <1>15, <1>16
     DEF Step, Environment

\* Each side pins at most once.
LEMMA NextOnce ==
    ASSUME AgreementInv, [Move]_vars
    PROVE  OnceInv'
<1>1. ASSUME NEW i \in Invites, Step(i) \/ Environment(i), NEW j \in Invites
      PROVE  OnceInvOf(j)'
  <2>1. CASE j = i
    BY <1>1, <2>1, StepOnce
  <2>2. CASE j # i
    <3>1. Focus(j)' = Focus(j) /\ OnceInvOf(j)
      BY <1>1, <2>2, Elsewhere DEF AgreementInv, OnceInv
    <3> QED
      BY <3>1 DEF Focus, OnceInvOf
  <2> QED
    BY <2>1, <2>2
<1>2. ASSUME NEW n \in Nodes, Restarted(n), NEW j \in Invites
      PROVE  OnceInvOf(j)'
  <2>1. OnceInvOf(j) /\ cconn[j] \in Conn
    BY Locals DEF AgreementInv, OnceInv
  <2>2. Idle.st = "idle" /\ Break(cconn[j]).st = "broken" /\ NoHandler.st = "none"
    BY <2>1, ConnParts, HandlerParts
  <2>3. ipaired' = ipaired /\ jpaired' = jpaired
    BY <1>2 DEF Restarted, Restart
  <2>4. cconn'[j] = cconn[j] \/ cconn'[j] = Idle \/ cconn'[j] = Break(cconn[j])
    BY <1>2 DEF Restarted, Restart
  <2>5. chand'[j] = chand[j] \/ chand'[j] = NoHandler
    BY <1>2 DEF Restarted, Restart
  <2>6. submit'[j] = submit[j] \/ submit'[j] = "crashed"
    BY <1>2 DEF Restarted, Restart
  <2> QED
    BY <2>1, <2>2, <2>3, <2>4, <2>5, <2>6 DEF OnceInvOf
<1>3. CASE UNCHANGED vars
  BY <1>3 DEF vars, completionX, trust, AgreementInv, OnceInv, OnceInvOf
<1> QED
  BY <1>1, <1>2, <1>3 DEF Move, OnceInv

\* An invite's pin is never taken back, in memory or in what was handed over,
\* and only pins get to the disk.
LEMMA NextPins ==
    ASSUME AgreementInv, [Move]_vars
    PROVE  PinsInv' /\ FiledInv'
<1>0. TypeOK /\ PinsInv /\ FiledInv /\ MemberInv
  BY DEF AgreementInv
<1>1. DOMAIN pins = Nodes /\ DOMAIN ipaired = Invites /\ DOMAIN jpaired = Invites
      /\ DOMAIN trusted = Nodes
  BY <1>0 DEF TypeOK, TrustOK
<1>2. CASE trust' = trust
  BY <1>0, <1>2 DEF PinsInv, FiledInv, Filed, trust
<1>3. ASSUME NEW i \in Invites, SubmitPins(i)
      PROVE  PinsInv' /\ FiledInv'
  <2>1. /\ PinPeer(Joiner[i], Inviter[i]) /\ Inviter[i] \in ValidInfo
        /\ ipaired' = ipaired /\ ipaired[i] # {} /\ Joiner[i] \in Nodes
        /\ jpaired' = [jpaired EXCEPT ![i] = PairedOf(jsess[i])]
        /\ PairedOf(jsess[i]) # {}
        /\ Inviter \in [Invites -> Nodes]
    BY <1>3, PinsTheOther, PairingAssumption
  <2>2. /\ pins' = [pins EXCEPT ![Joiner[i]] = pins[Joiner[i]] \cup {Inviter[i]}]
        /\ \A k \in Nodes : \A m \in trusted'[k] :
              m \in trusted[k] \/ (k = Joiner[i] /\ m = Inviter[i])
    BY <1>0, <2>1, PinPeerSteps
  <2>3. PinsInv'
    <3> SUFFICES ASSUME NEW n \in Nodes, NEW m \in pins'[n]
                 PROVE  /\ m \in ValidInfo
                        /\ \E j \in Invites : /\ {n, m} = {Inviter[j], Joiner[j]}
                                             /\ ipaired'[j] # {}
      BY DEF PinsInv
    <3>1. m \in pins[n] \/ (n = Joiner[i] /\ m = Inviter[i])
      BY <1>1, <2>2
    <3> QED
      BY <1>0, <2>1, <3>1 DEF PinsInv
  <2>4. jpaired'[i] # {} /\ \A j \in Invites : jpaired[j] # {} => jpaired'[j] # {}
    BY <1>1, <2>1
  <2>5. FiledInv'
    BY <1>0, <2>1, <2>2, <2>4 DEF FiledInv, Filed
  <2> QED
    BY <2>3, <2>5
<1>4. ASSUME NEW i \in Invites, CompletionPin(i)
      PROVE  PinsInv' /\ FiledInv'
  <2>1. /\ PinPeer(Inviter[i], Joiner[i]) /\ Joiner[i] \in ValidInfo
        /\ ipaired' = [ipaired EXCEPT ![i] = PairedOf(isess[i])]
        /\ PairedOf(isess[i]) # {} /\ Inviter[i] \in Nodes
        /\ jpaired' = jpaired /\ Inviter \in [Invites -> Nodes]
    BY <1>4, PinsTheOther, PairingAssumption
  <2>2. /\ pins' = [pins EXCEPT ![Inviter[i]] = pins[Inviter[i]] \cup {Joiner[i]}]
        /\ \A k \in Nodes : \A m \in trusted'[k] :
              m \in trusted[k] \/ (k = Inviter[i] /\ m = Joiner[i])
    BY <1>0, <2>1, PinPeerSteps
  <2>3. ipaired'[i] # {} /\ \A j \in Invites : j # i => ipaired'[j] = ipaired[j]
    BY <1>1, <2>1
  <2>4. PinsInv'
    <3> SUFFICES ASSUME NEW n \in Nodes, NEW m \in pins'[n]
                 PROVE  /\ m \in ValidInfo
                        /\ \E j \in Invites : /\ {n, m} = {Inviter[j], Joiner[j]}
                                             /\ ipaired'[j] # {}
      BY DEF PinsInv
    <3>1. m \in pins[n] \/ (n = Inviter[i] /\ m = Joiner[i])
      BY <1>1, <2>2
    <3> QED
      BY <1>0, <2>1, <2>3, <3>1 DEF PinsInv
  <2>5. FiledInv'
    BY <1>0, <2>1, <2>2, <2>3 DEF FiledInv, Filed
  <2> QED
    BY <2>4, <2>5
<1>5. ASSUME NEW n \in Nodes, Restarted(n)
      PROVE  PinsInv' /\ FiledInv'
  <2>1. PICK torn : /\ ipaired' = ipaired /\ jpaired' = jpaired
                    /\ trusted' = [trusted EXCEPT ![n] = trusted[n] \ torn]
                    /\ pins' = [pins EXCEPT ![n] = trusted[n] \ torn]
    BY <1>5 DEF Restarted, Restart, load_or_init
  <2>2. \A k \in Nodes : pins'[k] \subseteq pins[k] /\ trusted'[k] \subseteq trusted[k]
    BY <1>0, <1>1, <2>1 DEF MemberInv
  <2> QED
    BY <1>0, <2>1, <2>2 DEF PinsInv, FiledInv, Filed
<1>6. ASSUME NEW i \in Invites, Step(i) \/ Environment(i)
      PROVE  PinsInv' /\ FiledInv'
  <2>1. CASE ~SubmitPins(i) /\ ~CompletionPin(i)
    BY <1>2, <1>6, <2>1, TrustRests
  <2> QED
    BY <1>3, <1>4, <2>1
<1>7. CASE UNCHANGED vars
  BY <1>2, <1>7 DEF vars
<1> QED
  BY <1>5, <1>6, <1>7 DEF Move

\* Where no two invites are between the same nodes, no file is written twice:
\* what pin_peer is about to write is not there yet.
LEMMA FreshFile ==
    ASSUME AgreementInv, FirstPairings, NEW i \in Invites
    PROVE  /\ submit[i] = "pin" => /\ jsess[i].other = Inviter[i]
                                   /\ Inviter[i] \notin trusted[Joiner[i]]
           /\ chand[i].st = "pin" => /\ isess[i].other = Joiner[i]
                                     /\ Joiner[i] \notin trusted[Inviter[i]]
<1>1. PairInvOf(i) /\ OnceInvOf(i) /\ FiledInv
  BY DEF AgreementInv, PairInv, OnceInv
<1>2. Inviter[i] \in Nodes /\ Joiner[i] \in Nodes
  BY PairingAssumption
<1>3. /\ Filed(Inviter[i], Joiner[i]) => ipaired[i] # {}
      /\ Filed(Joiner[i], Inviter[i]) => jpaired[i] # {}
  <2>1. ASSUME NEW j \in Invites, {Inviter[j], Joiner[j]} = {Inviter[i], Joiner[i]}
        PROVE  j = i
    BY <2>1 DEF FirstPairings
  <2>2. Inviter[i] # Joiner[i]
    BY DEF FirstPairings
  <2> QED
    BY <2>1, <2>2 DEF Filed
<1>4. ASSUME submit[i] = "pin"
      PROVE  jsess[i].other = Inviter[i] /\ Inviter[i] \notin trusted[Joiner[i]]
  <2>1. jpaired[i] = {}
    BY <1>1, <1>4 DEF OnceInvOf
  <2>2. jsess[i].state = Registered
    BY <1>1, <1>4 DEF PairInvOf, CompletionFlow
  <2>3. jsess[i].other = Inviter[i]
    BY <1>1, <2>2 DEF PairInvOf, Identities, PinsHeld
  <2> QED
    BY <1>1, <1>2, <1>3, <2>1, <2>3 DEF FiledInv
<1>5. ASSUME chand[i].st = "pin"
      PROVE  isess[i].other = Joiner[i] /\ Joiner[i] \notin trusted[Inviter[i]]
  <2>1. ipaired[i] = {}
    BY <1>1, <1>5 DEF OnceInvOf
  <2>2. isess[i].other = Joiner[i]
    BY <1>1, <1>5 DEF PairInvOf, CompletionFlow, Identities
  <2> QED
    BY <1>1, <1>2, <1>3, <2>1, <2>2 DEF FiledInv
<1> QED
  BY <1>4, <1>5

\* There, a kill leaves every certificate of trusted/ whole.
LEMMA RestartKeepsFiles ==
    ASSUME AgreementInv, FirstPairings, NEW n \in Nodes, Restarted(n)
    PROVE  trusted' = trusted /\ pins' = [pins EXCEPT ![n] = trusted[n]]
<1>1. PICK torn \in Tears(n) :
         /\ trusted' = [trusted EXCEPT ![n] = trusted[n] \ torn]
         /\ pins' = [pins EXCEPT ![n] = trusted[n] \ torn]
  BY DEF Restarted, Restart, load_or_init
<1>2. \A peer \in Writing(n) : peer \notin trusted[n]
  BY FreshFile DEF Writing
<1>3. trusted[n] \ torn = trusted[n]
  BY <1>2 DEF Tears
<1>4. trusted \in [Nodes -> SUBSET Option(Nodes)]
  BY DEF AgreementInv, TypeOK, TrustOK
<1> QED
  BY <1>1, <1>3, <1>4

\* There, nothing is ever taken off the disk, and `clustered` is set only where
\* something is written.
LEMMA FilesKept ==
    ASSUME AgreementInv, FirstPairings, [Move]_vars
    PROVE  /\ \A k \in Nodes : trusted[k] \subseteq trusted'[k]
           /\ \A k \in Persistent : clustered'[k] => clustered[k] \/ trusted'[k] # {}
<1>0. TypeOK /\ Persistent \subseteq Nodes
  BY PairingAssumption DEF AgreementInv
<1>1. ASSUME NEW i \in Invites, Step(i) \/ Environment(i)
      PROVE  /\ \A k \in Nodes : trusted[k] \subseteq trusted'[k]
             /\ \A k \in Persistent : clustered'[k] => clustered[k] \/ trusted'[k] # {}
  <2>1. CASE SubmitPins(i)
    <3>1. /\ PinPeer(Joiner[i], Inviter[i]) /\ Joiner[i] \in Nodes
          /\ Inviter[i] \notin trusted[Joiner[i]]
      BY <2>1, PinsTheOther, FreshFile, PairingAssumption DEF SubmitPins
    <3> QED
      BY <1>0, <3>1, PinPeerSteps
  <2>2. CASE CompletionPin(i)
    <3>1. /\ PinPeer(Inviter[i], Joiner[i]) /\ Inviter[i] \in Nodes
          /\ Joiner[i] \notin trusted[Inviter[i]]
      BY <2>2, PinsTheOther, FreshFile, PairingAssumption DEF CompletionPin
    <3> QED
      BY <1>0, <3>1, PinPeerSteps
  <2>3. CASE ~SubmitPins(i) /\ ~CompletionPin(i)
    BY <1>1, <2>3, TrustRests DEF trust
  <2> QED
    BY <2>1, <2>2, <2>3
<1>2. ASSUME NEW n \in Nodes, Restarted(n)
      PROVE  /\ \A k \in Nodes : trusted[k] \subseteq trusted'[k]
             /\ \A k \in Persistent : clustered'[k] => clustered[k] \/ trusted'[k] # {}
  <2>1. trusted' = trusted
    BY <1>2, RestartKeepsFiles
  <2>2. PICK torn : clustered' = [clustered EXCEPT ![n] = trusted[n] \ torn # {}]
    BY <1>2 DEF Restarted, Restart, load_or_init
  <2>3. DOMAIN clustered = Nodes
    BY <1>0 DEF TypeOK, TrustOK
  <2>4. \A k \in Nodes : clustered'[k] => clustered[k] \/ trusted[k] # {}
    BY <2>2, <2>3
  <2> QED
    BY <1>0, <2>1, <2>4
<1>3. CASE UNCHANGED vars
  BY <1>3 DEF vars, trust
<1> QED
  BY <1>1, <1>2, <1>3 DEF Move

\* What is on disk stays there, and a clustered node has something there.
LEMMA NextDisk ==
    ASSUME AgreementInv, [Move]_vars
    PROVE  DiskInv' /\ FlagInv'
<1> SUFFICES ASSUME FirstPairings
             PROVE  /\ \A i \in Invites :
                          ipaired'[i] # {} /\ Inviter[i] \in Persistent \ DiskFails =>
                              Joiner[i] \in trusted'[Inviter[i]]
                    /\ \A n \in Persistent : clustered'[n] => trusted'[n] # {}
  BY DEF DiskInv, FlagInv, FirstPairings
<1>0. TypeOK /\ DiskInv /\ FlagInv /\ Persistent \subseteq Nodes
  BY PairingAssumption DEF AgreementInv
<1>1. /\ \A k \in Nodes : trusted[k] \subseteq trusted'[k]
      /\ \A k \in Persistent : clustered'[k] => clustered[k] \/ trusted'[k] # {}
  BY FilesKept
<1>2. \A n \in Persistent : clustered'[n] => trusted'[n] # {}
  BY <1>0, <1>1 DEF FlagInv
<1>3. ASSUME NEW i \in Invites, ipaired'[i] # {}, Inviter[i] \in Persistent \ DiskFails
      PROVE  Joiner[i] \in trusted'[Inviter[i]]
  <2>1. Inviter[i] \in Nodes
    BY PairingAssumption
  <2>2. CASE ipaired[i] # {}
    BY <1>0, <1>1, <1>3, <2>1, <2>2 DEF DiskInv
  <2>3. CASE ipaired[i] = {}
    <3>1. CompletionPin(i)
      <4>1. ASSUME NEW j \in Invites, Step(j) \/ Environment(j)
            PROVE  CompletionPin(i)
        <5>1. j = i
          BY <1>0, <1>3, <2>3, <4>1, Elsewhere DEF Focus
        <5>2. ipaired' # ipaired
          BY <1>3, <2>3
        <5>3. ~SubmitPins(i)
          BY <5>2 DEF SubmitPins
        <5> QED
          BY <4>1, <5>1, <5>2, <5>3, TrustRests DEF trust
      <4>2. ASSUME NEW n \in Nodes, Restarted(n)
            PROVE  CompletionPin(i)
        BY <1>3, <2>3, <4>2 DEF Restarted, Restart
      <4>3. CASE UNCHANGED vars
        BY <1>3, <2>3, <4>3 DEF vars, trust
      <4> QED
        BY <4>1, <4>2, <4>3 DEF Move
    <3>2. PinPeer(Inviter[i], Joiner[i])
      BY <3>1, PinsTheOther
    <3> QED
      BY <1>0, <1>3, <2>1, <3>2, PinPeerSteps
  <2> QED
    BY <2>2, <2>3
<1> QED
  BY <1>2, <1>3

LEMMA InitAgreement == Init => AgreementInv
<1>1. Init => PinsInv /\ FiledInv
  BY DEF Init, PinsInv, FiledInv
<1>2. Init => MemberInv
  BY DEF Init, MemberInv
<1>3. Init => DiskInv /\ FlagInv
  BY PairingAssumption DEF Init, DiskInv, FlagInv
<1>4. Init => OnceInv
  <2> SUFFICES ASSUME Init, NEW i \in Invites
               PROVE  OnceInvOf(i)
    BY DEF OnceInv
  <2>1. chand[i] = NoHandler /\ submit[i] = "idle" /\ ipaired[i] = {} /\ jpaired[i] = {}
    BY DEF Init
  <2> QED
    BY <2>1 DEF OnceInvOf, NoHandler
<1> QED
  BY <1>1, <1>2, <1>3, <1>4, InitType, InitCommit, InitPair DEF AgreementInv

LEMMA NextAgreement == AgreementInv /\ [Move]_vars => AgreementInv'
<1> SUFFICES ASSUME AgreementInv, [Move]_vars
             PROVE  AgreementInv'
  OBVIOUS
<1>1. TypeOK' /\ CommitInv' /\ MemberInv' /\ PairInv'
  BY NextType, NextCommit, NextMember, NextPair DEF AgreementInv
<1>2. OnceInv' /\ PinsInv' /\ FiledInv' /\ DiskInv' /\ FlagInv'
  BY NextOnce, NextPins, NextDisk
<1> QED
  BY <1>1, <1>2 DEF AgreementInv

LEMMA AgreementInvHolds == Spec => []AgreementInv
<1>1. AgreementInv /\ [Next]_vars => AgreementInv'
  BY NextAgreement, NextMoves DEF AgreementInv
<1> QED
  BY <1>1, InitAgreement, PTL DEF Spec

-----------------------------------------------------------------------------
(* Theorems.                                                               *)

\* An inviter that pinned is Registered with its joiner: both hold the same
\* PIN and one association.
LEMMA PinnedAgree ==
    ASSUME PairInv, NEW i \in Invites, ipaired[i] # {} \/ jpaired[i] # {}
    PROVE  /\ isess[i].noob # None /\ isess[i].noob = jsess[i].noob
           /\ isess[i].keym # None
           /\ LET a == [csp |-> isess[i].csp, kz |-> isess[i].keym] IN
              /\ ipaired[i] # {} => ipaired[i] = {[peer |-> Joiner[i], assoc |-> a]}
              /\ jpaired[i] # {} => jpaired[i] = {[peer |-> Inviter[i], assoc |-> a]}
<1> DEFINE s == isess[i]
           p == jsess[i]
           a == [csp |-> s.csp, kz |-> s.keym]
<1>1. /\ InStep(s, p) /\ Identities(i, s, p) /\ PinsHeld(create[i], s, p)
      /\ PinnedIsHeld(s, p, ipaired[i], jpaired[i])
  BY DEF PairInv, PairInvOf
<1>2. s.state = Registered
  BY <1>1 DEF PinnedIsHeld, InStep
<1>3. p.state \in {OobReceived, Registered} /\ Agree(s, p)
  BY <1>1, <1>2 DEF InStep
<1>4. s.noob = p.noob /\ s.noob # None /\ s.keym # None
  BY <1>1, <1>3 DEF Agree, PinsHeld
<1>5. s.assoc = {a} /\ (p.state = Registered => p.assoc = {a})
  BY <1>3 DEF Agree
<1> HIDE DEF a
<1>6. ipaired[i] # {} => ipaired[i] = {[peer |-> Joiner[i], assoc |-> a]}
  BY <1>1, <1>5 DEF PinnedIsHeld, PairedOf, Identities
<1>7. jpaired[i] # {} => jpaired[i] = {[peer |-> Inviter[i], assoc |-> a]}
  BY <1>1, <1>5 DEF PinnedIsHeld, PairedOf, Identities
<1> QED
  BY <1>4, <1>6, <1>7 DEF a

\* No unwrap() of machine.rs (keypair, suite, derived keys) meets a None at two
\* honest nodes, for any interleaving, loss, signal, disk error and crash.
THEOREM NoPanicSafe == Spec => []NoPanic
<1>1. AgreementInv => NoPanic
  BY DEF AgreementInv, PairInv, NoPanic
<1> QED
  BY <1>1, AgreementInvHolds, PTL

\* What the two calls of pin_peer hand to the trust sink (node.rs:301 and 458)
\* is the real other node and one and the same association key and suite.
THEOREM AgreementSafe == Spec => []Agreement
<1>1. AgreementInv => Agreement
  <2> SUFFICES ASSUME PairInv, NEW i \in Invites
               PROVE  /\ Cardinality(ipaired[i]) <= 1 /\ Cardinality(jpaired[i]) <= 1
                      /\ \A q \in ipaired[i] : q.peer = Joiner[i] /\ q.assoc.kz # None
                      /\ \A q \in jpaired[i] : q.peer = Inviter[i]
                      /\ \A q \in ipaired[i], u \in jpaired[i] : q.assoc = u.assoc
    BY DEF AgreementInv, Agreement
  <2> DEFINE a == [csp |-> isess[i].csp, kz |-> isess[i].keym]
             x == [peer |-> Joiner[i], assoc |-> a]
             y == [peer |-> Inviter[i], assoc |-> a]
  <2>1. Cardinality({}) = 0 /\ Cardinality({x}) = 1 /\ Cardinality({y}) = 1
    BY FS_EmptySet, FS_Singleton
  <2>2. ipaired[i] \in {{}, {x}} /\ jpaired[i] \in {{}, {y}}
        /\ (ipaired[i] # {} => isess[i].keym # None)
    BY PinnedAgree
  <2>3. /\ x.peer = Joiner[i] /\ x.assoc = a /\ y.peer = Inviter[i] /\ y.assoc = a
        /\ a.kz = isess[i].keym
    OBVIOUS
  <2> HIDE DEF a, x, y
  <2>4. Cardinality(ipaired[i]) <= 1
    <3>1. Cardinality(ipaired[i]) \in {0, 1}
      BY <2>1, <2>2
    <3> QED
      BY <3>1
  <2>5. Cardinality(jpaired[i]) <= 1
    <3>1. Cardinality(jpaired[i]) \in {0, 1}
      BY <2>1, <2>2
    <3> QED
      BY <3>1
  <2>6. \A q \in ipaired[i] : q = x /\ isess[i].keym # None
    BY <2>2
  <2>7. \A u \in jpaired[i] : u = y
    BY <2>2
  <2> QED
    BY <2>3, <2>4, <2>5, <2>6, <2>7
<1> QED
  BY <1>1, AgreementInvHolds, PTL

\* A node pins another only through an invite between the two whose PIN was
\* minted at the inviter and entered at the joiner, and only with a valid
\* PairingInfo: a wrong PIN never pins anything, on either side.
THEOREM PinnedOnlyByPinSafe == Spec => []PinnedOnlyByPin
<1>1. AgreementInv => PinnedOnlyByPin
  <2> SUFFICES ASSUME PairInv, PinsInv, NEW n \in Nodes, NEW m \in pins[n]
               PROVE  /\ m \in ValidInfo
                      /\ \E i \in Invites : /\ {n, m} = {Inviter[i], Joiner[i]}
                                           /\ isess[i].noob # None
                                           /\ isess[i].noob = jsess[i].noob
    BY DEF AgreementInv, PinnedOnlyByPin
  <2>1. m \in ValidInfo
    BY DEF PinsInv
  <2>2. PICK i \in Invites : {n, m} = {Inviter[i], Joiner[i]} /\ ipaired[i] # {}
    BY DEF PinsInv
  <2>3. isess[i].noob # None /\ isess[i].noob = jsess[i].noob
    BY <2>2, PinnedAgree
  <2> QED
    BY <2>1, <2>2, <2>3
<1> QED
  BY <1>1, AgreementInvHolds, PTL

\* submit_pin blames the PIN (node.rs:426, codes 2003 and 4001) only when it is
\* not the minted one, whatever else failed.
THEOREM RightPinNeverBlamedSafe == Spec => []RightPinNeverBlamed
<1>1. AgreementInv => RightPinNeverBlamed
  BY DEF AgreementInv, PairInv, PairInvOf, BlameIsRight, RightPinNeverBlamed
<1> QED
  BY <1>1, AgreementInvHolds, PTL

\* Membership follows the disk for any number of nodes and of invites between
\* different pairs of them, whichever writes of pin_peer fail and whatever
\* crashes (pairing.rs:49): a node that restarts answers a new invite as it did
\* before.  Without the hypothesis it is false: std::fs::write empties the file
\* first (cluster_dir.rs:77), so a failed rewrite may leave trusted/ without the
\* certificate that `clustered` stands for.
THEOREM MembershipKept ==
    ASSUME FirstPairings
    PROVE  Spec => []MembershipFollowsDisk
<1>1. AgreementInv => MembershipFollowsDisk
  BY PairingAssumption DEF AgreementInv, MemberInv, FlagInv, MembershipFollowsDisk
<1> QED
  BY <1>1, AgreementInvHolds, PTL

\* Where the inviter keeps trusted/ and its writes succeed, a joiner that
\* pinned is pinned at the inviter, in memory and on disk, from then on, if no
\* two invites are between the same nodes.
THEOREM DurableCommitSafe ==
    ASSUME FirstPairings
    PROVE  Spec => []DurableCommit
<1>1. AgreementInv => DurableCommit
  <2> SUFFICES ASSUME AgreementInv, NEW i \in Invites,
                      jpaired[i] # {}, Inviter[i] \in Persistent \ DiskFails
               PROVE  Joiner[i] \in trusted[Inviter[i]] \cap pins[Inviter[i]]
    BY DEF DurableCommit
  <2>1. ipaired[i] # {}
    BY DEF AgreementInv, CommitInv, CommitInvOf
  <2>2. Joiner[i] \in trusted[Inviter[i]]
    BY <2>1 DEF AgreementInv, DiskInv
  <2>3. Inviter[i] \in Nodes
    BY PairingAssumption
  <2>4. trusted[Inviter[i]] \subseteq pins[Inviter[i]]
    BY <2>3 DEF AgreementInv, MemberInv
  <2> QED
    BY <2>2, <2>4
<1> QED
  BY <1>1, AgreementInvHolds, PTL

-----------------------------------------------------------------------------
(* The commands and the dashboard (PairingCommands).                       *)

\* A submit_pin past its pin has pinned, and where writes succeed and no file is
\* rewritten a joiner with a cluster directory has the inviter on disk.
Joined(i) ==
    /\ submit[i] \in {"clean", "ack", "done"} => jpaired[i] # {}
    /\ FirstPairings /\ jpaired[i] # {} /\ Joiner[i] \in Persistent \ DiskFails =>
          Inviter[i] \in trusted[Joiner[i]]

\* What a `join` has done so far, at each of its states.
JoinProgress ==
    /\ scenario \in Scenarios
    /\ jcmd \in [Nodes -> [st : JoinStates, invite : Option(Invites)]]
    /\ \A n \in Nodes :
          LET i == jcmd[n].invite IN
          /\ jcmd[n].st \in {"prompt", "submit", "joined"} => i \in Invites /\ Joiner[i] = n
          /\ jcmd[n].st = "joined" => jpaired[i] # {}

\* The way of a `fail` to the inviter, and what is gone at each of its stations.
TornDown(i) ==
    verdict[i] = "incorrect-pin" =>
        /\ submit[i] \in {"fail", "failclean", "failed", "crashed"}
        /\ submit[i] = "fail" =>
              \/ cconn[i].st = "sent" /\ cconn[i].phase = "fail"
              \/ cconn[i].st = "resp" /\ i \notin inviters
        /\ submit[i] = "failclean" => i \notin inviters
        /\ submit[i] = "failed" => i \notin inviters \cup joiners \cup pending

CommandsInv ==
    /\ AgreementInv /\ JoinProgress
    /\ \A i \in Invites : Joined(i)
    /\ ~scenario.faults => \A i \in Invites : TornDown(i)

\* The endpoint's steps where nothing is cut off, cancelled or declined.
Calm ==
    \/ \E i \in Invites :
          \/ Step(i) \/ CreateInvite(i)
          \/ \E noob \in Noobs : SubmitPin(i, noob)
    \/ \E n \in Nodes : Restarted(n)

\* What the commands do to the endpoint: its own steps and restarts, and
\* without faults only the calm ones.
LEMMA CommandsMove ==
    ASSUME TypeOK, JoinProgress, [CNext]_cvars
    PROVE  [Move]_vars /\ (~scenario.faults => [Calm]_vars) /\ scenario' = scenario
<1> DEFINE Goal == [Move]_vars /\ (~scenario.faults => [Calm]_vars) /\ scenario' = scenario
<1>1. scenario.invites \subseteq Invites
  BY CommandsAssumption DEF JoinProgress
<1>2. /\ \A i \in Invites : Inviter[i] \in Nodes /\ Joiner[i] \in Nodes
      /\ crashes \in 0..MaxCrashes
  BY PairingAssumption DEF TypeOK, FaultsOK
<1>3. ASSUME NEW n \in Nodes, Restart(n, {}), crashes' = crashes, scenario' = scenario
      PROVE  Goal
  <2>1. Restarted(n)
    BY <1>2, <1>3 DEF Restarted, Tears
  <2> QED
    BY <1>3, <2>1 DEF Move, Calm
<1>4. ASSUME NEW i \in Invites, Step(i) \/ CreateInvite(i), scenario' = scenario
      PROVE  Goal
  BY <1>4 DEF Move, Environment, Calm
<1>5. ASSUME NEW i \in Invites, NEW noob \in Noobs, SubmitPin(i, noob),
             scenario' = scenario
      PROVE  Goal
  BY <1>5 DEF Move, Environment, Calm
<1>6. ASSUME NEW i \in scenario.invites,
             \/ Task(i) \/ Fault(i) \/ DashboardInvite(i)
             \/ \E noob \in Noobs : DashboardRespond(i, noob)
             \/ InviteRuns(i) \/ InviteTask(i)
      PROVE  Goal
  <2>0. i \in Invites /\ Inviter[i] \in Nodes
    BY <1>1, <1>2
  <2>1. CASE Task(i)
    BY <1>4, <2>0, <2>1 DEF Task
  <2>2. CASE Fault(i)
    BY <2>0, <2>2 DEF Fault, Move, Environment
  <2>3. CASE DashboardInvite(i)
    BY <1>4, <2>0, <2>3 DEF DashboardInvite
  <2>4. ASSUME NEW noob \in Noobs, DashboardRespond(i, noob) PROVE Goal
    BY <1>5, <2>0, <2>4 DEF DashboardRespond
  <2>5. CASE InviteRuns(i)
    BY <1>4, <2>0, <2>5 DEF InviteRuns
  <2>6. CASE InviteFails(i)
    BY <1>3, <2>0, <2>6 DEF InviteFails, InviteExits
  <2>7. CASE InvitePolls(i)
    <3>1. CASE UNCHANGED vars
      BY <2>7, <3>1 DEF InvitePolls
    <3> QED
      BY <1>3, <2>0, <2>7, <3>1 DEF InvitePolls, InviteExits
  <2> QED
    BY <1>6, <2>1, <2>2, <2>3, <2>4, <2>5, <2>6, <2>7 DEF InviteTask
<1>7. ASSUME NEW n \in Nodes,
             \/ JoinRuns(n) \/ JoinTask(n) \/ JoinRefused(n) \/ NodeCrash(n)
             \/ \E noob \in Noobs : JoinEnters(n, noob)
      PROVE  Goal
  <2>1. CASE JoinRuns(n)
    BY <1>3, <2>1 DEF JoinRuns
  <2>2. CASE JoinPolls(n)
    <3>1. CASE UNCHANGED vars
      BY <2>2, <3>1 DEF JoinPolls
    <3> QED
      BY <1>3, <2>2, <3>1 DEF JoinPolls, JoinExits
  <2>3. CASE JoinEnds(n)
    BY <1>3, <2>3 DEF JoinEnds, JoinExits
  <2>4. CASE JoinRefused(n)
    BY <1>3, <2>4 DEF JoinRefused, JoinExits
  <2>5. CASE NodeCrash(n)
    <3>1. Crash(n) /\ scenario.faults /\ scenario' = scenario
      BY <2>5 DEF NodeCrash
    <3>2. [Move]_vars
      BY <3>1, NextMoves DEF Next
    <3> QED
      BY <3>1, <3>2
  <2>6. ASSUME NEW noob \in Noobs, JoinEnters(n, noob) PROVE Goal
    <3>1. jcmd[n].invite \in Invites
      BY <2>6 DEF JoinEnters, JoinProgress
    <3> QED
      BY <1>5, <2>6, <3>1 DEF JoinEnters
  <2> QED
    BY <1>7, <2>1, <2>2, <2>3, <2>4, <2>5, <2>6 DEF JoinTask
<1>8. CASE UNCHANGED cvars
  BY <1>8 DEF cvars
<1> QED
  BY <1>6, <1>7, <1>8 DEF CNext

\* A pin of the joiner lasts, and a submit_pin past its pin made one.
LEMMA JoinedStep ==
    ASSUME AgreementInv, [Move]_vars, NEW i \in Invites, Joined(i)
    PROVE  Joined(i)' /\ (jpaired[i] # {} => jpaired'[i] # {})
<1>0. TypeOK /\ Joiner[i] \in Nodes
  BY PairingAssumption DEF AgreementInv
<1>1. DOMAIN jpaired = Invites /\ DOMAIN submit = Invites
  BY <1>0 DEF TypeOK, TrustOK, CompletionOK
<1>2. FirstPairings => \A k \in Nodes : trusted[k] \subseteq trusted'[k]
  BY FilesKept
<1>3. ASSUME NEW j \in Invites, SubmitPins(j)
      PROVE  Joined(i)' /\ (jpaired[i] # {} => jpaired'[i] # {})
  <2>1. /\ PinPeer(Joiner[j], Inviter[j]) /\ PairedOf(jsess[j]) # {}
        /\ jpaired' = [jpaired EXCEPT ![j] = PairedOf(jsess[j])]
        /\ Joiner[j] \in Nodes
    BY <1>3, PinsTheOther, PairingAssumption
  <2>2. Joiner[j] \in Persistent \ DiskFails => Inviter[j] \in trusted'[Joiner[j]]
    BY <1>0, <2>1, PinPeerSteps
  <2>3. submit' = [submit EXCEPT ![j] = "clean"]
    BY <1>3 DEF SubmitPins
  <2>4. CASE i = j
    BY <1>1, <2>1, <2>2, <2>4 DEF Joined
  <2>5. CASE i # j
    BY <1>0, <1>1, <1>2, <2>1, <2>3, <2>5 DEF Joined
  <2> QED
    BY <2>4, <2>5
<1>4. ASSUME NEW j \in Invites, Step(j) \/ Environment(j), ~SubmitPins(j)
      PROVE  Joined(i)' /\ (jpaired[i] # {} => jpaired'[i] # {})
  <2>1. jpaired' = jpaired
    <3>1. CASE CompletionPin(j)
      BY <3>1, PinsTheOther
    <3>2. CASE ~CompletionPin(j)
      BY <1>4, <3>2, TrustRests DEF trust
    <3> QED
      BY <3>1, <3>2
  <2>2. submit'[i] = submit[i] \/ submit'[i] \notin {"clean", "ack", "done"}
        \/ submit[i] \in {"clean", "ack"}
    <3>1. CASE i # j
      BY <1>0, <1>4, <3>1, Elsewhere DEF Focus
    <3>2. CASE i = j
      <4>1. CASE submit' = submit
        BY <4>1
      <4>2. CASE submit' # submit
        <5>1. \/ SubmitReceives(j) \/ SubmitFails(j) \/ SubmitCleanup(j)
              \/ SubmitSignalled(j) \/ AbandonSubmit(j)
              \/ \E noob \in Noobs : SubmitPin(j, noob)
          BY <1>4, <4>2 DEF Step, Environment, CreateReceives, CreateFails, InitialLookup,
             InitialSession, InitialPending, CompletionLookup, CompletionSession,
             CompletionPin, OnSignal, CancelPending, CreateInvite, CancelJoiner, Decline,
             BreakInitial, BreakCompletion, DropInitial, DropCompletion, AbandonCreate,
             completionX
        <5> QED
          BY <1>1, <3>2, <5>1 DEF SubmitReceives, SubmitFails, SubmitCleanup,
             SubmitSignalled, AbandonSubmit, SubmitPin
      <4> QED
        BY <4>1, <4>2
    <3> QED
      BY <3>1, <3>2
  <2> QED
    BY <1>0, <1>2, <2>1, <2>2 DEF Joined
<1>5. ASSUME NEW n \in Nodes, Restarted(n)
      PROVE  Joined(i)' /\ (jpaired[i] # {} => jpaired'[i] # {})
  <2>1. /\ jpaired' = jpaired
        /\ submit'[i] = submit[i] \/ submit'[i] = "crashed"
    BY <1>5 DEF Restarted, Restart
  <2> QED
    BY <1>0, <1>2, <2>1 DEF Joined
<1>6. CASE UNCHANGED vars
  BY <1>6 DEF vars, trust, completionX, Joined
<1> QED
  BY <1>3, <1>4, <1>5, <1>6 DEF Move

\* The maps of an invite change by its own steps only.
LEMMA MapsElsewhere ==
    ASSUME NEW j \in Invites, Step(j) \/ Environment(j), NEW i, i # j
    PROVE  /\ i \in inviters' <=> i \in inviters
           /\ i \in joiners' <=> i \in joiners
           /\ i \in pending' <=> i \in pending
<1> USE DEF maps
<1>1. CASE \/ CreateFails(j) \/ InitialLookup(j) \/ InitialSession(j)
           \/ InitialPending(j) \/ CreateInvite(j) \/ BreakInitial(j)
           \/ DropInitial(j) \/ AbandonCreate(j)
           \/ \E noob \in Noobs : CreateReceives(j, noob)
  BY <1>1 DEF CreateFails, InitialLookup, InitialSession, InitialPending,
       CreateInvite, BreakInitial, DropInitial, AbandonCreate, CreateReceives
<1>2. CASE \/ SubmitReceives(j) \/ SubmitFails(j) \/ SubmitPins(j) \/ SubmitCleanup(j)
           \/ SubmitSignalled(j) \/ AbandonSubmit(j) \/ OnSignal(j)
           \/ \E noob \in Noobs : SubmitPin(j, noob)
  BY <1>2 DEF SubmitReceives, SubmitFails, SubmitPins, SubmitCleanup, SubmitSignalled,
       AbandonSubmit, OnSignal, SubmitPin
<1>3. CASE \/ CompletionLookup(j) \/ CompletionSession(j) \/ CompletionPin(j)
           \/ CancelPending(j) \/ CancelJoiner(j) \/ Decline(j)
           \/ BreakCompletion(j) \/ DropCompletion(j)
  BY <1>3 DEF CompletionLookup, CompletionSession, CompletionPin, CancelPending,
       CancelJoiner, Decline, BreakCompletion, DropCompletion
<1> QED
  BY <1>1, <1>2, <1>3 DEF Step, Environment

\* After a verdict of incorrect-pin the maps of the invite only shrink, as long
\* as no submit_pin enters another PIN.
LEMMA BlamedMapsShrink ==
    ASSUME TypeOK, PairInv, NEW i \in Invites, Step(i), verdict[i] = "incorrect-pin"
    PROVE  /\ i \in inviters' => i \in inviters
           /\ i \in joiners' => i \in joiners
           /\ i \in pending' => i \in pending
<1> USE DEF maps
<1>1. create[i] = "made" /\ iconn[i].st = "idle" /\ ihand[i].st = "none"
  BY DEF PairInv, PairInvOf, BlameIsRight, InitialFlow
<1>2. CASE \/ CreateFails(i) \/ InitialLookup(i) \/ InitialSession(i)
           \/ InitialPending(i) \/ \E noob \in Noobs : CreateReceives(i, noob)
  BY <1>1, <1>2 DEF CreateFails, InitialLookup, InitialSession, InitialPending,
       CreateReceives
<1>3. CASE \/ SubmitReceives(i) \/ SubmitFails(i) \/ SubmitPins(i) \/ SubmitCleanup(i)
           \/ SubmitSignalled(i) \/ OnSignal(i)
  BY <1>3 DEF SubmitReceives, SubmitFails, SubmitPins, SubmitCleanup, SubmitSignalled,
       OnSignal
<1>4. CASE \/ CompletionLookup(i) \/ CompletionSession(i) \/ CompletionPin(i)
           \/ CancelPending(i)
  BY <1>4 DEF CompletionLookup, CompletionSession, CompletionPin, CancelPending
<1> QED
  BY <1>2, <1>3, <1>4 DEF Step

\* A step of submit_pin, or of its `fail` at the inviter, tears down.
LEMMA TornDownStep ==
    ASSUME AgreementInv, NEW i \in Invites, TornDown(i),
           \/ Step(i) \/ CreateInvite(i)
           \/ \E noob \in Noobs : SubmitPin(i, noob)
    PROVE  TornDown(i)'
<1>0. TypeOK /\ PairInv /\ PairInvOf(i)
  BY DEF AgreementInv, PairInv
<1>1. /\ DOMAIN submit = Invites /\ DOMAIN verdict = Invites /\ DOMAIN cconn = Invites
      /\ cconn[i] \in Conn
  BY <1>0 DEF TypeOK, CompletionOK
<1>2. ASSUME NEW noob \in Noobs, SubmitPin(i, noob)
      PROVE  TornDown(i)'
  BY <1>1, <1>2 DEF SubmitPin, TornDown
<1>3. CASE CreateInvite(i)
  <2>1. verdict[i] # "incorrect-pin" /\ verdict' = verdict
    BY <1>0, <1>3 DEF CreateInvite, completionX, PairInvOf, BlameIsRight
  <2> QED
    BY <2>1 DEF TornDown
<1>4. CASE SubmitReceives(i)
  <2> DEFINE r     == Peer_receive(jsess[i], cconn[i].msg)
             auth  == r.error_code # None /\ is_wrong_pin_code(r.error_code)
             stall == r.panic \/ (~r.done /\ r.send = None)
  <2>1. /\ submit[i] = "call"
        /\ submit'[i] = IF stall THEN "failed"
                        ELSE IF ~r.done THEN "call"
                        ELSE IF r.success THEN "pin" ELSE "fail"
        /\ verdict'[i] = IF auth THEN "incorrect-pin"
                         ELSE IF stall \/ (r.done /\ ~r.success) THEN "error"
                         ELSE verdict[i]
        /\ cconn'[i] = IF stall \/ r.success THEN Idle
                       ELSE IF r.done THEN Request("fail", None)
                       ELSE Request("completion", r.send)
    BY <1>1, <1>4 DEF SubmitReceives
  <2>2. verdict[i] # "incorrect-pin"
    BY <2>1 DEF TornDown
  <2>3. CASE ~auth
    BY <2>1, <2>2, <2>3 DEF TornDown
  <2>4. CASE auth
    <3>1. r.done /\ ~r.success /\ ~r.panic
      BY <2>4, PeerErrorsEnd
    <3>2. submit'[i] = "fail" /\ cconn'[i] = Request("fail", None)
      BY <2>1, <3>1
    <3>3. cconn'[i].st = "sent" /\ cconn'[i].phase = "fail"
      BY <1>1, <3>2, ConnParts
    <3> QED
      BY <3>2, <3>3 DEF TornDown
  <2> QED
    BY <2>3, <2>4
<1>5. ASSUME Step(i), ~SubmitReceives(i), verdict[i] = "incorrect-pin"
      PROVE  TornDown(i)'
  <2>1. /\ i \in inviters' => i \in inviters
        /\ i \in joiners' => i \in joiners
        /\ i \in pending' => i \in pending
    BY <1>0, <1>5, BlamedMapsShrink
  <2>2. /\ submit[i] \in {"fail", "failclean", "failed", "crashed"}
        /\ submit[i] = "fail" =>
              \/ cconn[i].st = "sent" /\ cconn[i].phase = "fail"
              \/ cconn[i].st = "resp" /\ i \notin inviters
        /\ submit[i] = "failclean" => i \notin inviters
        /\ submit[i] = "failed" => i \notin inviters \cup joiners \cup pending
    BY <1>5 DEF TornDown
  <2>3. CASE SubmitCleanup(i)
    <3>1. /\ submit[i] = "failclean" /\ submit'[i] = "failed"
          /\ joiners' = joiners \ {i} /\ pending' = pending \ {i}
      BY <1>1, <2>2, <2>3 DEF SubmitCleanup
    <3> QED
      BY <2>1, <2>2, <3>1 DEF TornDown
  <2>4. CASE SubmitSignalled(i)
    <3>1. submit[i] = "fail" /\ submit'[i] = "failclean" /\ cconn[i].st \in {"resp", "broken"}
      BY <1>1, <2>2, <2>4 DEF SubmitSignalled
    <3> QED
      BY <2>1, <2>2, <3>1 DEF TornDown
  <2>5. CASE OnSignal(i)
    <3>1. /\ submit' = submit /\ cconn'[i] = Respond(cconn[i], 200, None)
          /\ cconn[i].st = "sent"
          /\ inviters' = IF cconn[i].phase = "fail" THEN inviters \ {i} ELSE inviters
      BY <1>1, <2>5 DEF OnSignal
    <3>2. cconn'[i].st = "resp"
      BY <1>1, <3>1, RespondParts
    <3> QED
      BY <2>1, <2>2, <3>1, <3>2 DEF TornDown
  <2>6. CASE CompletionLookup(i)
    <3>1. submit[i] = "call"
      BY <1>0, <2>6 DEF CompletionLookup, PairInvOf, CompletionFlow
    <3> QED
      BY <2>2, <3>1
  <2>7. CASE CompletionSession(i) \/ CompletionPin(i)
    <3>1. submit' = submit /\ chand[i].st # "none"
      BY <2>7 DEF CompletionSession, CompletionPin
    <3>2. submit[i] # "fail"
      BY <1>0, <2>2, <3>1 DEF PairInvOf, CompletionFlow
    <3> QED
      BY <2>1, <2>2, <3>1, <3>2 DEF TornDown
  <2>8. CASE submit' = submit /\ cconn' = cconn
    BY <2>1, <2>2, <2>8 DEF TornDown
  <2>9. CASE SubmitFails(i) \/ SubmitPins(i)
    BY <2>2, <2>9 DEF SubmitFails, SubmitPins
  <2>10. \/ SubmitCleanup(i) \/ SubmitSignalled(i) \/ OnSignal(i) \/ CompletionLookup(i)
         \/ CompletionSession(i) \/ CompletionPin(i) \/ SubmitFails(i) \/ SubmitPins(i)
         \/ submit' = submit /\ cconn' = cconn
    BY <1>5 DEF Step, CreateReceives, CreateFails, InitialLookup, InitialSession,
       InitialPending, CancelPending, completionX
  <2> QED
    BY <2>3, <2>4, <2>5, <2>6, <2>7, <2>8, <2>9, <2>10
<1>6. ASSUME Step(i), ~SubmitReceives(i), verdict[i] # "incorrect-pin"
      PROVE  TornDown(i)'
  <2>1. CASE SubmitFails(i)
    BY <1>1, <2>1 DEF SubmitFails, TornDown
  <2>2. CASE ~SubmitFails(i)
    <3>1. verdict' = verdict
      BY <1>6, <2>2 DEF Step, CreateReceives, CreateFails, InitialLookup, InitialSession,
         InitialPending, SubmitPins, SubmitCleanup, SubmitSignalled, CompletionLookup,
         CompletionSession, CompletionPin, OnSignal, CancelPending, completionX
    <3> QED
      BY <1>6, <3>1 DEF TornDown
  <2> QED
    BY <2>1, <2>2
<1> QED
  BY <1>2, <1>3, <1>4, <1>5, <1>6

\* Without faults the way of a `fail` is never cut off.
LEMMA TornDownKept ==
    ASSUME AgreementInv, NEW i \in Invites, TornDown(i), [Calm]_vars
    PROVE  TornDown(i)'
<1>0. TypeOK /\ cconn[i] \in Conn
  BY DEF AgreementInv, TypeOK, CompletionOK
<1>1. ASSUME NEW j \in Invites,
             \/ Step(j) \/ CreateInvite(j)
             \/ \E noob \in Noobs : SubmitPin(j, noob)
      PROVE  TornDown(i)'
  <2>1. CASE i = j
    BY <1>1, <2>1, TornDownStep
  <2>2. CASE i # j
    <3>1. Step(j) \/ Environment(j)
      BY <1>1 DEF Environment
    <3>2. Focus(i)' = Focus(i)
      BY <1>0, <2>2, <3>1, Elsewhere
    <3>3. submit'[i] = submit[i] /\ verdict'[i] = verdict[i] /\ cconn'[i] = cconn[i]
      BY <3>2 DEF Focus
    <3>4. /\ i \in inviters' <=> i \in inviters
          /\ i \in joiners' <=> i \in joiners
          /\ i \in pending' <=> i \in pending
      BY <2>2, <3>1, MapsElsewhere
    <3> QED
      BY <3>3, <3>4 DEF TornDown
  <2> QED
    BY <2>1, <2>2
<1>2. ASSUME NEW n \in Nodes, Restarted(n)
      PROVE  TornDown(i)'
  <2>1. /\ inviters' \subseteq inviters /\ joiners' \subseteq joiners
        /\ pending' \subseteq pending /\ verdict' = verdict
        /\ submit'[i] = IF Joiner[i] = n /\ submit[i] \notin {"idle", "done", "failed"}
                        THEN "crashed" ELSE submit[i]
    BY <1>2 DEF Restarted, Restart
  <2>2. Joiner[i] # n /\ cconn[i].st # "open" => cconn'[i] = cconn[i]
    BY <1>2 DEF Restarted, Restart
  <2> QED
    BY <2>1, <2>2 DEF TornDown
<1>3. CASE UNCHANGED vars
  BY <1>3 DEF vars, maps, completionX, TornDown
<1> QED
  BY <1>1, <1>2, <1>3 DEF Calm

\* A `join` follows one invite of its node, and ends well only after submit_pin.
LEMMA JoinProgressStep ==
    ASSUME TypeOK, JoinProgress, \A i \in Invites : Joined(i), [CNext]_cvars,
           scenario' = scenario,
           \A i \in Invites : jpaired[i] # {} => jpaired'[i] # {}
    PROVE  JoinProgress'
<1> DEFINE Good(n, c) ==
              /\ c \in [st : JoinStates, invite : Option(Invites)]
              /\ c.st \in {"prompt", "submit", "joined"} =>
                    c.invite \in Invites /\ Joiner[c.invite] = n
              /\ c.st = "joined" => jpaired'[c.invite] # {}
<1>1. jcmd \in [Nodes -> [st : JoinStates, invite : Option(Invites)]]
  BY DEF JoinProgress
<1>2. \A n \in Nodes : Good(n, jcmd[n])
  BY <1>1 DEF JoinProgress
<1>3. ASSUME NEW n \in Nodes, NEW c, jcmd' = [jcmd EXCEPT ![n] = c], Good(n, c)
      PROVE  JoinProgress'
  <2>1. jcmd' \in [Nodes -> [st : JoinStates, invite : Option(Invites)]]
    BY <1>1, <1>3
  <2>2. \A k \in Nodes : Good(k, jcmd'[k])
    BY <1>1, <1>2, <1>3
  <2> QED
    BY <2>1, <2>2 DEF JoinProgress
<1>4. CASE jcmd' = jcmd
  BY <1>1, <1>2, <1>4 DEF JoinProgress
<1>5. ASSUME NEW n \in Nodes, NEW st \in JoinStates \ {"prompt", "submit", "joined"},
             jcmd' = [jcmd EXCEPT ![n].st = st]
      PROVE  JoinProgress'
  <2> DEFINE c == [jcmd[n] EXCEPT !.st = st]
  <2>1. jcmd' = [jcmd EXCEPT ![n] = c]
    BY <1>5
  <2>2. Good(n, c)
    BY <1>1
  <2> QED
    BY <1>3, <2>1, <2>2
<1>6. ASSUME NEW n \in Nodes,
             \/ JoinRuns(n) \/ JoinTask(n) \/ JoinRefused(n) \/ NodeCrash(n)
             \/ \E noob \in Noobs : JoinEnters(n, noob)
      PROVE  JoinProgress'
  <2>1. CASE JoinRuns(n)
    BY <1>5, <2>1 DEF JoinRuns, JoinStates
  <2>2. CASE JoinRefused(n)
    BY <1>5, <2>2 DEF JoinRefused, JoinExits, JoinStates
  <2>3. CASE NodeCrash(n)
    BY <1>4, <1>5, <2>3 DEF NodeCrash, JoinStates
  <2>4. CASE JoinPolls(n)
    <3>1. ASSUME NEW i \in pending, Joiner[i] = n,
                 jcmd' = [jcmd EXCEPT ![n] = JoinCmd("prompt", i)]
          PROVE  JoinProgress'
      <4>1. i \in Invites
        BY DEF TypeOK, MapsOK
      <4>2. Good(n, JoinCmd("prompt", i))
        BY <3>1, <4>1 DEF JoinCmd, JoinStates, Option
      <4> QED
        BY <1>3, <3>1, <4>2
    <3>2. CASE jcmd' = [jcmd EXCEPT ![n].st = "already"]
      BY <1>5, <3>2 DEF JoinStates
    <3> QED
      BY <2>4, <3>1, <3>2 DEF JoinPolls, JoinExits
  <2>5. ASSUME NEW noob \in Noobs, JoinEnters(n, noob)
        PROVE  JoinProgress'
    <3> DEFINE c == [jcmd[n] EXCEPT !.st = "submit"]
    <3>1. jcmd' = [jcmd EXCEPT ![n] = c] /\ jcmd[n].st = "prompt"
      BY <2>5 DEF JoinEnters
    <3>2. Good(n, c)
      BY <1>1, <1>2, <3>1 DEF JoinStates
    <3> QED
      BY <1>3, <3>1, <3>2
  <2>6. CASE JoinEnds(n)
    <3>1. jcmd[n].st = "submit"
      BY <2>6 DEF JoinEnds
    <3>2. jcmd[n].invite \in Invites /\ Joiner[jcmd[n].invite] = n
      BY <1>2, <3>1
    <3>3. CASE submit[jcmd[n].invite] = "done"
      <4> DEFINE c == [jcmd[n] EXCEPT !.st = "joined"]
      <4>1. jcmd' = [jcmd EXCEPT ![n] = c]
        BY <2>6, <3>3 DEF JoinEnds, JoinExits
      <4>2. jpaired'[jcmd[n].invite] # {}
        BY <3>2, <3>3 DEF Joined
      <4>3. Good(n, c)
        BY <1>1, <3>2, <4>2 DEF JoinStates
      <4> QED
        BY <1>3, <4>1, <4>3
    <3>4. CASE submit[jcmd[n].invite] # "done"
      BY <1>5, <2>6, <3>4 DEF JoinEnds, JoinExits, JoinStates
    <3> QED
      BY <3>3, <3>4
  <2> QED
    BY <1>6, <2>1, <2>2, <2>3, <2>4, <2>5, <2>6 DEF JoinTask
<1>7. ASSUME NEW i \in scenario.invites,
             \/ Task(i) \/ Fault(i) \/ DashboardInvite(i)
             \/ \E noob \in Noobs : DashboardRespond(i, noob)
             \/ InviteRuns(i) \/ InviteTask(i)
      PROVE  JoinProgress'
  BY <1>4, <1>7 DEF Task, Fault, DashboardInvite, DashboardRespond, InviteRuns,
     InviteTask, InviteFails, InvitePolls, commands
<1>8. CASE UNCHANGED cvars
  BY <1>4, <1>8 DEF cvars, commands
<1> QED
  BY <1>6, <1>7, <1>8 DEF CNext

LEMMA NextCommands == CommandsInv /\ [CNext]_cvars => CommandsInv'
<1> SUFFICES ASSUME CommandsInv, [CNext]_cvars
             PROVE  CommandsInv'
  OBVIOUS
<1>1. AgreementInv /\ TypeOK /\ JoinProgress /\ \A i \in Invites : Joined(i)
  BY DEF CommandsInv, AgreementInv
<1>2. [Move]_vars /\ (~scenario.faults => [Calm]_vars) /\ scenario' = scenario
  BY <1>1, CommandsMove
<1>3. AgreementInv'
  BY <1>1, <1>2, NextAgreement
<1>4. \A i \in Invites : Joined(i)' /\ (jpaired[i] # {} => jpaired'[i] # {})
  BY <1>1, <1>2, JoinedStep
<1>5. JoinProgress'
  BY <1>1, <1>2, <1>4, JoinProgressStep
<1>6. ~scenario.faults => \A i \in Invites : TornDown(i)'
  BY <1>1, <1>2, TornDownKept DEF CommandsInv
<1> QED
  BY <1>2, <1>3, <1>4, <1>5, <1>6 DEF CommandsInv

LEMMA InitCommands == CInit => CommandsInv
<1> SUFFICES ASSUME CInit PROVE CommandsInv
  OBVIOUS
<1>1. AgreementInv
  BY InitAgreement DEF CInit
<1>2. JoinProgress
  BY DEF CInit, JoinProgress, JoinCmd, JoinStates, Option
<1>3. \A i \in Invites : Joined(i) /\ TornDown(i)
  BY DEF CInit, Init, Joined, TornDown
<1> QED
  BY <1>1, <1>2, <1>3 DEF CommandsInv

LEMMA CommandsInvHolds == CSpec => []CommandsInv
  BY InitCommands, NextCommands, PTL DEF CSpec

\* `openpair-node join` prints its success only when the pairing lasts: with
\* cluster directories whose writes succeed, both nodes have each other pinned
\* from then on, through the ends of both commands and every crash, if no two
\* invites are between the same nodes.
THEOREM JoinLastsSafe ==
    ASSUME FirstPairings
    PROVE  CSpec => []JoinLasts
<1>1. CommandsInv => JoinLasts
  <2> SUFFICES ASSUME CommandsInv, NEW n \in Nodes, NEW i, i = jcmd[n].invite,
                      jcmd[n].st = "joined",
                      {n, Inviter[i]} \subseteq Persistent \ DiskFails
               PROVE  Inviter[i] \in pins[n] /\ n \in pins[Inviter[i]]
    BY DEF JoinLasts
  <2>1. i \in Invites /\ Joiner[i] = n /\ jpaired[i] # {}
    BY DEF CommandsInv, JoinProgress
  <2>2. Inviter[i] \in trusted[n]
    BY <2>1 DEF CommandsInv, Joined
  <2>3. ipaired[i] # {}
    BY <2>1 DEF CommandsInv, AgreementInv, CommitInv, CommitInvOf
  <2>4. n \in trusted[Inviter[i]] /\ Inviter[i] \in Nodes
    BY <2>1, <2>3, PairingAssumption DEF CommandsInv, AgreementInv, DiskInv
  <2> QED
    BY <2>2, <2>4 DEF CommandsInv, AgreementInv, MemberInv
<1> QED
  BY <1>1, CommandsInvHolds, PTL

\* Without faults, a submit_pin that returned "incorrect-pin" has left no session
\* and no pending entry on either node: its `fail` always arrives first.
THEOREM WrongPinTearsDownSafe == CSpec => []WrongPinTearsDown
<1>1. CommandsInv => WrongPinTearsDown
  BY DEF CommandsInv, TornDown, WrongPinTearsDown
<1> QED
  BY <1>1, CommandsInvHolds, PTL

-----------------------------------------------------------------------------
(* What `openpair-node invite` reports.  It only looks at is_clustered, so *)
(* its success says that the inviter has paired in some invite.            *)

\* Node n took part in an invite other than i that paired.
MemberOtherwise(n, i) ==
    \E j \in Invites \ {i} : n \in {Inviter[j], Joiner[j]} /\ ipaired[j] # {}

\* A report of success is true, or the inviter was a member without it.
InviteReportExplained ==
    \A i \in Invites :
        icmd[i] = "joined" => ipaired[i] # {} \/ MemberOtherwise(Inviter[i], i)

ReportInv == icmd \in [Invites -> InviteStates] /\ InviteReportExplained

\* A node that never pairs but by inviting once: the case that the command's
\* words are written for.
OneInviteEach ==
    \A i, j \in Invites : Inviter[i] \in {Inviter[j], Joiner[j]} => i = j

\* An inviter's pin is never taken back.
LEMMA InviterPinStays ==
    ASSUME AgreementInv, [Move]_vars, NEW i \in Invites, ipaired[i] # {}
    PROVE  ipaired'[i] # {}
<1>1. DOMAIN ipaired = Invites
  BY DEF AgreementInv, TypeOK, TrustOK
<1>2. CASE ipaired' = ipaired
  BY <1>2
<1>3. ASSUME NEW j \in Invites, CompletionPin(j)
      PROVE  ipaired'[i] # {}
  BY <1>1, <1>3, PinsTheOther
<1>4. ASSUME NEW j \in Invites, Step(j) \/ Environment(j)
      PROVE  ipaired'[i] # {}
  <2>1. CASE ~SubmitPins(j) /\ ~CompletionPin(j)
    BY <1>2, <1>4, <2>1, TrustRests DEF trust
  <2>2. CASE SubmitPins(j)
    BY <1>2, <2>2, PinsTheOther
  <2> QED
    BY <1>3, <2>1, <2>2
<1>5. ASSUME NEW n \in Nodes, Restarted(n)
      PROVE  ipaired'[i] # {}
  BY <1>2, <1>5 DEF Restarted, Restart
<1>6. CASE UNCHANGED vars
  BY <1>2, <1>6 DEF vars, trust
<1> QED
  BY <1>4, <1>5, <1>6 DEF Move

\* A clustered node has taken part in an invite that paired.
LEMMA ClusteredHasPaired ==
    ASSUME AgreementInv, NEW n \in Nodes, clustered[n]
    PROVE  \E j \in Invites : n \in {Inviter[j], Joiner[j]} /\ ipaired[j] # {}
<1>1. PICK m : m \in pins[n]
  BY DEF AgreementInv, MemberInv
<1>2. PICK j \in Invites : {n, m} = {Inviter[j], Joiner[j]} /\ ipaired[j] # {}
  BY <1>1 DEF AgreementInv, PinsInv
<1> QED
  BY <1>2

\* Only the poll that finds is_clustered reports success.
LEMMA ReportsMembership ==
    ASSUME CommandsInv, ReportInv, [CNext]_cvars
    PROVE  /\ icmd' \in [Invites -> InviteStates]
           /\ \A i \in Invites :
                 icmd'[i] = "joined" => icmd[i] = "joined" \/ clustered[Inviter[i]]
<1> DEFINE Goal == /\ icmd' \in [Invites -> InviteStates]
                   /\ \A i \in Invites :
                         icmd'[i] = "joined" => icmd[i] = "joined" \/ clustered[Inviter[i]]
<1>1. icmd \in [Invites -> InviteStates] /\ scenario.invites \subseteq Invites
  BY CommandsAssumption DEF ReportInv, CommandsInv, JoinProgress
<1>2. CASE icmd' = icmd
  BY <1>1, <1>2
<1>3. ASSUME NEW i \in Invites, NEW st \in InviteStates, st # "joined",
             icmd' = [icmd EXCEPT ![i] = st]
      PROVE  Goal
  BY <1>1, <1>3
<1>4. ASSUME NEW i \in scenario.invites,
             \/ Task(i) \/ Fault(i) \/ DashboardInvite(i)
             \/ \E noob \in Noobs : DashboardRespond(i, noob)
      PROVE  Goal
  BY <1>2, <1>4 DEF Task, Fault, DashboardInvite, DashboardRespond, commands
<1>5. ASSUME NEW i \in scenario.invites, InviteRuns(i) \/ InviteFails(i)
      PROVE  Goal
  BY <1>1, <1>3, <1>5 DEF InviteRuns, InviteFails, InviteExits, InviteStates
<1>6. ASSUME NEW i \in scenario.invites, InvitePolls(i)
      PROVE  Goal
  <2>1. CASE icmd' = [icmd EXCEPT ![i] = "joined"] /\ clustered[Inviter[i]]
    BY <1>1, <2>1 DEF InviteStates
  <2>2. CASE icmd' = [icmd EXCEPT ![i] = "timeout"]
    BY <1>1, <1>3, <2>2 DEF InviteStates
  <2> QED
    BY <1>2, <1>6, <2>1, <2>2 DEF InvitePolls, InviteExits
<1>7. ASSUME NEW n \in Nodes,
             \/ JoinRuns(n) \/ JoinTask(n) \/ JoinRefused(n)
             \/ \E noob \in Noobs : JoinEnters(n, noob)
      PROVE  Goal
  BY <1>2, <1>7 DEF JoinRuns, JoinTask, JoinPolls, JoinEnds, JoinRefused, JoinEnters
<1>8. ASSUME NEW n \in Nodes, NodeCrash(n)
      PROVE  Goal
  <2>1. icmd' = [i \in Invites |->
           IF Inviter[i] = n /\ InviteRunning(i) THEN "killed" ELSE icmd[i]]
    BY <1>8 DEF NodeCrash
  <2> QED
    BY <1>1, <2>1 DEF InviteStates
<1>9. CASE UNCHANGED cvars
  BY <1>2, <1>9 DEF cvars, commands
<1> QED
  BY <1>4, <1>5, <1>6, <1>7, <1>8, <1>9 DEF CNext, InviteTask

LEMMA ReportInvHolds == CSpec => []ReportInv
<1>1. CInit => ReportInv
  BY DEF CInit, ReportInv, InviteReportExplained, InviteStates
<1>2. CommandsInv /\ ReportInv /\ [CNext]_cvars => ReportInv'
  <2> SUFFICES ASSUME CommandsInv, ReportInv, [CNext]_cvars
               PROVE  ReportInv'
    OBVIOUS
  <2>1. /\ icmd' \in [Invites -> InviteStates]
        /\ \A i \in Invites :
              icmd'[i] = "joined" => icmd[i] = "joined" \/ clustered[Inviter[i]]
    BY ReportsMembership
  <2>2. AgreementInv /\ [Move]_vars
    BY CommandsMove DEF CommandsInv, AgreementInv
  <2>3. \A j \in Invites : ipaired[j] # {} => ipaired'[j] # {}
    BY <2>2, InviterPinStays
  <2>4. ASSUME NEW i \in Invites, icmd'[i] = "joined"
        PROVE  ipaired'[i] # {} \/ MemberOtherwise(Inviter[i], i)'
    <3>1. CASE icmd[i] = "joined"
      BY <2>3, <3>1 DEF ReportInv, InviteReportExplained, MemberOtherwise
    <3>2. CASE clustered[Inviter[i]]
      <4>1. Inviter[i] \in Nodes
        BY PairingAssumption
      <4>2. PICK j \in Invites : Inviter[i] \in {Inviter[j], Joiner[j]} /\ ipaired[j] # {}
        BY <2>2, <3>2, <4>1, ClusteredHasPaired
      <4> QED
        BY <2>3, <4>2 DEF MemberOtherwise
    <3> QED
      BY <2>1, <2>4, <3>1, <3>2
  <2> QED
    BY <2>1, <2>4 DEF ReportInv, InviteReportExplained
<1> QED
  BY <1>1, <1>2, CommandsInvHolds, PTL DEF CSpec

\* The most that "Peer joined and its certificate is pinned" (main.rs:414) says
\* in general: the inviter has pinned the node it invited, or it is a member of
\* a cluster through another invite.
THEOREM InviteReportExplainedSafe == CSpec => []InviteReportExplained
<1>1. ReportInv => InviteReportExplained
  BY DEF ReportInv
<1> QED
  BY <1>1, ReportInvHolds, PTL

\* If no inviter takes part in a second invite, `openpair-node invite` reports
\* success only for a node that it has pinned, under every fault.
THEOREM InviteReportTrueSafe ==
    ASSUME OneInviteEach
    PROVE  CSpec => []InviteReportTrue
<1>1. ReportInv => InviteReportTrue
  BY DEF OneInviteEach, ReportInv, InviteReportExplained, MemberOtherwise, InviteReportTrue
<1> QED
  BY <1>1, ReportInvHolds, PTL

-----------------------------------------------------------------------------
(* The endpoint implements PairingContract, for every set of nodes and     *)
(* invites and every bound on the faults.                                  *)

\* The history variable holds the PIN of every joiner's session.
EnteredInv ==
    /\ entered \in [Invites -> SUBSET Noobs]
    /\ \A i \in Invites : jsess[i].noob # None => jsess[i].noob \in entered[i]

\* Where writes succeed, a node with a cluster directory trusts what is on disk.
DurableInv == \A n \in Persistent \ DiskFails : pins[n] = trusted[n]

RefinementInv == AgreementInv /\ EnteredInv /\ DurableInv

-----------------------------------------------------------------------------
(* The invariant.                                                          *)

LEMMA EnteredStep ==
    ASSUME EnteredInv, TypeOK', [RNext]_rvars
    PROVE  EnteredInv'
<1>1. CASE RNext
  <2>1. entered' = [i \in Invites |-> entered[i] \cup ({jsess'[i].noob} \ {None})]
    BY <1>1 DEF RNext
  <2>2. \A i \in Invites : jsess'[i].noob \in Option(Noobs)
    BY DEF TypeOK, SessionsOK, Session
  <2>3. entered' \in [Invites -> SUBSET Noobs]
    BY <2>1, <2>2 DEF EnteredInv, Option
  <2> QED
    BY <2>1, <2>3 DEF EnteredInv
<1>2. CASE UNCHANGED rvars
  BY <1>2 DEF EnteredInv, rvars, vars, sessions
<1> QED
  BY <1>1, <1>2

LEMMA PinPeerDurable ==
    ASSUME TypeOK, DurableInv, NEW n \in Nodes, NEW peer, PinPeer(n, peer)
    PROVE  DurableInv'
<1> SUFFICES ASSUME NEW k \in Persistent \ DiskFails
             PROVE  pins'[k] = trusted'[k]
  BY DEF DurableInv
<1>1. /\ pins' = [pins EXCEPT ![n] = pins[n] \cup {peer}]
      /\ n \in Persistent \ DiskFails => trusted' = [trusted EXCEPT ![n] = trusted[n] \cup {peer}]
      /\ k # n => trusted'[k] = trusted[k]
  BY PairingAssumption DEF PinPeer, TypeOK, TrustOK
<1>2. DOMAIN pins = Nodes /\ DOMAIN trusted = Nodes /\ k \in Nodes
  BY PairingAssumption DEF TypeOK, TrustOK
<1> QED
  BY <1>1, <1>2 DEF DurableInv

LEMMA DurableStep ==
    ASSUME TypeOK, DurableInv, [Move]_vars
    PROVE  DurableInv'
<1>1. CASE pins' = pins /\ trusted' = trusted
  BY <1>1 DEF DurableInv
<1>2. ASSUME NEW i \in Invites, Step(i) \/ Environment(i)
      PROVE  DurableInv'
  <2>1. CASE SubmitPins(i)
    <3>1. PinPeer(Joiner[i], jsess[i].other) /\ Joiner[i] \in Nodes
      BY <2>1, PairingAssumption DEF SubmitPins
    <3> QED
      BY <3>1, PinPeerDurable
  <2>2. CASE CompletionPin(i)
    <3>1. PinPeer(Inviter[i], isess[i].other) /\ Inviter[i] \in Nodes
      BY <2>2, PairingAssumption DEF CompletionPin
    <3> QED
      BY <3>1, PinPeerDurable
  <2>3. CASE ~SubmitPins(i) /\ ~CompletionPin(i)
    <3>1. trust' = trust
      BY <1>2, <2>3, TrustRests
    <3> QED
      BY <1>1, <3>1 DEF trust
  <2> QED
    BY <2>1, <2>2, <2>3
<1>3. ASSUME NEW n \in Nodes, Restarted(n)
      PROVE  DurableInv'
  <2>1. PICK torn : /\ pins' = [pins EXCEPT ![n] = trusted[n] \ torn]
                    /\ trusted' = [trusted EXCEPT ![n] = trusted[n] \ torn]
    BY <1>3 DEF Restarted, Restart, load_or_init
  <2>2. DOMAIN pins = Nodes /\ DOMAIN trusted = Nodes /\ Persistent \subseteq Nodes
    BY PairingAssumption DEF TypeOK, TrustOK
  <2> QED
    BY <2>1, <2>2 DEF DurableInv
<1>4. CASE UNCHANGED vars
  BY <1>1, <1>4 DEF vars, trust
<1> QED
  BY <1>2, <1>3, <1>4 DEF Move

LEMMA RefinementInvHolds == RSpec => []RefinementInv
<1>1. RInit => RefinementInv
  <2> SUFFICES ASSUME RInit
               PROVE  RefinementInv
    OBVIOUS
  <2>1. AgreementInv
    BY InitAgreement DEF RInit
  <2>2. EnteredInv
    <3>1. \A i \in Invites : jsess[i].noob = None
      BY DEF RInit, Init, NewSession
    <3> QED
      BY <3>1 DEF RInit, EnteredInv
  <2>3. DurableInv
    BY PairingAssumption DEF RInit, Init, DurableInv
  <2> QED
    BY <2>1, <2>2, <2>3 DEF RefinementInv
<1>2. RefinementInv /\ [RNext]_rvars => RefinementInv'
  <2> SUFFICES ASSUME RefinementInv, [RNext]_rvars
               PROVE  RefinementInv'
    OBVIOUS
  <2>1. [Move]_vars
    BY NextMoves DEF RefinementInv, AgreementInv, RNext, rvars
  <2>2. AgreementInv'
    BY <2>1, NextAgreement DEF RefinementInv
  <2>3. EnteredInv'
    BY <2>2, EnteredStep DEF RefinementInv, AgreementInv
  <2>4. DurableInv'
    BY <2>1, DurableStep DEF RefinementInv, AgreementInv
  <2> QED
    BY <2>2, <2>3, <2>4 DEF RefinementInv
<1> QED
  BY <1>1, <1>2, PTL DEF RSpec

-----------------------------------------------------------------------------
(* Every step is a step of the contract, or none.                          *)

\* A PIN that was already entered changes nothing.
LEMMA EnteredStays ==
    ASSUME EnteredInv, NEW i \in Invites, RNext, jsess'[i].noob = jsess[i].noob
    PROVE  entered'[i] = entered[i]
<1>1. entered'[i] = entered[i] \cup ({jsess'[i].noob} \ {None})
  BY DEF RNext
<1> QED
  BY <1>1 DEF EnteredInv

\* A step that pins nothing mints a PIN, enters one, or does nothing the
\* contract sees.
LEMMA PinsStepRefines ==
    ASSUME RefinementInv, RNext, NEW i \in Invites, Step(i) \/ Environment(i),
           trust' = trust
    PROVE  \/ UNCHANGED Contract!pvars
           \/ \E pin \in Noobs : Contract!Mint(i, pin) \/ Contract!Enter(i, pin)
<1>1. TypeOK /\ PairInv /\ EnteredInv
  BY DEF RefinementInv, AgreementInv
<1>2. PinsStep(i)
  BY <1>1, StepPair DEF Kept
<1>3. \A j \in Invites : j # i =>
         isess'[j].noob = isess[j].noob /\ jsess'[j].noob = jsess[j].noob
  BY <1>1, Elsewhere DEF Focus
<1>4. ipaired' = ipaired /\ jpaired' = jpaired /\ pins' = pins
  BY DEF trust
<1>5. \A j \in Invites : j # i => entered'[j] = entered[j]
  BY <1>1, <1>3, EnteredStays
<1>6. DOMAIN entered = Invites /\ DOMAIN entered' = Invites
  BY <1>1 DEF EnteredInv, RNext
<1>7. CASE jsess'[i].noob = jsess[i].noob
  <2>1. \A j \in Invites : entered'[j] = entered[j]
    BY <1>1, <1>5, <1>7, EnteredStays
  <2>2. entered' = entered
    BY <1>1, <1>6, <2>1 DEF EnteredInv, RNext
  <2>3. CASE isess'[i].noob = isess[i].noob
    <3>1. \A j \in Invites : isess'[j].noob = isess[j].noob
      BY <1>3, <2>3
    <3> QED
      BY <1>4, <2>2, <3>1 DEF Contract!pvars
  <2>4. CASE isess'[i].noob # isess[i].noob
    <3>1. isess[i].noob = None /\ isess'[i].noob \in Noobs
      BY <1>2, <2>4 DEF PinsStep
    <3>2. PICK pin \in Noobs : pin = isess'[i].noob
      BY <3>1
    <3>3. Contract!Mint(i, pin)
      BY <1>3, <1>4, <2>2, <3>1, <3>2 DEF Contract!Mint
    <3> QED
      BY <3>3
  <2> QED
    BY <2>3, <2>4
<1>8. CASE jsess'[i].noob # jsess[i].noob
  <2>1. isess'[i].noob = isess[i].noob /\ jsess'[i].noob \in Noobs
    BY <1>2, <1>8 DEF PinsStep
  <2>2. jsess'[i].noob # None
    BY <2>1, ConfigAssumption
  <2>3. entered'[i] = entered[i] \cup {jsess'[i].noob}
    BY <2>2 DEF RNext
  <2>4. entered' = [entered EXCEPT ![i] = entered[i] \cup {jsess'[i].noob}]
    BY <1>1, <1>5, <2>3 DEF EnteredInv, RNext
  <2>5. \A j \in Invites : isess'[j].noob = isess[j].noob
    BY <1>3, <2>1
  <2>6. Contract!Enter(i, jsess'[i].noob)
    BY <1>4, <2>4, <2>5 DEF Contract!Enter
  <2> QED
    BY <2>1, <2>6
<1> QED
  BY <1>7, <1>8

\* The two calls of pin_peer are the contract's two commits.
LEMMA CommitRefines ==
    ASSUME RefinementInv, RNext, NEW i \in Invites
    PROVE  /\ CompletionPin(i) => Contract!CommitInviter(i)
           /\ SubmitPins(i) => Contract!CommitJoiner(i)
<1>1. AgreementInv /\ TypeOK /\ PairInv /\ EnteredInv /\ PairInvOf(i)
  BY DEF RefinementInv, AgreementInv, PairInv
<1>2. Inviter[i] \in Nodes /\ Joiner[i] \in Nodes
  BY PairingAssumption
<1>3. DOMAIN ipaired = Invites /\ DOMAIN jpaired = Invites
  BY <1>1 DEF TypeOK, TrustOK
<1>4. ASSUME isess' = isess, jsess' = jsess
      PROVE  entered' = entered
  <2>1. \A j \in Invites : entered'[j] = entered[j]
    BY <1>1, <1>4, EnteredStays
  <2> QED
    BY <1>1, <2>1 DEF EnteredInv, RNext
<1>5. ASSUME CompletionPin(i)
      PROVE  Contract!CommitInviter(i)
  <2>1. isess' = isess /\ jsess' = jsess
    BY <1>5 DEF CompletionPin, sessions
  <2>2. /\ PinPeer(Inviter[i], Joiner[i]) /\ jpaired' = jpaired
        /\ ipaired' = [ipaired EXCEPT ![i] = PairedOf(isess[i])]
        /\ PairedOf(isess[i]) # {} /\ isess[i].state = Registered
    BY <1>1, <1>5, PinsTheOther
  <2>3. pins' = [pins EXCEPT ![Inviter[i]] = pins[Inviter[i]] \cup {Joiner[i]}]
    BY <1>1, <1>2, <2>2, PinPeerSteps
  <2>4. isess[i].noob \in entered[i]
    <3>1. jsess[i].state \in {OobReceived, Registered} /\ isess[i].noob = jsess[i].noob
      BY <1>1, <2>2 DEF PairInvOf, InStep, Agree
    <3>2. jsess[i].noob # None
      BY <1>1, <3>1 DEF PairInvOf, PinsHeld
    <3> QED
      BY <1>1, <3>1, <3>2 DEF EnteredInv
  <2>5. {j \in Invites : ipaired'[j] # {}} = {j \in Invites : ipaired[j] # {}} \cup {i}
    BY <1>3, <2>2
  <2>6. entered' = entered
    BY <1>4, <2>1
  <2> QED
    BY <2>1, <2>2, <2>3, <2>4, <2>5, <2>6 DEF Contract!CommitInviter
<1>6. ASSUME SubmitPins(i)
      PROVE  Contract!CommitJoiner(i)
  <2>1. isess' = isess /\ jsess' = jsess
    BY <1>6 DEF SubmitPins, sessions
  <2>2. /\ PinPeer(Joiner[i], Inviter[i]) /\ ipaired' = ipaired /\ ipaired[i] # {}
        /\ jpaired' = [jpaired EXCEPT ![i] = PairedOf(jsess[i])]
        /\ jsess[i].state = Registered
    BY <1>1, <1>6, PinsTheOther
  <2>3. pins' = [pins EXCEPT ![Joiner[i]] = pins[Joiner[i]] \cup {Inviter[i]}]
    BY <1>1, <1>2, <2>2, PinPeerSteps
  <2>4. PairedOf(jsess[i]) # {}
    <3>1. jsess[i].assoc # {}
      BY <1>1, <2>2 DEF PairInvOf, InStep, Agree
    <3> QED
      BY <3>1 DEF PairedOf
  <2>5. {j \in Invites : jpaired'[j] # {}} = {j \in Invites : jpaired[j] # {}} \cup {i}
    BY <1>3, <2>2, <2>4
  <2>6. entered' = entered
    BY <1>4, <2>1
  <2> QED
    BY <2>1, <2>2, <2>3, <2>5, <2>6 DEF Contract!CommitJoiner
<1> QED
  BY <1>5, <1>6

\* A restart forgets only what is not on disk, and nothing where writes succeed.
LEMMA CrashRefines ==
    ASSUME FirstPairings, RefinementInv, RNext, NEW n \in Nodes, Crash(n)
    PROVE  \/ UNCHANGED Contract!pvars
           \/ \E kept \in SUBSET Nodes : Contract!Forget(n, kept)
<1>1. TypeOK /\ PairInv /\ EnteredInv /\ PinsInv /\ MemberInv /\ DurableInv
  BY DEF RefinementInv, AgreementInv
<1>2. /\ isess' = isess /\ jsess' = jsess /\ ipaired' = ipaired /\ jpaired' = jpaired
      /\ pins' = [pins EXCEPT ![n] = trusted[n]]
  <2>1. crashes' \in 0..MaxCrashes
    BY <1>1, PairingAssumption DEF Crash, TypeOK, FaultsOK
  <2>2. Restarted(n)
    BY <2>1 DEF Crash, Restarted
  <2>3. pins' = [pins EXCEPT ![n] = trusted[n]]
    BY <2>2, RestartKeepsFiles DEF RefinementInv
  <2> QED
    BY <2>2, <2>3 DEF Restarted, Restart, sessions
<1>3. entered' = entered
  <2>1. \A j \in Invites : entered'[j] = entered[j]
    BY <1>1, <1>2, EnteredStays
  <2> QED
    BY <1>1, <2>1 DEF EnteredInv, RNext
<1>4. trusted[n] \subseteq pins[n] /\ DOMAIN pins = Nodes
  BY <1>1 DEF MemberInv, TypeOK, TrustOK
<1>5. CASE n \in Persistent \ DiskFails
  <2>1. pins' = pins
    BY <1>1, <1>2, <1>5 DEF DurableInv, TypeOK, TrustOK
  <2> QED
    BY <1>2, <1>3, <2>1 DEF Contract!pvars
<1>6. CASE n \notin Persistent \ DiskFails
  <2>1. trusted[n] \in SUBSET Nodes
    BY <1>1, <1>4, PairingAssumption DEF PinsInv
  <2>2. pins[n] \cap trusted[n] = trusted[n]
    BY <1>4
  <2>3. Contract!Forget(n, trusted[n])
    BY <1>2, <1>3, <1>6, <2>2 DEF Contract!Forget
  <2> QED
    BY <2>1, <2>3
<1> QED
  BY <1>5, <1>6

\* The pairing endpoint (node.rs, session.rs, http.rs and the trust sink) keeps
\* the pairing contract, for every set of nodes and PINs and of invites between
\* different pairs of nodes, whatever is lost, dropped, cancelled or crashed.
THEOREM Refines ==
    ASSUME FirstPairings
    PROVE  RSpec => ImplementsContract
<1>1. RInit => Contract!Init
  <2> SUFFICES ASSUME RInit
               PROVE  Contract!Init
    OBVIOUS
  <2>1. \A i \in Invites : isess[i].noob = None /\ ipaired[i] = {} /\ jpaired[i] = {}
    BY DEF RInit, Init, NewSession
  <2>2. pins = [n \in Nodes |-> {}] /\ entered = [i \in Invites |-> {}]
    BY DEF RInit, Init
  <2> QED
    BY <2>1, <2>2 DEF Contract!Init
<1>2. RefinementInv /\ [RNext]_rvars => [Contract!Next]_(Contract!pvars)
  <2> SUFFICES ASSUME RefinementInv, [RNext]_rvars
               PROVE  Contract!Next \/ UNCHANGED Contract!pvars
    OBVIOUS
  <2>1. CASE UNCHANGED rvars
    BY <2>1 DEF rvars, vars, sessions, trust, Contract!pvars
  <2>2. ASSUME RNext, NEW i \in Invites, Step(i) \/ Environment(i)
        PROVE  Contract!Next \/ UNCHANGED Contract!pvars
    <3>1. CASE CompletionPin(i) \/ SubmitPins(i)
      BY <2>2, <3>1, CommitRefines DEF Contract!Next
    <3>2. CASE ~CompletionPin(i) /\ ~SubmitPins(i)
      <4>1. trust' = trust
        BY <2>2, <3>2, TrustRests
      <4> QED
        BY <2>2, <4>1, PinsStepRefines DEF Contract!Next
    <3> QED
      BY <3>1, <3>2
  <2>3. ASSUME RNext, NEW n \in Nodes, Crash(n)
        PROVE  Contract!Next \/ UNCHANGED Contract!pvars
    BY <2>3, CrashRefines DEF Contract!Next
  <2> QED
    BY <2>1, <2>2, <2>3 DEF RNext, Next
<1> QED
  BY <1>1, <1>2, RefinementInvHolds, PTL DEF RSpec, ImplementsContract, Contract!Spec

=============================================================================
