--------------------------- MODULE EapConversation ---------------------------
(***************************************************************************)
(* One EAP-NOOB Server and one Peer driven by relaying each side's         *)
(* outbound message to the other (machine.rs, module comment).  The        *)
(* transport may lose the message in flight, and the side that drives may  *)
(* start a new conversation at any time (Server::start is documented as    *)
(* usable again), abandoning the one in progress: the two machines are     *)
(* then in whatever states they reached.                                   *)
(***************************************************************************)
EXTENDS EapServer, EapPeer

CONSTANTS
    ServerNode, PeerNode,   \* whose PairingInfo each side carries
    MaxConversations        \* bound on Server::start

ASSUME ConversationAssumption ==
    /\ {ServerNode, PeerNode} \subseteq Nodes
    /\ {"server", "peer"} \subseteq SessionIds
    /\ MaxConversations \in Nat

VARIABLES
    srv,       \* the Server session
    peer,      \* the Peer session
    wire,      \* the message in flight with its direction, or None
    started,   \* conversations started so far
    panicked   \* some handler unwrapped a None

vars == <<srv, peer, wire, started, panicked>>

Init ==
    /\ srv = NewSession("server", ServerNode)
    /\ peer = NewSession("peer", PeerNode)
    /\ wire = None
    /\ started = 0
    /\ panicked = FALSE

Start ==
    /\ started < MaxConversations
    /\ started' = started + 1
    /\ wire' = [to |-> "peer", msg |-> Server_start]
    /\ UNCHANGED <<srv, peer, panicked>>

\* The driver relays an outcome's bytes unless the exchange is over; the EAP
\* result and an error notification are relayed too.
Relay(to, r) ==
    /\ wire' = IF r.send = None THEN None ELSE [to |-> to, msg |-> r.send]
    /\ panicked' = (panicked \/ r.panic)

ServerReceives ==
    /\ wire # None /\ wire.to = "server"
    /\ LET r == Server_receive(srv, wire.msg) IN
         /\ srv' = r.sess
         /\ Relay("peer", r)
    /\ UNCHANGED <<peer, started>>

PeerReceives ==
    /\ wire # None /\ wire.to = "peer"
    /\ LET r == Peer_receive(peer, wire.msg) IN
         /\ peer' = r.sess
         /\ Relay("server", r)
    /\ UNCHANGED <<srv, started>>

Lose ==
    /\ wire # None
    /\ wire' = None
    /\ UNCHANGED <<srv, peer, started, panicked>>

\* Displaying a (new) PIN and typing one in; either may happen between any
\* two messages, and the typed PIN need not be the displayed one.
OobOutput(noob) ==
    /\ OobAllowed(srv)
    /\ srv' = oob_output_with(srv, noob)
    /\ UNCHANGED <<peer, wire, started, panicked>>

OobInput(noob) ==
    /\ OobAllowed(peer)
    /\ peer' = oob_input_noob(peer, noob)
    /\ UNCHANGED <<srv, wire, started, panicked>>

Next ==
    \/ Start \/ ServerReceives \/ PeerReceives \/ Lose
    \/ \E noob \in Noobs : OobOutput(noob) \/ OobInput(noob)

Spec == Init /\ [][Next]_vars

-----------------------------------------------------------------------------
(* Properties.                                                             *)

\* Sessions and messages are well-formed: the peer's state, its choice and
\* every optional field stay within what the other side parses.
TypeOK ==
    /\ srv \in Session /\ peer \in Session
    /\ wire = None \/ wire.msg \in Wire
    /\ started \in 0..MaxConversations /\ panicked \in BOOLEAN

\* No unwrap() of machine.rs (keypair at 406, suite at 379 and 740, keym at
\* 488) ever meets a None, however often conversations are lost and restarted.
NoPanic == ~panicked

\* A Registered Peer has a Registered Server: EAP success is only sent after
\* MACp verified, and no restart takes the Server back.
PeerNeverAlone == peer.state = Registered => srv.state = Registered

\* Once the Server is Registered, both hold the same secret, the same derived
\* key and the same transcript, also when PINs and conversations were retried.
KeyAgreement ==
    srv.state = Registered =>
        /\ srv.noob = peer.noob
        /\ srv.assoc = {[csp |-> peer.csp, kz |-> peer.keym]}
        /\ srv.offer = peer.offer /\ srv.choice = peer.choice
        /\ peer.state = Registered => peer.assoc = srv.assoc

\* The best that both sides support: the highest common version, the first of
\* the Server's suites that the Peer lists too and the code implements, and a
\* direction that the Server offers.
BestChoice(c) ==
    LET common == Elems(ServerVersions) \cap Elems(PeerVersions)
        fits   == {k \in DOMAIN ServerSuites :
                      ServerSuites[k] \in Elems(PeerSuites)
                      /\ from_id(ServerSuites[k]) # 0}
    IN  /\ c.verp \in common /\ \A v \in common : v <= c.verp
        /\ \E k \in fits : c.csp = ServerSuites[k] /\ \A l \in fits : k <= l
        /\ c.dirp \in Bits(ServerDirs)

\* The Server checks that the Peer's choice is allowed, not that it is the best
\* one.  It is: from the end of the Initial Exchange on, and in the association
\* that results, both work with the best that they support, whichever of the
\* conversations the offer and the choice came from.
BestNegotiated ==
    srv.state # Unregistered =>
        /\ BestChoice(srv.choice) /\ srv.csp = srv.choice.csp
        /\ srv.state = Registered => \A a \in srv.assoc : a.csp = srv.csp

\* Registered is final on both sides: no later message, restart or PIN entry
\* changes the state or the association key that may already be pinned.
RegisteredIsFinal ==
    [][/\ srv.state = Registered =>
            srv'.state = Registered /\ srv'.assoc = srv.assoc
       /\ peer.state = Registered =>
            peer'.state = Registered /\ peer'.assoc = peer.assoc]_vars
=============================================================================
