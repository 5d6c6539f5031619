------------------------------- MODULE EapNoob -------------------------------
(***************************************************************************)
(* The EAP-NOOB Server and Peer state machines of                          *)
(* crates/pair-pairing/src/machine.rs, as pure operators: a handler takes  *)
(* a session record and a received Wire record and returns the new session *)
(* and the Outcome.                                                        *)
(*                                                                         *)
(* Cryptography is symbolic.  A random draw is a token never drawn before; *)
(* an ephemeral key and the nonce drawn with it (PKs with Ns, PKp with Np) *)
(* are one token; ECDH of two keys is the set of both; a derived key and a *)
(* MAC are the tuples of their inputs, so two are equal exactly when every *)
(* input is.  JSON encodings are dropped; the NAI is a constant.           *)
(***************************************************************************)
EXTENDS Common, Integers, Sequences

CONSTANTS
    Noobs,           \* the 16-byte secrets that six-digit PINs encode to
    SessionIds,      \* names of sessions, to tell their random draws apart
    MaxInt,          \* largest integer of the wire's integer type (i64 in the code)
    ServerVersions,  \* Server.versions
    ServerSuites,    \* Server.cryptosuites, in the server's priority order
    ServerDirs,      \* Server.dirs
    PeerVersions,    \* Peer.versions
    PeerSuites,      \* Peer.cryptosuites
    PreferDir        \* Peer.prefer_dir

WireInt == (0 - MaxInt)..MaxInt

\* The configuration is what the fields' types allow.
ASSUME ConfigAssumption ==
    /\ MaxInt \in Nat
    /\ ServerVersions \in Seq(WireInt) /\ ServerSuites \in Seq(Int)
    /\ PeerVersions \in Seq(WireInt) /\ PeerSuites \in Seq(Int)
    /\ ServerDirs \in Int /\ PreferDir \in Int
    /\ None \notin Int /\ None \notin Nodes \cup Noobs
    /\ None \notin {"success", "failure"}

-----------------------------------------------------------------------------
(* Association states, error codes and wire messages.                      *)

Unregistered == 0
Waiting      == 1
OobReceived  == 2
Reconnecting == 3
Registered   == 4
State == {Unregistered, Waiting, OobReceived, Reconnecting, Registered}

INVALID_DATA             == 1003
UNRECOGNIZED_OOB_MSG_ID  == 2003
HMAC_VERIFICATION_FAILED == 4001

is_wrong_pin_code(code) ==
    code \in {UNRECOGNIZED_OOB_MSG_ID, HMAC_VERIFICATION_FAILED}

\* Wire::default(): every field absent.  offer and choice group the verbatim
\* Type 2 fields of the server and of the peer; pk is a key with its nonce.
Wire0 == [type |-> None, peer_state |-> None, peer_id |-> None,
          offer |-> None, choice |-> None, pk |-> None, noob_id |-> None,
          mac |-> None, error_code |-> None, eap |-> None]

err_bytes(code)    == [Wire0 EXCEPT !.type = 0, !.error_code = code]
result_bytes(kind) == [Wire0 EXCEPT !.eap = kind]

\* Outcome plus the session it leaves behind.  `panic` marks an unwrap() of
\* None: the task dies and the session keeps what it had.
Send(s, w) ==
    [sess |-> s, send |-> w, done |-> FALSE, success |-> FALSE,
     error_code |-> None, panic |-> FALSE]
Done(s, w, ok) == [Send(s, w) EXCEPT !.done = TRUE, !.success = ok]
fail_code(s, code) ==
    [Send(s, err_bytes(code)) EXCEPT !.done = TRUE, !.error_code = code]
fail(s) == fail_code(s, INVALID_DATA)
Panic(s) == [Send(s, None) EXCEPT !.panic = TRUE]
\* An error notification discards the association too.
peer_error_resets(s, code) ==
    [Send([s EXCEPT !.state = Unregistered, !.assoc = {}], None)
        EXCEPT !.done = TRUE, !.error_code = code]

\* The other side's error notification ends this side too.
peer_error(s, code) ==
    [Send(s, None) EXCEPT !.done = TRUE, !.error_code = code]

-----------------------------------------------------------------------------
(* Symbolic cryptography and negotiation helpers.                          *)

\* Suite::from_id(c as u8), 0 for None: the cast keeps the low byte.
from_id(c) == IF c % 256 \in {1, 2} THEN c % 256 ELSE 0
Elems(seq) == {seq[k] : k \in DOMAIN seq}

\* A fresh random value of session s; Drew(s) records that it was drawn.
Fresh(s) == <<s.id, s.drawn + 1>>
Drew(s)  == [s EXCEPT !.drawn = @ + 1]

\* Suite::generate together with the nonce drawn beside it, and ECDH.
generate(s)    == [token |-> Fresh(s), suite |-> from_id(s.csp)]
compute_z(own, other) ==
    IF own.suite = other.suite THEN {own, other} ELSE {}

derive_completion(s) ==
    [z |-> s.z, np |-> s.pkp, ns |-> s.pks, noob |-> s.noob]
compute_mac(s, lead) ==
    [key |-> s.keym, lead |-> lead, offer |-> s.offer, choice |-> s.choice,
     pks |-> s.pks, pkp |-> s.pkp, noob |-> s.noob]

\* Sends the secret itself instead of its hash.
compute_noob_id_raw(noob) == noob
compute_noob_id(noob) == <<"NoobId", noob>>

best_version(server, peer) ==
    LET common == Elems(server) \cap Elems(peer) IN
    IF common = {} THEN None
    ELSE CHOOSE v \in common : \A w \in common : w <= v

\* The peer's priority instead of the server's.
first_supported_peer_order(server, peer) ==
    LET fits == {k \in DOMAIN peer :
                    peer[k] \in Elems(server) /\ from_id(peer[k]) # 0} IN
    IF fits = {} THEN None
    ELSE peer[CHOOSE k \in fits : \A l \in fits : k <= l]

first_supported(server, peer) ==
    LET fits == {k \in DOMAIN server :
                    server[k] \in Elems(peer) /\ from_id(server[k]) # 0} IN
    IF fits = {} THEN None
    ELSE server[CHOOSE k \in fits : \A l \in fits : k <= l]

choose_dir(server_dirs, prefer) ==
    IF server_dirs \in {1, 2} THEN server_dirs
    ELSE IF server_dirs # 3 THEN None
    ELSE IF prefer \in {1, 2} THEN prefer ELSE 2

\* dirp & dirs != 0 for a dirp in 1..3
Bits(d) == {b \in {1, 2} : (d \div b) % 2 = 1}

-----------------------------------------------------------------------------
(* A session: Server or Peer with its Method, and the identity captured    *)
(* from the other side's PairingInfo (`other`).  csp = 0 is suite = None;  *)
(* assoc is the empty set or the set holding the Association.              *)

NewSession(id, info) ==
    [id |-> id, info |-> info, drawn |-> 0, state |-> Unregistered,
     peer_state |-> 0, peer_id |-> None, csp |-> 0, dirp |-> 0,
     keypair |-> None, z |-> {}, noob |-> None, keym |-> None,
     offer |-> None, choice |-> None, pks |-> None, pkp |-> None,
     assoc |-> {}, other |-> None]

\* Both sides accept the OOB secret at Waiting, server-to-peer direction only.
OobAllowed(s) == s.state = Waiting /\ s.dirp \in {2, 3}

-----------------------------------------------------------------------------
(* Types.                                                                  *)

Option(S) == S \cup {None}

Token  == SessionIds \X Nat
Key    == [token : Token, suite : Int]
Offer  == [vers : Seq(WireInt), peer_id : Token, cryptosuites : Seq(Int),
           dirs : Int, info : Nodes]
Choice == [verp : Int, csp : Int, dirp : Int, info : Nodes]
KeyMaterial ==
    [z : SUBSET Key, np : Option(Key), ns : Option(Key), noob : Option(Noobs)]
Mac == [key : Option(KeyMaterial), lead : {1, 2}, offer : Option(Offer),
        choice : Option(Choice), pks : Option(Key), pkp : Option(Key),
        noob : Option(Noobs)]
Association == [csp : Int, kz : Option(KeyMaterial)]

Wire ==
    [type : Option(0..6), peer_state : Option(State),
     peer_id : Option(Token), offer : Option(Offer), choice : Option(Choice),
     pk : Option(Key), noob_id : Option({"NoobId"} \X Option(Noobs)),
     mac : Option(Mac), error_code : Option(Int),
     eap : Option({"success", "failure"})]

\* None is no key, no message and nothing negotiated.
ASSUME OptionAssumption ==
    /\ None \notin Key /\ None \notin KeyMaterial
    /\ None \notin Offer /\ None \notin Choice /\ None \notin Wire

Session ==
    [id : SessionIds, info : Nodes, drawn : Nat, state : State,
     peer_state : State, peer_id : Option(Token), csp : Int, dirp : Int,
     keypair : Option(Key), z : SUBSET Key, noob : Option(Noobs),
     keym : Option(KeyMaterial), offer : Option(Offer),
     choice : Option(Choice), pks : Option(Key), pkp : Option(Key),
     assoc : SUBSET Association, other : Option(Nodes)]

Outcome ==
    [sess : Session, send : Option(Wire), done : BOOLEAN, success : BOOLEAN,
     error_code : Option(Int), panic : BOOLEAN]

=============================================================================
