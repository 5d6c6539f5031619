----------------------------- MODULE PairingNode -----------------------------
(***************************************************************************)
(* The cluster pairing endpoint: crates/pair-cluster (node.rs, session.rs, *)
(* http.rs, wire.rs) with the daemon's ClusterTrustSink                    *)
(* (crates/pair-node/src/pairing.rs).                                      *)
(*                                                                         *)
(* An invite i is one call of create_invite at Inviter[i] towards          *)
(* Joiner[i], with its fresh uuid.  Every step of a driver or a handler    *)
(* that runs under one lock, or without an await, is one action; between   *)
(* two actions any other task of any node may run.  A connection carries   *)
(* one request and its response and may break at any time, before or after *)
(* the request was handled; there is no retry.  A node may crash, losing   *)
(* its maps and keeping trusted/, but for a file it was writing.           *)
(***************************************************************************)
EXTENDS EapServer, EapPeer, FiniteSets

CONSTANTS
    Invites,          \* invite ids
    Inviter, Joiner,  \* the two nodes of each invite
    ValidInfo,        \* nodes whose PairingInfo parse_pairing_info accepts
    Persistent,       \* nodes with OPENPAIR_CLUSTER_DIR set
    Lossy,            \* connections may break
    Abandons,         \* the dashboard's client may go away
    DiskFails,        \* nodes where writing trusted/<uuid>.crt may fail
    MaxCrashes,       \* bound on crashes
    ForeignSignals    \* signals only other implementations send

ASSUME PairingAssumption ==
    /\ Inviter \in [Invites -> Nodes] /\ Joiner \in [Invites -> Nodes]
    /\ ValidInfo \subseteq Nodes /\ Persistent \subseteq Nodes /\ DiskFails \subseteq Nodes
    /\ Lossy \in BOOLEAN /\ Abandons \in BOOLEAN
    /\ MaxCrashes \in Nat
    /\ ForeignSignals \subseteq {"cancel", "decline", "expired"}
    /\ Invites \X {"server", "peer"} \subseteq SessionIds

VARIABLES
    \* the sessions of each invite (Arc<Mutex<..>> objects, or create_invite's local)
    isess, jsess,
    \* PairingNode's maps: the invites they hold (at Inviter[i], at Joiner[i])
    inviters, joiners, pending,
    \* where create_invite and submit_pin of each invite are
    create, submit,
    \* the reason submit_pin gives for failing
    verdict,
    \* the connection and the inbound handler of the Initial Exchange (at the
    \* joiner) and of the Completion Exchange (at the inviter)
    iconn, ihand, cconn, chand,
    \* what each side handed to TrustSink::pin_peer for this invite
    ipaired, jpaired,
    \* each node's SharedPins, its trusted/ directory and `clustered` flag
    pins, trusted, clustered,
    \* a cancel request of another implementation, per invite
    cancel,
    crashes, panicked

sessions == <<isess, jsess>>
maps     == <<inviters, joiners, pending>>
initialX == <<create, iconn, ihand>>
completionX == <<submit, verdict, cconn, chand>>
trust    == <<ipaired, jpaired, pins, trusted, clustered>>
faults   == <<cancel, crashes, panicked>>
vars == <<sessions, maps, initialX, completionX, trust, faults>>

-----------------------------------------------------------------------------
(* Connections, envelopes and handlers.                                    *)

CreateStates == {"idle", "call", "made", "rejected", "failed"}
SubmitStates == {"idle", "call", "pin", "clean", "ack", "done",
                 "fail", "failclean", "failed", "crashed"}
Phases == {"initial", "completion", "fail", "ack"}

Idle == [st |-> "idle", phase |-> None, status |-> 0, msg |-> None]
Request(phase, msg) ==
    [st |-> "sent", phase |-> phase, status |-> 0, msg |-> msg]
Accept(c) == [c EXCEPT !.st = "open", !.msg = None]
\* The reply of a handler whose client has gone away goes nowhere.
Respond(c, status, msg) ==
    IF c.st \in {"sent", "open"}
    THEN [c EXCEPT !.st = "resp", !.status = status, !.msg = msg]
    ELSE c
Break(c) == [c EXCEPT !.st = "broken", !.status = 0, !.msg = None]

NoHandler == [st |-> "none", msg |-> None]
Handler(st, msg) == [st |-> st, msg |-> msg]

-----------------------------------------------------------------------------
(* Sessions: session.rs.                                                   *)

\* JoinerSession::on_initial.  The inviter's identity is captured once, when
\* the Peer first reaches Waiting.
on_initial(s, msg) ==
    LET r     == Peer_receive(s, msg)
        first == r.sess.state = Waiting /\ r.sess.other = None
        err   == \/ r.error_code # None
                 \/ first /\ r.sess.offer.info \notin ValidInfo
    IN  [sess  |-> IF first /\ ~err
                   THEN [r.sess EXCEPT !.other = r.sess.offer.info]
                   ELSE r.sess,
         err   |-> err, send |-> r.send, panic |-> r.panic]

\* Captures the Server's own info in place of the joiner's.
on_completion_own_info(s, msg) ==
    LET r    == Server_receive(s, msg)
        sess == IF r.sess.state = Registered
                THEN [r.sess EXCEPT !.other = r.sess.offer.info] ELSE r.sess
    IN  [sess |-> sess, err |-> FALSE, send |-> r.send, panic |-> r.panic,
         paired |-> r.done /\ r.success]

\* InviterSession::on_completion.  The joiner's identity is captured once,
\* when the Server is Registered.
on_completion(s, msg) ==
    LET r     == Server_receive(s, msg)
        first == r.sess.state = Registered /\ r.sess.other = None
        err   == first /\ r.sess.choice.info \notin ValidInfo
        sess  == IF first /\ ~err
                 THEN [r.sess EXCEPT !.other = r.sess.choice.info]
                 ELSE r.sess
    IN  [sess |-> sess, err |-> err, send |-> r.send, panic |-> r.panic,
         paired |-> /\ ~err /\ r.done /\ r.success
                    /\ sess.other # None /\ sess.assoc # {}]

\* The Paired value built from a Registered session.
PairedOf(s) == {[peer |-> s.other, assoc |-> a] : a \in s.assoc}

-----------------------------------------------------------------------------
Init ==
    /\ isess = [i \in Invites |-> NewSession(<<i, "server">>, Inviter[i])]
    /\ jsess = [i \in Invites |-> NewSession(<<i, "peer">>, Joiner[i])]
    /\ inviters = {} /\ joiners = {} /\ pending = {}
    /\ create = [i \in Invites |-> "idle"]
    /\ submit = [i \in Invites |-> "idle"]
    /\ verdict = [i \in Invites |-> "none"]
    /\ iconn = [i \in Invites |-> Idle]
    /\ cconn = [i \in Invites |-> Idle]
    /\ ihand = [i \in Invites |-> NoHandler]
    /\ chand = [i \in Invites |-> NoHandler]
    /\ ipaired = [i \in Invites |-> {}]
    /\ jpaired = [i \in Invites |-> {}]
    /\ pins = [n \in Nodes |-> {}]
    /\ trusted = [n \in Nodes |-> {}]
    /\ clustered = [n \in Nodes |-> FALSE]
    /\ cancel = [i \in Invites |-> "none"]
    /\ crashes = 0
    /\ panicked = {}

Panics(i, r) == panicked' = IF r.panic THEN panicked \cup {i} ELSE panicked

-----------------------------------------------------------------------------
(* create_invite, at the inviter.                                          *)

CreateInvite(i) ==
    /\ create[i] = "idle"
    /\ create' = [create EXCEPT ![i] = "call"]
    /\ iconn' = [iconn EXCEPT ![i] = Request("initial", Server_start)]
    /\ UNCHANGED <<sessions, maps, ihand, completionX, trust, faults>>

\* One turn of the loop: the response drives the Server; when the Initial
\* Exchange is done a PIN is minted and the session stored.  The PIN may be
\* any; the session and the map entry appear together, since no other task
\* can reach the session before it is in the map.
CreateReceives(i, noob) ==
    /\ create[i] = "call" /\ iconn[i].st = "resp" /\ iconn[i].status = 200
    /\ LET r    == Server_receive(isess[i], iconn[i].msg)
           made == /\ ~r.panic /\ r.error_code = None /\ r.done
                   /\ OobAllowed(r.sess)
           more == ~r.panic /\ ~r.done /\ r.send # None
       IN  /\ isess' = [isess EXCEPT
                 ![i] = IF made THEN oob_output_with(r.sess, noob) ELSE r.sess]
           /\ inviters' = IF made THEN inviters \cup {i} ELSE inviters
           /\ create' = [create EXCEPT
                 ![i] = IF made THEN "made" ELSE IF more THEN "call" ELSE "failed"]
           /\ iconn' = [iconn EXCEPT
                 ![i] = IF more THEN Request("initial", r.send) ELSE Idle]
           /\ Panics(i, r)
    /\ UNCHANGED <<jsess, joiners, pending, ihand, completionX, trust,
                   cancel, crashes>>

\* 409 with `rejected`, any other error status, or a broken connection.
CreateFails(i) ==
    /\ create[i] = "call"
    /\ \/ iconn[i].st = "broken"
       \/ iconn[i].st = "resp" /\ iconn[i].status # 200
    /\ create' = [create EXCEPT
         ![i] = IF iconn[i].status = 409 THEN "rejected" ELSE "failed"]
    /\ iconn' = [iconn EXCEPT ![i] = Idle]
    /\ UNCHANGED <<sessions, maps, ihand, completionX, trust, faults>>

-----------------------------------------------------------------------------
(* on_initial_request, at the joiner: the joiners lock, the session lock,  *)
(* the pending lock, the reply.                                            *)

\* A message for an unknown invite opens a session whatever its type.
InitialLookup_any_type(i) ==
    /\ iconn[i].st = "sent"
    /\ joiners' = joiners \cup {i}
    /\ jsess' = [jsess EXCEPT ![i] = IF i \in joiners THEN @
                                     ELSE NewSession(<<i, "peer">>, Joiner[i])]
    /\ ihand' = [ihand EXCEPT ![i] = Handler("session", iconn[i].msg)]
    /\ iconn' = [iconn EXCEPT ![i] = Accept(@)]
    /\ UNCHANGED <<isess, inviters, pending, create, completionX, trust, faults>>

InitialLookup(i) ==
    /\ iconn[i].st = "sent"
    /\ IF i \in joiners
       THEN /\ ihand' = [ihand EXCEPT ![i] = Handler("session", iconn[i].msg)]
            /\ iconn' = [iconn EXCEPT ![i] = Accept(@)]
            /\ UNCHANGED <<joiners, jsess>>
       ELSE IF iconn[i].msg.type # 1
       THEN /\ iconn' = [iconn EXCEPT ![i] = Respond(@, 400, None)]
            /\ UNCHANGED <<ihand, joiners, jsess>>
       ELSE IF clustered[Joiner[i]]
       THEN /\ iconn' = [iconn EXCEPT ![i] = Respond(@, 409, None)]
            /\ UNCHANGED <<ihand, joiners, jsess>>
       ELSE /\ joiners' = joiners \cup {i}
            /\ jsess' = [jsess EXCEPT ![i] = NewSession(<<i, "peer">>, Joiner[i])]
            /\ ihand' = [ihand EXCEPT ![i] = Handler("session", iconn[i].msg)]
            /\ iconn' = [iconn EXCEPT ![i] = Accept(@)]
    /\ UNCHANGED <<isess, inviters, pending, create, completionX, trust, faults>>

\* An Err drops the session from the map; an invite that is Waiting still has
\* to be entered into `pending`, after the session lock is released.
InitialSession(i) ==
    /\ ihand[i].st = "session"
    /\ LET r     == on_initial(jsess[i], ihand[i].msg)
           await == /\ ~r.panic /\ ~r.err
                    /\ r.sess.state = Waiting /\ r.sess.other # None
       IN  /\ jsess' = [jsess EXCEPT ![i] = r.sess]
           /\ joiners' = IF r.err THEN joiners \ {i} ELSE joiners
           /\ ihand' = [ihand EXCEPT
                 ![i] = IF await THEN Handler("pending", r.send) ELSE NoHandler]
           /\ iconn' = [iconn EXCEPT
                 ![i] = IF r.panic THEN Break(@)
                        ELSE IF r.err THEN Respond(@, 400, None)
                        ELSE IF await THEN @
                        ELSE Respond(@, 200, r.send)]
           /\ Panics(i, r)
    /\ UNCHANGED <<isess, inviters, pending, create, completionX, trust,
                   cancel, crashes>>

InitialPending(i) ==
    /\ ihand[i].st = "pending"
    /\ pending' = pending \cup {i}
    /\ ihand' = [ihand EXCEPT ![i] = NoHandler]
    /\ iconn' = [iconn EXCEPT ![i] = Respond(@, 200, ihand[i].msg)]
    /\ UNCHANGED <<sessions, inviters, joiners, create, completionX, trust, faults>>

-----------------------------------------------------------------------------
(* submit_pin, at the joiner.                                              *)

\* A submit_pin that finds no session, or whose feed_pin refuses the PIN,
\* returns an error and changes nothing, so only the accepted call is an
\* action.  It looks at `joiners` and the session only, never at `pending`.
SubmitPin(i, noob) ==
    /\ submit[i] \in {"idle", "failed"}
    /\ i \in joiners
    /\ jsess[i].other # None /\ OobAllowed(jsess[i])
    /\ jsess' = [jsess EXCEPT ![i] = oob_input_noob(@, noob)]
    /\ submit' = [submit EXCEPT ![i] = "call"]
    /\ verdict' = [verdict EXCEPT ![i] = "none"]
    /\ cconn' = [cconn EXCEPT ![i] = Request("completion", None)]
    /\ UNCHANGED <<isess, maps, initialX, chand, trust, faults>>

\* Takes the end of the exchange for its success.
SubmitReceives_done_is_success(i) ==
    /\ submit[i] = "call" /\ cconn[i].st = "resp" /\ cconn[i].status = 200
    /\ LET r == Peer_receive(jsess[i], cconn[i].msg) IN
           /\ jsess' = [jsess EXCEPT ![i] = r.sess]
           /\ submit' = [submit EXCEPT ![i] = IF r.done THEN "pin" ELSE "call"]
           /\ cconn' = [cconn EXCEPT
                 ![i] = IF r.done THEN Idle ELSE Request("completion", r.send)]
           /\ Panics(i, r)
    /\ UNCHANGED <<isess, maps, initialX, chand, verdict, trust, cancel, crashes>>

\* One turn of the loop.  A terminal failure posts `fail` to the inviter.
SubmitReceives(i) ==
    /\ submit[i] = "call" /\ cconn[i].st = "resp" /\ cconn[i].status = 200
    /\ LET r     == Peer_receive(jsess[i], cconn[i].msg)
           auth  == r.error_code # None /\ is_wrong_pin_code(r.error_code)
           stall == r.panic \/ (~r.done /\ r.send = None)
       IN  /\ jsess' = [jsess EXCEPT ![i] = r.sess]
           /\ submit' = [submit EXCEPT
                 ![i] = IF stall THEN "failed"
                        ELSE IF ~r.done THEN "call"
                        ELSE IF r.success THEN "pin" ELSE "fail"]
           /\ verdict' = [verdict EXCEPT
                 ![i] = IF auth THEN "incorrect-pin"
                        ELSE IF stall \/ (r.done /\ ~r.success) THEN "error"
                        ELSE @]
           /\ cconn' = [cconn EXCEPT
                 ![i] = IF stall \/ r.success THEN Idle
                        ELSE IF r.done THEN Request("fail", None)
                        ELSE Request("completion", r.send)]
           /\ Panics(i, r)
    /\ UNCHANGED <<isess, maps, initialX, chand, trust, cancel, crashes>>

\* Takes the inviter's 409 for a wrong PIN.
SubmitFails_blames_pin(i) ==
    /\ submit[i] = "call"
    /\ \/ cconn[i].st = "broken"
       \/ cconn[i].st = "resp" /\ cconn[i].status # 200
    /\ submit' = [submit EXCEPT ![i] = "failed"]
    /\ verdict' = [verdict EXCEPT
         ![i] = IF cconn[i].status = 409 THEN "incorrect-pin" ELSE "error"]
    /\ cconn' = [cconn EXCEPT ![i] = Idle]
    /\ UNCHANGED <<sessions, maps, initialX, chand, trust, faults>>

\* `?` on post_pairing: the call returns at once, cleaning nothing up.
SubmitFails(i) ==
    /\ submit[i] = "call"
    /\ \/ cconn[i].st = "broken"
       \/ cconn[i].st = "resp" /\ cconn[i].status # 200
    /\ submit' = [submit EXCEPT ![i] = "failed"]
    /\ verdict' = [verdict EXCEPT ![i] = "error"]
    /\ cconn' = [cconn EXCEPT ![i] = Idle]
    /\ UNCHANGED <<sessions, maps, initialX, chand, trust, faults>>

\* Sets `clustered` although the certificate was not written.
PinPeer_always_clustered(n, peer) ==
    /\ pins' = [pins EXCEPT ![n] = @ \cup {peer}]
    /\ clustered' = [clustered EXCEPT ![n] = TRUE]
    /\ \/ n \in Persistent /\ trusted' = [trusted EXCEPT ![n] = @ \cup {peer}]
       \/ (n \notin Persistent \/ n \in DiskFails) /\ UNCHANGED trusted

\* ClusterTrustSink::pin_peer at node n: the peer is pinned in memory first;
\* a failed write leaves it there, and `clustered` as it was.  std::fs::write
\* empties the file first, so its failure may also cost an older certificate
\* of the peer.
PinPeer(n, peer) ==
    /\ pins' = [pins EXCEPT ![n] = @ \cup {peer}]
    /\ \/ /\ n \notin Persistent
          /\ clustered' = [clustered EXCEPT ![n] = TRUE]
          /\ UNCHANGED trusted
       \/ /\ n \in Persistent
          /\ clustered' = [clustered EXCEPT ![n] = TRUE]
          /\ trusted' = [trusted EXCEPT ![n] = @ \cup {peer}]
       \/ /\ n \in Persistent \cap DiskFails
          /\ trusted' \in {trusted, [trusted EXCEPT ![n] = @ \ {peer}]}
          /\ UNCHANGED clustered

SubmitPins(i) ==
    /\ submit[i] = "pin"
    /\ jpaired' = [jpaired EXCEPT ![i] = PairedOf(jsess[i])]
    /\ PinPeer(Joiner[i], jsess[i].other)
    /\ submit' = [submit EXCEPT ![i] = "clean"]
    /\ UNCHANGED <<sessions, maps, initialX, verdict, cconn, chand, ipaired, faults>>

\* joiners.remove and pending.remove, one step since no other task looks at
\* both maps; after success the ack is posted next, after a failure this ends
\* the call.
SubmitCleanup(i) ==
    /\ submit[i] \in {"clean", "failclean"}
    /\ joiners' = joiners \ {i}
    /\ pending' = pending \ {i}
    /\ submit' = [submit EXCEPT ![i] = IF @ = "clean" THEN "ack" ELSE "failed"]
    /\ cconn' = [cconn EXCEPT
          ![i] = IF submit[i] = "clean" THEN Request("ack", None) ELSE @]
    /\ UNCHANGED <<sessions, inviters, initialX, verdict, chand, trust, faults>>

\* The best-effort posts of `fail` and `ack`: whatever came of them.
SubmitSignalled(i) ==
    /\ submit[i] \in {"fail", "ack"} /\ cconn[i].st \in {"resp", "broken"}
    /\ submit' = [submit EXCEPT ![i] = IF @ = "fail" THEN "failclean" ELSE "done"]
    /\ cconn' = [cconn EXCEPT ![i] = Idle]
    /\ UNCHANGED <<sessions, maps, initialX, verdict, chand, trust, faults>>

-----------------------------------------------------------------------------
(* on_completion_request and on_signal, at the inviter.                    *)

CompletionLookup(i) ==
    /\ cconn[i].st = "sent" /\ cconn[i].phase = "completion"
    /\ IF i \in inviters
       THEN /\ chand' = [chand EXCEPT ![i] = Handler("session", cconn[i].msg)]
            /\ cconn' = [cconn EXCEPT ![i] = Accept(@)]
       ELSE /\ cconn' = [cconn EXCEPT ![i] = Respond(@, 409, None)]
            /\ UNCHANGED chand
    /\ UNCHANGED <<sessions, maps, initialX, submit, verdict, trust, faults>>

\* Answers with EAP success first and pins afterwards.
CompletionSession_replies_first(i) ==
    /\ chand[i].st = "session"
    /\ LET r == IF chand[i].msg = None
                THEN [sess |-> isess[i], send |-> Server_start,
                      panic |-> FALSE, paired |-> FALSE]
                ELSE on_completion(isess[i], chand[i].msg)
       IN  /\ isess' = [isess EXCEPT ![i] = r.sess]
           /\ chand' = [chand EXCEPT
                 ![i] = IF r.paired THEN Handler("pin", r.send) ELSE NoHandler]
           /\ cconn' = [cconn EXCEPT ![i] = Respond(@, 200, r.send)]
           /\ Panics(i, r)
    /\ UNCHANGED <<jsess, maps, initialX, submit, verdict, trust, cancel, crashes>>

\* An empty blob is the kickoff.  A pairing that succeeded is pinned, with no
\* await in between but outside the session lock, before the reply is sent.
CompletionSession(i) ==
    /\ chand[i].st = "session"
    /\ IF chand[i].msg = None
       THEN /\ cconn' = [cconn EXCEPT ![i] = Respond(@, 200, Server_start)]
            /\ chand' = [chand EXCEPT ![i] = NoHandler]
            /\ UNCHANGED <<isess, panicked>>
       ELSE LET r == on_completion(isess[i], chand[i].msg) IN
            /\ isess' = [isess EXCEPT ![i] = r.sess]
            /\ chand' = [chand EXCEPT
                  ![i] = IF r.paired THEN Handler("pin", r.send) ELSE NoHandler]
            /\ cconn' = [cconn EXCEPT
                  ![i] = IF r.panic THEN Break(@)
                         ELSE IF r.err THEN Respond(@, 400, None)
                         ELSE IF r.paired THEN @
                         ELSE Respond(@, 200, r.send)]
            /\ Panics(i, r)
    /\ UNCHANGED <<jsess, maps, initialX, submit, verdict, trust, cancel, crashes>>

CompletionPin(i) ==
    /\ chand[i].st = "pin"
    /\ ipaired' = [ipaired EXCEPT ![i] = PairedOf(isess[i])]
    /\ PinPeer(Inviter[i], isess[i].other)
    /\ chand' = [chand EXCEPT ![i] = NoHandler]
    /\ cconn' = [cconn EXCEPT ![i] = Respond(@, 200, chand[i].msg)]
    /\ UNCHANGED <<sessions, maps, initialX, submit, verdict, jpaired, faults>>

\* Acknowledges a `fail` and keeps the session.
OnSignal_ignores_fail(i) ==
    /\ cconn[i].st = "sent" /\ cconn[i].phase \in {"fail", "ack"}
    /\ cconn' = [cconn EXCEPT ![i] = Respond(@, 200, None)]
    /\ UNCHANGED <<sessions, maps, initialX, submit, verdict, chand, trust, faults>>

\* `fail` removes the inviter's session, `ack` changes nothing.
OnSignal(i) ==
    /\ cconn[i].st = "sent" /\ cconn[i].phase \in {"fail", "ack"}
    /\ inviters' = IF cconn[i].phase = "fail" THEN inviters \ {i} ELSE inviters
    /\ cconn' = [cconn EXCEPT ![i] = Respond(@, 200, None)]
    /\ UNCHANGED <<sessions, joiners, pending, initialX, submit, verdict, chand,
                   trust, faults>>

-----------------------------------------------------------------------------
(* Signals this repository handles and never sends: they come from other   *)
(* implementations of the protocol.                                        *)

\* `cancel`, inviter to joiner: joiners.remove, then pending.remove (a cancel
\* of an invite in neither map changes nothing).
CancelJoiner(i) ==
    /\ "cancel" \in ForeignSignals /\ cancel[i] = "none"
    /\ i \in joiners \cup pending
    /\ joiners' = joiners \ {i}
    /\ cancel' = [cancel EXCEPT ![i] = "pending"]
    /\ UNCHANGED <<sessions, inviters, pending, initialX, completionX, trust,
                   crashes, panicked>>

CancelPending(i) ==
    /\ cancel[i] = "pending"
    /\ pending' = pending \ {i}
    /\ cancel' = [cancel EXCEPT ![i] = "done"]
    /\ UNCHANGED <<sessions, inviters, joiners, initialX, completionX, trust,
                   crashes, panicked>>

\* `decline` or `expired`, joiner to inviter, before a PIN was accepted.
Decline(i) ==
    /\ ForeignSignals \cap {"decline", "expired"} # {}
    /\ i \in inviters /\ submit[i] = "idle"
    /\ inviters' = inviters \ {i}
    /\ UNCHANGED <<sessions, joiners, pending, initialX, completionX, trust, faults>>

-----------------------------------------------------------------------------
(* Faults.                                                                 *)

\* A connection breaks: the client sees an error, and a handler that already
\* runs goes on, unless hyper drops it at its next lock (Drop..).
InFlight == {"sent", "open", "resp"}

BreakInitial(i) ==
    /\ Lossy /\ iconn[i].st \in InFlight
    /\ iconn' = [iconn EXCEPT ![i] = Break(@)]
    /\ UNCHANGED <<sessions, maps, create, ihand, completionX, trust, faults>>

BreakCompletion(i) ==
    /\ Lossy /\ cconn[i].st \in InFlight
    /\ cconn' = [cconn EXCEPT ![i] = Break(@)]
    /\ UNCHANGED <<sessions, maps, initialX, submit, verdict, chand, trust, faults>>

DropInitial(i) ==
    /\ ihand[i].st # "none" /\ iconn[i].st # "open"
    /\ ihand' = [ihand EXCEPT ![i] = NoHandler]
    /\ UNCHANGED <<sessions, maps, create, iconn, completionX, trust, faults>>

\* pin_peer follows the session step without an await: only the wait for the
\* session lock can be dropped.
DropCompletion(i) ==
    /\ chand[i].st = "session" /\ cconn[i].st # "open"
    /\ chand' = [chand EXCEPT ![i] = NoHandler]
    /\ UNCHANGED <<sessions, maps, initialX, submit, verdict, cconn, trust, faults>>

\* The dashboard's client goes away during its request: hyper drops the call
\* that serves it at the await it has reached, a post or a lock.  What the
\* other node does with a request it has accepted goes on.
AbandonCreate(i) ==
    /\ Abandons /\ create[i] = "call"
    /\ create' = [create EXCEPT ![i] = "failed"]
    /\ iconn' = [iconn EXCEPT ![i] = Idle]
    /\ UNCHANGED <<sessions, maps, ihand, completionX, trust, faults>>

AbandonSubmit(i) ==
    /\ Abandons /\ submit[i] \in {"call", "pin", "fail", "clean", "failclean", "ack"}
    /\ submit' = [submit EXCEPT ![i] = "failed"]
    /\ cconn' = [cconn EXCEPT ![i] = Idle]
    /\ UNCHANGED <<sessions, maps, initialX, verdict, chand, trust, faults>>

\* The peers whose certificates node n is writing (pin_peer holds the pin store
\* for the write, so it is one at a time).
Writing(n) ==
    {isess[i].other : i \in {j \in Invites : Inviter[j] = n /\ chand[j].st = "pin"}}
    \cup
    {jsess[i].other : i \in {j \in Invites : Joiner[j] = n /\ submit[j] = "pin"}}

\* What a kill may leave without content: nothing, or the file being written.
Tears(n) == {{}} \cup {{peer} : peer \in Writing(n)}

\* A restart that forgets load_trusted_into.
load_or_init_unread(n, torn) == {}

\* What a starting node pins: the certificates of trusted/ that are whole.
load_or_init(n, torn) == trusted[n] \ torn

\* The process of node n ends, leaving the files torn without content, and
\* another one starts: its maps, tasks and connections are gone, its pins are
\* those of trusted/, and it is clustered when there are any.
Restart(n, torn) ==
    LET serves(c) == IF c.st = "open" THEN Break(c) ELSE c IN
    /\ inviters' = {i \in inviters : Inviter[i] # n}
    /\ joiners' = {i \in joiners : Joiner[i] # n}
    /\ pending' = {i \in pending : Joiner[i] # n}
    /\ create' = [i \in Invites |->
          IF Inviter[i] = n /\ create[i] = "call" THEN "failed" ELSE create[i]]
    /\ submit' = [i \in Invites |->
          IF Joiner[i] = n /\ submit[i] \notin {"idle", "done", "failed"}
          THEN "crashed" ELSE submit[i]]
    /\ iconn' = [i \in Invites |->
          IF Inviter[i] = n THEN Idle
          ELSE IF Joiner[i] = n THEN serves(iconn[i]) ELSE iconn[i]]
    /\ ihand' = [i \in Invites |-> IF Joiner[i] = n THEN NoHandler ELSE ihand[i]]
    /\ cconn' = [i \in Invites |->
          IF Joiner[i] = n THEN Idle
          ELSE IF Inviter[i] = n THEN serves(cconn[i]) ELSE cconn[i]]
    /\ chand' = [i \in Invites |-> IF Inviter[i] = n THEN NoHandler ELSE chand[i]]
    /\ cancel' = [i \in Invites |->
          IF Joiner[i] = n /\ cancel[i] = "pending" THEN "done" ELSE cancel[i]]
    /\ trusted' = [trusted EXCEPT ![n] = @ \ torn]
    /\ pins' = [pins EXCEPT ![n] = load_or_init(n, torn)]
    /\ clustered' = [clustered EXCEPT ![n] = load_or_init(n, torn) # {}]
    /\ UNCHANGED <<sessions, verdict, ipaired, jpaired, panicked>>

Crash(n) ==
    /\ crashes < MaxCrashes
    /\ crashes' = crashes + 1
    /\ \E torn \in Tears(n) : Restart(n, torn)

-----------------------------------------------------------------------------
Step(i) ==
    \/ \E noob \in Noobs : CreateReceives(i, noob)
    \/ CreateFails(i)
    \/ InitialLookup(i) \/ InitialSession(i) \/ InitialPending(i)
    \/ SubmitReceives(i) \/ SubmitFails(i) \/ SubmitPins(i)
    \/ SubmitCleanup(i) \/ SubmitSignalled(i)
    \/ CompletionLookup(i) \/ CompletionSession(i) \/ CompletionPin(i)
    \/ OnSignal(i)
    \/ CancelPending(i)

Environment(i) ==
    \/ CreateInvite(i)
    \/ \E noob \in Noobs : SubmitPin(i, noob)
    \/ CancelJoiner(i) \/ Decline(i)
    \/ BreakInitial(i) \/ BreakCompletion(i)
    \/ DropInitial(i) \/ DropCompletion(i)
    \/ AbandonCreate(i) \/ AbandonSubmit(i)

Next ==
    \/ \E i \in Invites : Step(i) \/ Environment(i)
    \/ \E n \in Nodes : Crash(n)

Spec == Init /\ [][Next]_vars

-----------------------------------------------------------------------------
(* Properties.                                                             *)

Conn == [st : {"idle", "sent", "open", "resp", "broken"},
         phase : Option(Phases), status : {0, 200, 400, 409},
         msg : Option(Wire)]
Paired == [peer : Option(Nodes), assoc : Association]

SessionsOK == isess \in [Invites -> Session] /\ jsess \in [Invites -> Session]
MapsOK ==
    /\ inviters \subseteq Invites /\ joiners \subseteq Invites
    /\ pending \subseteq Invites
InitialOK ==
    /\ create \in [Invites -> CreateStates] /\ iconn \in [Invites -> Conn]
    /\ ihand \in [Invites -> [st : {"none", "session", "pending"},
                              msg : Option(Wire)]]
CompletionOK ==
    /\ submit \in [Invites -> SubmitStates]
    /\ verdict \in [Invites -> {"none", "error", "incorrect-pin"}]
    /\ cconn \in [Invites -> Conn]
    /\ chand \in [Invites -> [st : {"none", "session", "pin"},
                              msg : Option(Wire)]]
TrustOK ==
    /\ ipaired \in [Invites -> SUBSET Paired]
    /\ jpaired \in [Invites -> SUBSET Paired]
    /\ pins \in [Nodes -> SUBSET Option(Nodes)]
    /\ trusted \in [Nodes -> SUBSET Option(Nodes)]
    /\ clustered \in [Nodes -> BOOLEAN]
FaultsOK ==
    /\ cancel \in [Invites -> {"none", "pending", "done"}]
    /\ crashes \in 0..MaxCrashes
    /\ panicked \subseteq Invites

\* Every variable stays in its type: in particular each message a handler of
\* node.rs or machine.rs produces is one the other side's handlers are
\* defined for.
TypeOK ==
    SessionsOK /\ MapsOK /\ InitialOK /\ CompletionOK /\ TrustOK /\ FaultsOK

\* No unwrap() of the state machines meets a None in anything two honest
\* nodes can be driven into by users, losses, signals and crashes.
NoPanic == panicked = {}

\* Commit order: the joiner never pins the inviter for an invite unless the
\* inviter pinned the joiner for it before (pin_peer at node.rs:301 runs
\* before the success reply, the joiner's at node.rs:458 after it).
CommitOrder == \A i \in Invites : jpaired[i] # {} => ipaired[i] # {}

\* No two invites are between the same two nodes, and none is of a node to
\* itself: what pin_peer writes is then never a file it rewrites.
FirstPairings ==
    /\ \A i \in Invites : Inviter[i] # Joiner[i]
    /\ \A i, j \in Invites :
          {Inviter[i], Joiner[i]} = {Inviter[j], Joiner[j]} => i = j

\* "written to `trusted/` so trust survives a restart" (pairing.rs:7): where
\* the inviter keeps trusted/ and its writes succeed, its commit is durable,
\* and no crash leaves the joiner trusting a node that has forgotten it.
DurableCommit ==
    \A i \in Invites :
        jpaired[i] # {} /\ Inviter[i] \in Persistent \ DiskFails =>
            Joiner[i] \in trusted[Inviter[i]] \cap pins[Inviter[i]]

\* Both sides pin the real other node, with the same association key and the
\* same cryptosuite, once each.
Agreement ==
    \A i \in Invites :
        /\ Cardinality(ipaired[i]) <= 1 /\ Cardinality(jpaired[i]) <= 1
        /\ \A p \in ipaired[i] : p.peer = Joiner[i] /\ p.assoc.kz # None
        /\ \A q \in jpaired[i] : q.peer = Inviter[i]
        /\ \A p \in ipaired[i], q \in jpaired[i] : p.assoc = q.assoc

\* A node pins another only through an invite between the two whose PIN was
\* minted by the inviter and entered at the joiner, and only if its
\* PairingInfo is valid; a wrong PIN pins nothing.
PinnedOnlyByPin ==
    \A n \in Nodes : \A m \in pins[n] :
        /\ m \in ValidInfo
        /\ \E i \in Invites : /\ {n, m} = {Inviter[i], Joiner[i]}
                             /\ isess[i].noob # None
                             /\ isess[i].noob = jsess[i].noob

\* Membership follows the disk, whichever writes failed and whatever crashed:
\* a clustered node has a peer pinned, a node with a cluster directory is
\* clustered exactly when trusted/ holds one (so a restart does not change
\* what it answers to a new invite), and everything in trusted/ is pinned.
MembershipFollowsDisk ==
    \A n \in Nodes :
        /\ clustered[n] => pins[n] # {}
        /\ n \in Persistent => (clustered[n] <=> trusted[n] # {})
        /\ trusted[n] \subseteq pins[n]

\* The right PIN is never reported as incorrect, whatever fails around it
\* (the code classifies 2003 and 4001, and nothing else, as a wrong PIN).
RightPinNeverBlamed ==
    \A i \in Invites :
        verdict[i] = "incorrect-pin" => jsess[i].noob # isess[i].noob

\* "refuses further inbound joins, matching the reference's single-cluster
\* invariant" (pairing.rs:8): a node joins at most one cluster.
SingleCluster ==
    \A i, j \in Invites :
        /\ Joiner[i] = Joiner[j] /\ Inviter[i] # Inviter[j]
        => jpaired[i] = {} \/ jpaired[j] = {}

\* "A pending inbound invite awaiting the local user's PIN" (node.rs:76): an
\* invite that is listed as pending, whose PIN the inviter displays, takes a
\* PIN whenever no submit_pin is running.
PendingAwaitsPin ==
    \A i \in pending :
        create[i] = "made" /\ submit[i] \in {"idle", "failed"} =>
            i \in joiners /\ OobAllowed(jsess[i])
=============================================================================
