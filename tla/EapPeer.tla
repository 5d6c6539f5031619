------------------------------- MODULE EapPeer -------------------------------
(***************************************************************************)
(* The EAP-NOOB Peer (the joiner's side), machine.rs `impl Peer`.  As in   *)
(* the Server, no handler checks which message type was expected.          *)
(***************************************************************************)
EXTENDS EapNoob

\* EAP success registers the Peer whatever it has verified; without derived
\* keys the association key is all zeros (None here).
Peer_on_result(s, eap) ==
    IF eap = "success"
    THEN Done([s EXCEPT !.assoc = {[csp |-> s.csp, kz |-> s.keym]},
                        !.state = Registered], None, TRUE)
    ELSE Done(s, None, FALSE)

Peer_on_discovery(s) ==
    Send(s, [Wire0 EXCEPT !.type = 1, !.peer_state = s.state,
                          !.peer_id = IF s.state = Unregistered THEN None
                                      ELSE s.peer_id])

\* Forgets to remember the negotiated suite.
Peer_on_negotiation_no_suite(s0, wm) ==
    LET o == wm.offer
        c == [verp |-> 1, csp |-> 2, dirp |-> 2, info |-> s0.info]
        s == [s0 EXCEPT !.peer_id = wm.peer_id, !.dirp = 2, !.offer = o,
                        !.choice = c]
    IN  Send(s, [Wire0 EXCEPT !.type = 2, !.peer_id = wm.peer_id, !.choice = c])

\* The new PeerId is kept even when the negotiation then fails.
Peer_on_negotiation(s0, wm) ==
    LET o    == wm.offer
        verp == best_version(o.vers, PeerVersions)
        csp  == first_supported(o.cryptosuites, PeerSuites)
        dirp == choose_dir(o.dirs, PreferDir)
        c    == [verp |-> verp, csp |-> csp, dirp |-> dirp, info |-> s0.info]
        s    == [s0 EXCEPT !.peer_id = wm.peer_id]
    IN  IF wm.peer_id = None THEN fail(s0)
        ELSE IF o = None \/ None \in {verp, csp, dirp} THEN fail(s)
        ELSE Send([s EXCEPT !.csp = csp, !.dirp = dirp, !.offer = o,
                            !.choice = c],
                  [Wire0 EXCEPT !.type = 2, !.peer_id = wm.peer_id,
                                !.choice = c])

Peer_on_key_exchange(s0, wm) ==
    IF wm.pk = None THEN fail(s0)
    ELSE IF from_id(s0.csp) = 0 THEN Panic(s0)
    ELSE LET kp == generate(s0)
             z  == compute_z(kp, wm.pk)
             s  == [Drew(s0) EXCEPT !.keypair = kp, !.z = z, !.pks = wm.pk,
                                    !.pkp = kp, !.state = Waiting]
         IN  IF z = {} THEN fail(Drew(s0))
             ELSE Send(s, [Wire0 EXCEPT !.type = 3, !.peer_id = s.peer_id,
                                        !.pk = kp])

Peer_on_waiting(s) ==
    Send(s, [Wire0 EXCEPT !.type = 4, !.peer_id = s.peer_id])

Peer_on_noob_id(s) ==
    IF s.noob = None THEN fail(s)
    ELSE Send(s, [Wire0 EXCEPT !.type = 5, !.peer_id = s.peer_id,
                               !.noob_id = compute_noob_id(s.noob)])

\* Verifies MACs before MACp is sent; the state stays OobReceived.
Peer_on_completion(s0, wm) ==
    LET s == [s0 EXCEPT !.keym = derive_completion(s0)] IN
    IF s0.noob = None THEN fail(s0)
    ELSE IF wm.noob_id # compute_noob_id(s0.noob)
         THEN fail_code(s0, UNRECOGNIZED_OOB_MSG_ID)
    ELSE IF wm.mac # compute_mac(s, 2)
         THEN fail_code(s, HMAC_VERIFICATION_FAILED)
    ELSE Send(s, [Wire0 EXCEPT !.type = 6, !.peer_id = s.peer_id,
                               !.mac = compute_mac(s, 1)])

\* Peer::receive: the EAP result is looked at before the error code.
Peer_receive(s, wm) ==
    CASE wm = None -> fail(s)
      [] wm # None /\ wm.eap # None -> Peer_on_result(s, wm.eap)
      [] wm # None /\ wm.eap = None /\ wm.error_code # None ->
           peer_error(s, wm.error_code)
      [] wm # None /\ wm.eap = None /\ wm.error_code = None ->
           CASE wm.type = 1 -> Peer_on_discovery(s)
             [] wm.type = 2 -> Peer_on_negotiation(s, wm)
             [] wm.type = 3 -> Peer_on_key_exchange(s, wm)
             [] wm.type = 4 -> Peer_on_waiting(s)
             [] wm.type = 5 -> Peer_on_noob_id(s)
             [] wm.type = 6 -> Peer_on_completion(s, wm)
             [] OTHER       -> fail(s)

\* Peer::oob_input_noob, when OobAllowed.
oob_input_noob(s, noob) == [s EXCEPT !.noob = noob, !.state = OobReceived]

=============================================================================
