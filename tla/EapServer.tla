------------------------------ MODULE EapServer ------------------------------
(***************************************************************************)
(* The EAP-NOOB Server (the inviter's side), machine.rs `impl Server`.     *)
(* Every handler reads only the session and the message: like the code,    *)
(* none checks that its message type is the one expected next.             *)
(***************************************************************************)
EXTENDS EapNoob

\* Server::start: the Type 1 Discovery request; the session is unchanged.
Server_start == [Wire0 EXCEPT !.type = 1]

check_peer_id(s, wm) == s.peer_id = None \/ wm.peer_id = s.peer_id

build_negotiation(s0) ==
    LET id    == Fresh(s0)
        offer == [vers |-> ServerVersions, peer_id |-> id,
                  cryptosuites |-> ServerSuites, dirs |-> ServerDirs,
                  info |-> s0.info]
        s     == [Drew(s0) EXCEPT !.peer_id = id, !.offer = offer]
    IN  Send(s, [Wire0 EXCEPT !.type = 2, !.peer_id = id, !.offer = offer])

build_key_exchange(s0) ==
    LET kp == generate(s0)
        s  == [Drew(s0) EXCEPT !.keypair = kp, !.pks = kp]
    IN  Send(s, [Wire0 EXCEPT !.type = 3, !.peer_id = s.peer_id, !.pk = kp])

Server_on_negotiation(s, wm) ==
    LET c == wm.choice IN
    IF \/ ~check_peer_id(s, wm)
       \/ c = None
       \/ c.verp \notin Elems(ServerVersions)
       \/ c.csp \notin Elems(ServerSuites) \/ from_id(c.csp) = 0
       \/ c.dirp \notin 1..3
       \/ Bits(c.dirp) \cap Bits(ServerDirs) = {}
    THEN fail(s)
    ELSE build_key_exchange([s EXCEPT !.csp = c.csp, !.dirp = c.dirp,
                                      !.choice = c])

\* Ends the Initial Exchange: Waiting, and EAP failure as RFC 9140 asks.
Server_on_key_exchange(s, wm) ==
    IF ~check_peer_id(s, wm) \/ wm.pk = None THEN fail(s)
    ELSE IF s.keypair = None THEN Panic(s)
    ELSE LET z == compute_z(s.keypair, wm.pk) IN
         IF z = {} THEN fail(s)
         ELSE Done([s EXCEPT !.z = z, !.pkp = wm.pk, !.state = Waiting],
                   result_bytes("failure"), FALSE)

build_waiting(s) == Send(s, [Wire0 EXCEPT !.type = 4, !.peer_id = s.peer_id])

build_completion(s0) ==
    LET s == [s0 EXCEPT !.keym = derive_completion(s0)] IN
    Send(s, [Wire0 EXCEPT !.type = 6, !.peer_id = s.peer_id,
                          !.noob_id = compute_noob_id(s.noob),
                          !.mac = compute_mac(s, 2)])

\* A restart instead of the NoobId request: the exchange never advances.
start_completion_restarts(s) ==
    IF s.noob = None THEN fail(s) ELSE Send(s, Server_start)

start_completion(s) ==
    IF s.noob = None THEN fail(s)
    ELSE IF s.peer_state = OobReceived
         THEN Send(s, [Wire0 EXCEPT !.type = 5, !.peer_id = s.peer_id])
         ELSE build_completion(s)

\* Completion only when the Server itself is at OobReceived.
Server_on_discovery_own_state(s0, wm) ==
    LET ps == IF wm.peer_state = None THEN 0 ELSE wm.peer_state
        ss == s0.state
        s  == [s0 EXCEPT !.peer_state = ps]
    IN  IF ss = OobReceived /\ ps \in {Waiting, OobReceived}
        THEN start_completion(s)
        ELSE IF ss = Waiting /\ ps = Waiting THEN build_waiting(s)
        ELSE IF ss = Unregistered \/ ps = Unregistered THEN build_negotiation(s)
        ELSE fail(s)

Server_on_discovery(s0, wm) ==
    LET ps == IF wm.peer_state = None THEN 0 ELSE wm.peer_state
        ss == s0.state
        s  == [s0 EXCEPT !.peer_state = ps]
    IN  IF \/ ss = OobReceived /\ ps \in {Waiting, OobReceived}
           \/ ps = OobReceived /\ ss \in {Waiting, OobReceived}
        THEN start_completion(s)
        ELSE IF ss = Waiting /\ ps = Waiting THEN build_waiting(s)
        ELSE IF ss = Unregistered \/ ps = Unregistered THEN build_negotiation(s)
        ELSE fail(s)

Server_on_noob_id(s, wm) ==
    IF ~check_peer_id(s, wm) THEN fail(s)
    ELSE IF wm.noob_id # compute_noob_id(s.noob)
         THEN fail_code(s, UNRECOGNIZED_OOB_MSG_ID)
         ELSE build_completion(s)

Server_finish(s) == {[csp |-> s.csp, kz |-> s.keym]}

\* MACp is not verified.
Server_on_completion_unverified(s, wm) ==
    IF ~check_peer_id(s, wm) THEN fail(s)
    ELSE IF s.keym = None THEN Panic(s)
    ELSE Done([s EXCEPT !.assoc = Server_finish(s), !.state = Registered],
              result_bytes("success"), TRUE)

Server_on_completion(s, wm) ==
    IF ~check_peer_id(s, wm) THEN fail(s)
    ELSE IF s.keym = None THEN Panic(s)
    ELSE IF wm.mac # compute_mac(s, 1)
         THEN fail_code(s, HMAC_VERIFICATION_FAILED)
         ELSE Done([s EXCEPT !.assoc = Server_finish(s), !.state = Registered],
                   result_bytes("success"), TRUE)

\* The Waiting Exchange ends in EAP success.
done_failure_succeeds(s) == Done(s, result_bytes("success"), FALSE)

done_failure(s) == Done(s, result_bytes("failure"), FALSE)

\* Server::receive; None is a blob that does not parse.
Server_receive(s, wm) ==
    CASE wm = None -> fail(s)
      [] wm # None /\ wm.error_code # None -> peer_error(s, wm.error_code)
      [] wm # None /\ wm.error_code = None ->
           CASE wm.type = 1 -> Server_on_discovery(s, wm)
             [] wm.type = 2 -> Server_on_negotiation(s, wm)
             [] wm.type = 3 -> Server_on_key_exchange(s, wm)
             [] wm.type = 4 -> done_failure(s)
             [] wm.type = 5 -> Server_on_noob_id(s, wm)
             [] wm.type = 6 -> Server_on_completion(s, wm)
             [] OTHER       -> fail(s)

\* Server::oob_output_with: unchanged (an Err) unless OobAllowed.
oob_output_with(s, noob) == [s EXCEPT !.noob = noob]

=============================================================================
