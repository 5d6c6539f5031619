------------------------------- MODULE Routing -------------------------------
(***************************************************************************)
(* The data plane of one node: the RoutingTable (pair-proxy routing.rs),   *)
(* the tasks of main.rs that fill it (two model pollers and the discovery  *)
(* thread), the dashboard's /api/trust/pair (pair-ui), the live proxy      *)
(* (live.rs) and the mutual-TLS /ingress path to a peer (peer.rs,          *)
(* ingress_server.rs, pair-trust mtls.rs).                                 *)
(*                                                                         *)
(* Everything another task may do between an await, a lock and the next is *)
(* possible here: what a poller, a discovery event or a request read is    *)
(* old by the time it is used.  Peers, engines and addresses change under  *)
(* it, MaxChanges times.                                                   *)
(***************************************************************************)
EXTENDS Router, Sequences, FiniteSets

CONSTANTS
    Hosts,          \* addresses of the LAN
    Requests,       \* requests in progress at the loopback proxy
    Engines,        \* what the engine of each node may serve; None is stopped
    AdvertisePort,  \* the SRV port a node announces: "nodeinfo" unless
                    \* OPENPAIR_ADVERTISE_PORT overrides it
    Settings,       \* surroundings the daemon may run in: whether the
                    \* dashboard's pair button is used (ui) and whether
                    \* addresses pass from one peer to another (moves)
    MaxQueue,       \* bound on discovery events not yet handled
    MaxChanges      \* bound on changes of the surroundings

ASSUME RoutingAssumption ==
    /\ None \notin Hosts
    /\ Engines \in [Nodes -> SUBSET ((SUBSET Models) \cup {None})]
    /\ AdvertisePort \in {"nodeinfo", "ingress"}
    /\ Settings \subseteq [ui : BOOLEAN, moves : BOOLEAN]
    /\ MaxQueue \in Nat /\ MaxChanges \in Nat

VARIABLES
    pins,           \* SharedPins: the peers whose certificate is pinned
    local_models, peers,   \* RoutingTable
    lpoll,          \* the local poller's answer not yet stored, or None
    ppoll,          \* the peer poller: peers still to ask, answer not yet stored
    queue, disc,    \* the mpsc channel, the event the discovery thread handles
    ui,             \* the pair() of the dashboard in progress, or None
    req,            \* the requests
    \* the surroundings; told: the peers whose record mDNS has reported as it is
    setting, running, host, engine, trusts, told, changes

table   == <<local_models, peers>>
pollers == <<lpoll, ppoll>>
finding == <<queue, disc>>
world   == <<setting, running, host, engine, trusts, told, changes>>
vars == <<pins, table, pollers, finding, ui, req, world>>

-----------------------------------------------------------------------------
(* RoutingTable.                                                           *)

\* Forgets the pin state of a peer it already knows.
upsert_peer_meta_keeps_pin(m, h, port, pinned) ==
    LET old == IF m \in DOMAIN peers THEN peers[m]
               ELSE [LocalEntry EXCEPT !.pinned = pinned] IN
    [n \in DOMAIN peers \cup {m} |->
        IF n # m THEN peers[n]
        ELSE [host |-> h, ingress_port |-> port, pinned |-> old.pinned,
              models |-> IF m \in DOMAIN peers THEN old.models ELSE {},
              priority_rank |-> None, manually_selected |-> FALSE]]

\* Address and pin state are replaced, the models learned are kept.
upsert_peer_meta(m, h, port, pinned) ==
    [n \in DOMAIN peers \cup {m} |->
        IF n # m THEN peers[n]
        ELSE IF m \in DOMAIN peers
        THEN [peers[m] EXCEPT !.host = h, !.ingress_port = port, !.pinned = pinned]
        ELSE [host |-> h, ingress_port |-> port, pinned |-> pinned, models |-> {},
              priority_rank |-> None, manually_selected |-> FALSE]]

\* Adds to the models known instead of replacing them.
set_peer_models_adds(m, models) ==
    IF m \in DOMAIN peers
    THEN [peers EXCEPT ![m].models = @ \cup models] ELSE peers

set_peer_models(m, models) ==
    IF m \in DOMAIN peers THEN [peers EXCEPT ![m].models = models] ELSE peers

\* Every peer, pinned or not.
pinned_peers_all ==
    {[node |-> m, host |-> peers[m].host, port |-> peers[m].ingress_port] :
        m \in DOMAIN peers}

pinned_peers ==
    {[node |-> m, host |-> peers[m].host, port |-> peers[m].ingress_port] :
        m \in {n \in DOMAIN peers : peers[n].pinned}}

-----------------------------------------------------------------------------
(* Mutual TLS and the engines.                                             *)

\* A verifier that accepts every certificate.
accept_any(store, cert) == TRUE

\* PinnedPeerVerifier::accept: pinned by anyone's uuid, not the expected one's.
accept(store, cert) == cert \in store

\* The node a connection to h:port completes its handshake with: at most one.
Reached(h, port) ==
    {m \in running : /\ host[m] = h /\ port = "ingress"
                     /\ accept(pins, m) /\ accept(trusts[m], Self)}

\* forward_raw to the engine of a node: 502 stands for its Err.
forward_raw(n, model) ==
    IF engine[n] = None THEN 502
    ELSE IF model = None \/ model \in engine[n] THEN 200 ELSE 404

\* GET /api/tags through /ingress: a stopped engine answers 502 with no data,
\* which parses as no models.
peer_tags(m) == IF engine[m] = None THEN {} ELSE engine[m]

-----------------------------------------------------------------------------
\* What the engines of all nodes may serve at one time.
EngineStates ==
    {e \in [Nodes -> UNION {Engines[n] : n \in Nodes}] :
        \A n \in Nodes : e[n] \in Engines[n]}

\* A request for a model, with the peer and address it was routed to.
Asked(st, model, to, h, port, code) ==
    [st |-> st, model |-> model, to |-> to, host |-> h, port |-> port,
     at |-> None, code |-> code]

NewRequest == Asked("new", None, None, None, None, 0)

Init ==
    /\ pins = {} /\ local_models = {} /\ peers = [m \in {} |-> LocalEntry]
    /\ lpoll = None /\ ppoll = [todo |-> {}, got |-> None]
    /\ queue = <<>> /\ disc = None /\ ui = None
    /\ req = [r \in Requests |-> NewRequest]
    /\ setting \in Settings
    /\ running = Peers
    /\ host \in {f \in [Peers -> Hosts] : \A m, n \in Peers : f[m] = f[n] => m = n}
    /\ engine \in EngineStates
    /\ trusts = [m \in Peers |-> {}]
    /\ told = {} /\ changes = 0

-----------------------------------------------------------------------------
(* The pollers.                                                            *)

\* fetch_local_models; an engine that does not answer leaves the list alone.
LocalFetch ==
    /\ lpoll = None /\ engine[Self] # None
    /\ lpoll' = [models |-> engine[Self]]
    /\ UNCHANGED <<pins, table, ppoll, finding, ui, req, world>>

LocalStore ==
    /\ lpoll # None
    /\ local_models' = lpoll.models
    /\ lpoll' = None
    /\ UNCHANGED <<pins, peers, ppoll, finding, ui, req, world>>

PollPeers ==
    /\ ppoll = [todo |-> {}, got |-> None]
    /\ ppoll' = [ppoll EXCEPT !.todo = pinned_peers]
    /\ UNCHANGED <<pins, table, lpoll, finding, ui, req, world>>

\* An answer is kept over a peer that does not answer.
FetchPeer_keeps_answer ==
    \E t \in ppoll.todo :
        /\ ppoll' = [todo |-> ppoll.todo \ {t},
                     got  |-> IF Reached(t.host, t.port) = {}
                              THEN IF ppoll.got = None THEN None
                                   ELSE [ppoll.got EXCEPT !.node = t.node]
                              ELSE [node |-> t.node,
                                    models |-> UNION {peer_tags(m) :
                                        m \in Reached(t.host, t.port)}]]
        /\ UNCHANGED <<pins, table, lpoll, finding, ui, req, world>>

\* fetch_peer_models of one peer, at the address it had when the round began;
\* a peer that is not reached is skipped and keeps its models.
FetchPeer ==
    /\ ppoll.got = None
    /\ \E t \in ppoll.todo :
         ppoll' = [todo |-> ppoll.todo \ {t},
                   got  |-> IF Reached(t.host, t.port) = {} THEN None
                            ELSE [node |-> t.node,
                                  models |-> UNION {peer_tags(m) :
                                      m \in Reached(t.host, t.port)}]]
    /\ UNCHANGED <<pins, table, lpoll, finding, ui, req, world>>

StorePeer ==
    /\ ppoll.got # None
    /\ peers' = set_peer_models(ppoll.got.node, ppoll.got.models)
    /\ ppoll' = [ppoll EXCEPT !.got = None]
    /\ UNCHANGED <<pins, local_models, lpoll, finding, ui, req, world>>

-----------------------------------------------------------------------------
(* Discovery.                                                              *)

\* The browse thread forwards a ServiceResolved: a peer's, this node's own or
\* one without a uuid.  mdns-sd sends it for a new or changed record, and may
\* send it again for an old one.
Resolve(n) ==
    /\ n \in running \cup {Self, None} /\ Len(queue) < MaxQueue
    /\ queue' = Append(queue, [node |-> n,
                               host |-> IF n \in Peers THEN host[n] ELSE None])
    /\ told' = told \cup ({n} \cap Peers)
    /\ UNCHANGED <<pins, table, pollers, disc, ui, req, setting, running, host, engine,
                   trusts, changes>>

\* Takes this node's own announcement for a peer's.
DiscoverRead_own ==
    /\ disc = None /\ queue # <<>>
    /\ queue' = Tail(queue)
    /\ LET e == Head(queue) IN
         disc' = IF e.node = None THEN None
                 ELSE [node |-> e.node, host |-> e.host, pinned |-> e.node \in pins]
    /\ UNCHANGED <<pins, table, pollers, ui, req, world>>

\* The discovery thread reads the pins first, then writes the table.
DiscoverRead ==
    /\ disc = None /\ queue # <<>>
    /\ queue' = Tail(queue)
    /\ LET e == Head(queue) IN
         disc' = IF e.node \in {Self, None} THEN None
                 ELSE [node |-> e.node, host |-> e.host, pinned |-> e.node \in pins]
    /\ UNCHANGED <<pins, table, pollers, ui, req, world>>

DiscoverWrite ==
    /\ disc # None
    /\ peers' = upsert_peer_meta(disc.node, disc.host, AdvertisePort, disc.pinned)
    /\ disc' = None
    /\ UNCHANGED <<pins, local_models, pollers, queue, ui, req, world>>

-----------------------------------------------------------------------------
(* Trust: this node pins a peer (pairing, /api/trust/add, dev trust), a    *)
(* peer pins this node.  No pin is ever undone while its node runs.        *)

PinPeer(m) ==
    /\ m \notin pins
    /\ pins' = pins \cup {m}
    /\ UNCHANGED <<table, pollers, finding, ui, req, world>>

PeerPins(m) ==
    /\ m \in running /\ Self \notin trusts[m]
    /\ trusts' = [trusts EXCEPT ![m] = @ \cup {Self}]
    /\ UNCHANGED <<pins, table, pollers, finding, ui, req, setting, running, host,
                   engine, told, changes>>

At(h) == {m \in running : host[m] = h}

\* pair() of the dashboard, with an await between its four steps: the peer's
\* status, its certificate, our certificate to it, the routing entry.  The
\* dashboard asked is another OpenPAIR's: a node paired with itself and a
\* status without node_uuid, entered as "", are left out.
UiStatus(h) ==
    /\ setting.ui /\ ui = None
    /\ \E m \in At(h) : ui' = [st |-> "status", node |-> m, host |-> h]
    /\ UNCHANGED <<pins, table, pollers, finding, req, world>>

UiCert ==
    /\ ui # None /\ ui.st = "status"
    /\ \E m \in At(ui.host) : pins' = pins \cup {m}
    /\ ui' = [ui EXCEPT !.st = "cert"]
    /\ UNCHANGED <<table, pollers, finding, req, world>>

UiAdd ==
    /\ ui # None /\ ui.st = "cert"
    /\ \E m \in At(ui.host) : trusts' = [trusts EXCEPT ![m] = @ \cup {Self}]
    /\ ui' = [ui EXCEPT !.st = "added"]
    /\ UNCHANGED <<pins, table, pollers, finding, req, setting, running, host, engine,
                   told, changes>>

\* The entry is written before the peer's certificate is pinned.
UiUpsert_first ==
    /\ ui # None /\ ui.st = "status"
    /\ peers' = upsert_peer_meta(ui.node, ui.host, "ingress", TRUE)
    /\ ui' = None
    /\ UNCHANGED <<pins, local_models, pollers, finding, req, world>>

UiUpsert ==
    /\ ui # None /\ ui.st = "added"
    /\ peers' = upsert_peer_meta(ui.node, ui.host, "ingress", TRUE)
    /\ ui' = None
    /\ UNCHANGED <<pins, local_models, pollers, finding, req, world>>

\* Any of the three calls fails: pair() returns, undoing nothing.
UiFails ==
    /\ ui # None
    /\ ui' = None
    /\ UNCHANGED <<pins, table, pollers, finding, req, world>>

-----------------------------------------------------------------------------
(* The live proxy.                                                         *)

Answered(q, code) == [q EXCEPT !.st = "done", !.code = code]
Posted(q, m) == [q EXCEPT !.st = "posted", !.at = m]

Answer(r, code) == req' = [req EXCEPT ![r] = Answered(@, code)]

\* route_inner decides under the read lock.
Route(r, model) ==
    /\ req[r].st \in {"new", "done"}
    /\ LET choices == select(candidates_for(local_models, peers, model))
           Becomes(q) == req' = [req EXCEPT ![r] = q]
       IN  \/ choices = {} /\ Becomes(Asked("done", model, None, None, None, 503))
           \/ \E c \in choices :
                 Becomes(Asked(IF c.is_self THEN "local" ELSE "peer", model,
                               c.node, c.host, c.ingress_port, 0))
    /\ UNCHANGED <<pins, table, pollers, finding, ui, world>>

ForwardLocal(r) ==
    /\ req[r].st = "local"
    /\ Answer(r, forward_raw(Self, req[r].model))
    /\ UNCHANGED <<pins, table, pollers, finding, ui, world>>

\* forward_to_peer: connect and handshake, then the envelope is posted.
Connect(r) ==
    /\ req[r].st = "peer"
    /\ LET there == Reached(req[r].host, req[r].port) IN
         \/ there = {} /\ Answer(r, 502)
         \/ \E m \in there : req' = [req EXCEPT ![r] = Posted(@, m)]
    /\ UNCHANGED <<pins, table, pollers, finding, ui, world>>

\* The peer's handle() asks its own engine, and never routes any further.
Ingress(r) ==
    /\ req[r].st = "posted"
    /\ Answer(r, forward_raw(req[r].at, req[r].model))
    /\ UNCHANGED <<pins, table, pollers, finding, ui, world>>

-----------------------------------------------------------------------------
(* The surroundings.                                                       *)

Change == changes < MaxChanges /\ changes' = changes + 1

\* Requests posted to a peer that stops or changes its address get an Err.
CutOff(m) ==
    req' = [r \in Requests |->
              IF req[r].st = "posted" /\ req[r].at = m
              THEN Answered(req[r], 502) ELSE req[r]]

StopPeer(m) ==
    /\ Change /\ m \in running
    /\ running' = running \ {m}
    /\ CutOff(m)
    /\ UNCHANGED <<pins, table, pollers, finding, ui, setting, host, engine, trusts,
                   told>>

\* A restarted peer still has the pins of its trusted/ directory, and none of
\* those that were only in memory.  Its record is new if its goodbye was seen.
StartPeer(m) ==
    /\ Change /\ m \notin running /\ At(host[m]) = {}
    /\ running' = running \cup {m}
    /\ trusts' \in {trusts, [trusts EXCEPT ![m] = {}]}
    /\ told' \in {told, told \ {m}}
    /\ UNCHANGED <<pins, table, pollers, finding, ui, req, setting, host, engine>>

\* The peer's address changes to one no running peer has.
MovePeer(m, h) ==
    /\ setting.moves /\ Change /\ At(h) = {} /\ host[m] # h
    /\ host' = [host EXCEPT ![m] = h]
    /\ told' = told \ {m}
    /\ CutOff(m)
    /\ UNCHANGED <<pins, table, pollers, finding, ui, setting, running, engine, trusts>>

EngineChanges(n, e) ==
    /\ Change /\ engine[n] # e
    /\ engine' = [engine EXCEPT ![n] = e]
    /\ UNCHANGED <<pins, table, pollers, finding, ui, req, setting, running, host,
                   trusts, told>>

-----------------------------------------------------------------------------
Serving(r) == ForwardLocal(r) \/ Connect(r) \/ Ingress(r)
LocalPoller == LocalFetch \/ LocalStore
PeerPoller == PollPeers \/ FetchPeer \/ StorePeer
Discoverer == DiscoverRead \/ DiscoverWrite
Ui == (\E h \in Hosts : UiStatus(h)) \/ UiCert \/ UiAdd \/ UiUpsert \/ UiFails

Surroundings ==
    \/ \E n \in Nodes \cup {None} : Resolve(n)
    \/ \E m \in Peers : PinPeer(m) \/ PeerPins(m) \/ StopPeer(m) \/ StartPeer(m)
    \/ \E m \in Peers, h \in Hosts : MovePeer(m, h)
    \/ \E n \in Nodes : \E e \in Engines[n] : EngineChanges(n, e)

Next ==
    \/ LocalPoller \/ PeerPoller \/ Discoverer \/ Ui
    \/ \E r \in Requests : Serving(r) \/ \E m \in Models \cup {None} : Route(r, m)
    \/ Surroundings

Spec == Init /\ [][Next]_vars

\* The daemon's own tasks loop for ever; a connection answers or breaks.
FairSpec ==
    Spec /\ WF_vars(LocalPoller) /\ WF_vars(PeerPoller) /\ WF_vars(Discoverer)

\* A record mdns-sd has not reported yet, or not since it changed.
NewRecord(m) == m \notin told /\ Resolve(m)

\* The same, and mDNS reports every new or changed record of a running peer.
\* Only the bound on the queue can keep it waiting, hence strong fairness.
DiscoverySpec == FairSpec /\ \A m \in Peers : SF_vars(NewRecord(m))

-----------------------------------------------------------------------------
(* Properties.                                                             *)

Entry == [host : Hosts, ingress_port : {"nodeinfo", "ingress"}, pinned : BOOLEAN,
          models : SUBSET Models, priority_rank : {None},
          manually_selected : {FALSE}]
OptHost == Hosts \cup {None}
\* A peer's announcement has its address; the others are dropped unread.
Event == [node : Peers, host : Hosts] \cup [node : {Self, None}, host : {None}]

\* Every variable stays in its type: discovery never enters this node or a
\* record without a uuid into the table.
TypeOK ==
    /\ pins \subseteq Peers /\ local_models \subseteq Models
    /\ DOMAIN peers \subseteq Peers /\ peers \in [DOMAIN peers -> Entry]
    /\ lpoll \in {None} \cup [models : SUBSET Models]
    /\ ppoll \in [todo : SUBSET [node : Peers, host : Hosts,
                                 port : {"nodeinfo", "ingress"}],
                  got : {None} \cup [node : Peers, models : SUBSET Models]]
    /\ queue \in Seq(Event)
    /\ disc \in {None} \cup [node : Peers, host : Hosts, pinned : BOOLEAN]
    /\ ui \in {None} \cup [st : {"status", "cert", "added"}, node : Peers, host : Hosts]
    /\ req \in [Requests ->
          [st : {"new", "local", "peer", "posted", "done"},
           model : Models \cup {None}, to : Nodes \cup {None}, host : OptHost,
           port : {"nodeinfo", "ingress", None}, at : Peers \cup {None},
           code : {0, 200, 404, 502, 503}]]
    /\ setting \in Settings /\ running \subseteq Peers /\ host \in [Peers -> Hosts]
    /\ engine \in EngineStates
    /\ trusts \in [Peers -> SUBSET {Self}] /\ told \subseteq Peers
    /\ changes \in 0..MaxChanges

\* "Requests only ever leave over mTLS to a pinned peer" (router.rs:6-7): a
\* request in progress at a peer is at one that this node has pinned and that
\* has pinned this node, also when the address in the table has passed to
\* another node since, or the peer restarted and forgot this node.
LeavesToPinned ==
    \A r \in Requests : req[r].st = "posted" =>
        req[r].at \in pins /\ Self \in trusts[req[r].at]

\* A peer that is not pinned never gets models, so no request ever goes to it,
\* even if a pinned peer now answers at the address it had (pinned_peers
\* filters before the poll, main.rs:251) - unless pair() raced a move.
ModelsOnlyOfPinned ==
    ~(setting.ui /\ setting.moves) =>
        \A m \in DOMAIN peers : peers[m].models # {} => m \in pins

\* While addresses stay put, models are attributed to the peer that has them:
\* a request is only ever sent to a peer whose engine served the model at some
\* time, however old the poll and the table entry are.
RoutedToOwner ==
    ~setting.moves => \A r \in Requests :
        req[r].to \in Peers => req[r].model \in UNION (Engines[req[r].to] \ {None})

\* "True once the peer's certificate is pinned" (routing.rs:18): an entry is
\* marked pinned only if its node is - unless an address passed to another
\* node between the four calls of a pair().
PinnedFlagSound ==
    ~(setting.ui /\ setting.moves) =>
        \A m \in DOMAIN peers : peers[m].pinned => m \in pins

Routable(m) ==
    /\ m \in DOMAIN peers /\ peers[m].pinned
    /\ m \in Reached(peers[m].host, peers[m].ingress_port)

\* Once the surroundings settle, the table holds what the local engine and
\* every peer it can reach serve, and nothing older.
PollsConverge ==
    /\ <>[](engine[Self] # None => local_models = engine[Self])
    /\ \A m \in Peers : <>[](Routable(m) => peers[m].models = peer_tags(m))

\* This node and a running peer have pinned each other.
Paired(m) == m \in running /\ m \in pins /\ Self \in trusts[m]
Polled(m) == m \in DOMAIN peers /\ peers[m].models = peer_tags(m)

\* "The pinned peer is then picked up by the existing mDNS discovery for model
\* polling and cluster routing" (PAIRING.md:155-156): once the surroundings
\* settle, the models of every running peer that is paired are known.
PairedPeerPolled == \A m \in Peers : <>[](Paired(m) => Polled(m))

\* The same sentence for the peers mDNS has something to tell of once they are
\* pinned: a record that is new or changed after the pin brings its peer into
\* the table as pinned (main.rs:320), and the poller learns its models, for
\* good, whatever older events were still queued or being handled.
AnnouncedPeerPolled ==
    \A m \in Peers :
        [](m \in pins /\ m \notin told => <>[](Paired(m) => Polled(m)))
=============================================================================
