---------------------------- MODULE RoutingProofs ----------------------------
(* Theorems about Routing, for every set of nodes, addresses, models and    *)
(* requests, every behaviour of the engines and every setting.              *)
EXTENDS Routing, TLAPS

-----------------------------------------------------------------------------
(* The inductive invariants.                                               *)

\* A request in progress at a peer: the two have pinned each other, and the
\* peer runs, for one that stops forgets what it held in memory.
PostedAlive ==
    \A r \in Requests : req[r].st = "posted" =>
        /\ req[r].at \in pins /\ req[r].at \in running
        /\ Self \in trusts[req[r].at]

\* What the tasks have read and not yet written is about pinned peers: the
\* entries to be marked, the peers to be asked and the answer to be stored.
PinnedReads ==
    /\ disc # None => (disc.pinned => disc.node \in pins)
    /\ \A t \in ppoll.todo : t.node \in pins
    /\ ppoll.got # None => ppoll.got.node \in pins
    /\ ui # None => (ui.st \in {"cert", "added"} => ui.node \in pins)

PinnedEntries ==
    \A m \in DOMAIN peers :
        (peers[m].pinned \/ peers[m].models # {}) => m \in pins

\* pair() runs only where the dashboard is used.
UiUsed == ui # None => setting.ui

\* While addresses stay put, every address held anywhere is its node's own.
OwnAddresses ==
    /\ \A m, n \in Peers : host[m] = host[n] => m = n
    /\ \A m \in DOMAIN peers : peers[m].host = host[m]
    /\ \A t \in ppoll.todo : t.host = host[t.node]
    /\ \A i \in 1..Len(queue) :
          queue[i].node \in Peers => queue[i].host = host[queue[i].node]
    /\ disc # None => disc.host = host[disc.node]
    /\ ui # None => ui.host = host[ui.node]

\* The models a node may ever serve.
Owned(m) == UNION (Engines[m] \ {None})

OwnModels ==
    /\ \A m \in DOMAIN peers : peers[m].models \subseteq Owned(m)
    /\ ppoll.got # None => ppoll.got.models \subseteq Owned(ppoll.got.node)
    /\ \A r \in Requests : req[r].to \in Peers => req[r].model \in Owned(req[r].to)

PinInv ==
    /\ UiUsed
    /\ ~setting.moves => OwnAddresses
    /\ ~(setting.ui /\ setting.moves) => PinnedReads /\ PinnedEntries

OwnerInv == ~setting.moves => OwnAddresses /\ OwnModels

-----------------------------------------------------------------------------
(* What the operators return.                                              *)

\* A chosen candidate advertises the model, and is this node or pinned.
LEMMA SelectEligible ==
    ASSUME NEW cs, NEW c \in select(cs)
    PROVE  c \in cs /\ c.advertises_model /\ (c.is_self \/ c.pinned)
BY DEF select, eligible

\* It is this node without an address, or a peer of the table that is pinned
\* and advertises the model, at the address of its entry.
LEMMA ChosenType ==
    ASSUME TypeOK, NEW model \in Models \cup {None},
           NEW c \in select(candidates_for(local_models, peers, model))
    PROVE  \/ /\ c.is_self = TRUE /\ c.node = Self
              /\ c.host = None /\ c.ingress_port = None
           \/ /\ c.is_self = FALSE /\ c.node \in DOMAIN peers /\ c.node \in Peers
              /\ model \in peers[c.node].models /\ peers[c.node].pinned
              /\ c.host = peers[c.node].host
              /\ c.ingress_port = peers[c.node].ingress_port
<1>1. /\ c \in candidates_for(local_models, peers, model)
      /\ c.advertises_model /\ (c.is_self \/ c.pinned)
  BY SelectEligible
<1>2. CASE c = Candidate(Self, LocalEntry, model = None \/ model \in local_models)
  BY <1>2 DEF Candidate, LocalEntry
<1>3. CASE \E m \in DOMAIN peers : c = Candidate(m, peers[m], model \in peers[m].models)
  <2>1. PICK m \in DOMAIN peers : c = Candidate(m, peers[m], model \in peers[m].models)
    BY <1>3
  <2>2. m \in Peers /\ m # Self
    BY DEF TypeOK, Peers
  <2>3. /\ c.node = m /\ c.is_self = FALSE /\ c.advertises_model = (model \in peers[m].models)
        /\ c.pinned = peers[m].pinned
        /\ c.host = peers[m].host /\ c.ingress_port = peers[m].ingress_port
    BY <2>1, <2>2 DEF Candidate
  <2> QED
    BY <1>1, <2>2, <2>3
<1> QED
  BY <1>1, <1>2, <1>3 DEF candidates_for

\* The discovery thread writes the entry of one peer and keeps its models.
LEMMA DiscoverWritten ==
    ASSUME TypeOK, DiscoverWrite
    PROVE  LET m == disc.node IN
           /\ m \in Peers /\ disc.host \in Hosts
           /\ DOMAIN peers' = DOMAIN peers \cup {m}
           /\ peers' \in [DOMAIN peers' -> Entry]
           /\ \A n \in DOMAIN peers : n # m => peers'[n] = peers[n]
           /\ peers'[m].host = disc.host
           /\ peers'[m].pinned = disc.pinned
           /\ peers'[m].models = IF m \in DOMAIN peers THEN peers[m].models ELSE {}
<1> DEFINE m == disc.node
<1>1. peers \in [DOMAIN peers -> Entry] /\ disc # None
      /\ AdvertisePort \in {"nodeinfo", "ingress"} /\ disc.host \in Hosts
      /\ m \in Peers /\ disc.pinned \in BOOLEAN
  BY RoutingAssumption DEF DiscoverWrite, TypeOK
<1>2. peers' = [n \in DOMAIN peers \cup {m} |->
                 IF n # m THEN peers[n]
                 ELSE IF m \in DOMAIN peers
                 THEN [peers[m] EXCEPT !.host = disc.host, !.ingress_port = AdvertisePort,
                                       !.pinned = disc.pinned]
                 ELSE [host |-> disc.host, ingress_port |-> AdvertisePort,
                       pinned |-> disc.pinned, models |-> {}, priority_rank |-> None,
                       manually_selected |-> FALSE]]
  BY DEF DiscoverWrite, upsert_peer_meta
<1>3. CASE m \in DOMAIN peers
  <2>1. peers[m] \in Entry
    BY <1>1, <1>3
  <2>2. peers'[m] = [peers[m] EXCEPT !.host = disc.host, !.ingress_port = AdvertisePort,
                                     !.pinned = disc.pinned]
    BY <1>2, <1>3
  <2>3. peers'[m] \in Entry /\ peers'[m].host = disc.host
        /\ peers'[m].pinned = disc.pinned /\ peers'[m].models = peers[m].models
    BY <1>1, <2>1, <2>2 DEF Entry
  <2> QED
    BY <1>1, <1>2, <1>3, <2>3
<1>4. CASE m \notin DOMAIN peers
  <2>1. peers'[m] = [host |-> disc.host, ingress_port |-> AdvertisePort,
                     pinned |-> disc.pinned, models |-> {}, priority_rank |-> None,
                     manually_selected |-> FALSE]
    BY <1>2, <1>4
  <2>2. peers'[m] \in Entry /\ peers'[m].host = disc.host
        /\ peers'[m].pinned = disc.pinned /\ peers'[m].models = {}
    BY <1>1, <2>1 DEF Entry
  <2> QED
    BY <1>1, <1>2, <1>4, <2>2
<1> QED
  BY <1>3, <1>4

\* So does pair().
LEMMA UiWritten ==
    ASSUME TypeOK, UiUpsert
    PROVE  LET m == ui.node IN
           /\ m \in Peers /\ ui.host \in Hosts
           /\ DOMAIN peers' = DOMAIN peers \cup {m}
           /\ peers' \in [DOMAIN peers' -> Entry]
           /\ \A n \in DOMAIN peers : n # m => peers'[n] = peers[n]
           /\ peers'[m].host = ui.host
           /\ peers'[m].pinned = TRUE
           /\ peers'[m].models = IF m \in DOMAIN peers THEN peers[m].models ELSE {}
<1> DEFINE m == ui.node
<1>1. peers \in [DOMAIN peers -> Entry] /\ ui # None
      /\ "ingress" \in {"nodeinfo", "ingress"} /\ ui.host \in Hosts
      /\ m \in Peers /\ TRUE \in BOOLEAN
  BY RoutingAssumption DEF UiUpsert, TypeOK
<1>2. peers' = [n \in DOMAIN peers \cup {m} |->
                 IF n # m THEN peers[n]
                 ELSE IF m \in DOMAIN peers
                 THEN [peers[m] EXCEPT !.host = ui.host, !.ingress_port = "ingress",
                                       !.pinned = TRUE]
                 ELSE [host |-> ui.host, ingress_port |-> "ingress",
                       pinned |-> TRUE, models |-> {}, priority_rank |-> None,
                       manually_selected |-> FALSE]]
  BY DEF UiUpsert, upsert_peer_meta
<1>3. CASE m \in DOMAIN peers
  <2>1. peers[m] \in Entry
    BY <1>1, <1>3
  <2>2. peers'[m] = [peers[m] EXCEPT !.host = ui.host, !.ingress_port = "ingress",
                                     !.pinned = TRUE]
    BY <1>2, <1>3
  <2>3. peers'[m] \in Entry /\ peers'[m].host = ui.host
        /\ peers'[m].pinned = TRUE /\ peers'[m].models = peers[m].models
    BY <1>1, <2>1, <2>2 DEF Entry
  <2> QED
    BY <1>1, <1>2, <1>3, <2>3
<1>4. CASE m \notin DOMAIN peers
  <2>1. peers'[m] = [host |-> ui.host, ingress_port |-> "ingress",
                     pinned |-> TRUE, models |-> {}, priority_rank |-> None,
                     manually_selected |-> FALSE]
    BY <1>2, <1>4
  <2>2. peers'[m] \in Entry /\ peers'[m].host = ui.host
        /\ peers'[m].pinned = TRUE /\ peers'[m].models = {}
    BY <1>1, <2>1 DEF Entry
  <2> QED
    BY <1>1, <1>2, <1>4, <2>2
<1> QED
  BY <1>3, <1>4

LEMMA SetModelsType ==
    ASSUME TypeOK, NEW m, NEW models \in SUBSET Models,
           NEW new, new = set_peer_models(m, models)
    PROVE  /\ DOMAIN new = DOMAIN peers
           /\ new \in [DOMAIN new -> Entry]
           /\ \A n \in DOMAIN peers :
                 /\ new[n].host = peers[n].host /\ new[n].pinned = peers[n].pinned
                 /\ new[n].models = IF n = m THEN models ELSE peers[n].models
<1>1. peers \in [DOMAIN peers -> Entry]
  BY DEF TypeOK
<1>2. CASE m \in DOMAIN peers
  <2>1. new = [peers EXCEPT ![m].models = models]
    BY <1>2 DEF set_peer_models
  <2>2. [peers[m] EXCEPT !.models = models] \in Entry
    BY <1>1, <1>2 DEF Entry
  <2>3. [peers EXCEPT ![m].models = models] \in [DOMAIN peers -> Entry]
    BY <1>1, <1>2, <2>2
  <2>4. \A n \in DOMAIN peers : peers[n] \in Entry
    BY <1>1
  <2>5. ASSUME NEW n \in DOMAIN peers
        PROVE  /\ new[n].host = peers[n].host /\ new[n].pinned = peers[n].pinned
               /\ new[n].models = IF n = m THEN models ELSE peers[n].models
    BY <2>1, <2>4 DEF Entry
  <2> QED
    BY <2>1, <2>3, <2>5
<1>3. CASE m \notin DOMAIN peers
  BY <1>1, <1>3 DEF set_peer_models
<1> QED
  BY <1>2, <1>3

\* A peer answers with models it may serve.
LEMMA EngineType ==
    ASSUME TypeOK, NEW n \in Nodes
    PROVE  /\ engine[n] \in Engines[n] /\ engine[n] \in (SUBSET Models) \cup {None}
           /\ peer_tags(n) \subseteq Models
           /\ peer_tags(n) \subseteq Owned(n)
<1>1. engine[n] \in Engines[n] /\ Engines[n] \subseteq (SUBSET Models) \cup {None}
  BY RoutingAssumption DEF TypeOK, EngineStates
<1>2. CASE engine[n] = None
  BY <1>1, <1>2 DEF peer_tags
<1>3. CASE engine[n] # None
  <2>1. peer_tags(n) = engine[n] /\ engine[n] \in SUBSET Models
    BY <1>1, <1>3 DEF peer_tags
  <2>2. engine[n] \in Engines[n] \ {None}
    BY <1>1, <1>3
  <2>3. engine[n] \subseteq UNION (Engines[n] \ {None})
    BY <2>2
  <2> QED
    BY <1>1, <2>1, <2>3 DEF Owned
<1> QED
  BY <1>2, <1>3

\* A connection completes with a running, pinned peer that has pinned us.
LEMMA ReachedSound ==
    ASSUME TypeOK, NEW h, NEW port, NEW m \in Reached(h, port)
    PROVE  /\ m \in Peers /\ m \in running /\ host[m] = h
           /\ m \in pins /\ Self \in trusts[m]
BY DEF TypeOK, Reached, accept

-----------------------------------------------------------------------------
(* Type correctness, one group of actors after the other.                  *)

LEMMA PollerTypes == TypeOK /\ (LocalPoller \/ PeerPoller) => TypeOK'
<1> SUFFICES ASSUME TypeOK, LocalPoller \/ PeerPoller
             PROVE  TypeOK'
  OBVIOUS
<1>1. CASE LocalFetch
  <2>1. engine[Self] \in SUBSET Models
    BY <1>1, EngineType, RouterAssumption DEF LocalFetch
  <2>2. lpoll' \in {None} \cup [models : SUBSET Models]
    BY <1>1, <2>1 DEF LocalFetch
  <2> QED
    BY <1>1, <2>2 DEF LocalFetch, TypeOK, vars, table, finding, world
<1>2. CASE LocalStore
  BY <1>2 DEF LocalStore, TypeOK, finding, world
<1>3. CASE PollPeers
  <2>1. peers \in [DOMAIN peers -> Entry] /\ DOMAIN peers \subseteq Peers
    BY DEF TypeOK
  <2>2. ASSUME NEW t \in pinned_peers
        PROVE  t \in [node : Peers, host : Hosts, port : {"nodeinfo", "ingress"}]
    <3>1. PICK m \in DOMAIN peers :
             t = [node |-> m, host |-> peers[m].host, port |-> peers[m].ingress_port]
      BY DEF pinned_peers
    <3>2. peers[m] \in Entry /\ m \in Peers
      BY <2>1
    <3> QED
      BY <3>1, <3>2 DEF Entry
  <2>3. pinned_peers \in
          SUBSET [node : Peers, host : Hosts, port : {"nodeinfo", "ingress"}]
    BY <2>2
  <2>4. ppoll'.todo = pinned_peers /\ ppoll'.got = None
        /\ ppoll' = [todo |-> pinned_peers, got |-> None]
    BY <1>3 DEF PollPeers
  <2> HIDE DEF pinned_peers
  <2> QED
    BY <1>3, <2>3, <2>4 DEF PollPeers, TypeOK, table, finding, world
<1>4. CASE FetchPeer
  <2>1. PICK t \in ppoll.todo :
           ppoll' = [todo |-> ppoll.todo \ {t},
                     got  |-> IF Reached(t.host, t.port) = {} THEN None
                              ELSE [node |-> t.node,
                                    models |-> UNION {peer_tags(m) :
                                        m \in Reached(t.host, t.port)}]]
    BY <1>4 DEF FetchPeer
  <2> DEFINE models == UNION {peer_tags(m) : m \in Reached(t.host, t.port)}
  <2>2. models \subseteq Models
    BY ReachedSound, EngineType DEF Peers
  <2> HIDE DEF models
  <2>3. /\ t.node \in Peers
        /\ ppoll.todo \ {t} \in SUBSET [node : Peers, host : Hosts,
                                        port : {"nodeinfo", "ingress"}]
    BY DEF TypeOK
  <2>4. ppoll' \in [todo : SUBSET [node : Peers, host : Hosts,
                                   port : {"nodeinfo", "ingress"}],
                    got : {None} \cup [node : Peers, models : SUBSET Models]]
    BY <2>1, <2>2, <2>3 DEF models
  <2> QED
    BY <1>4, <2>4 DEF FetchPeer, TypeOK, table, finding, world
<1>5. CASE StorePeer
  <2>1. ppoll.got \in [node : Peers, models : SUBSET Models]
    BY <1>5 DEF StorePeer, TypeOK
  <2>2. peers' = set_peer_models(ppoll.got.node, ppoll.got.models)
        /\ ppoll.got.models \in SUBSET Models
    BY <1>5, <2>1 DEF StorePeer
  <2>3. DOMAIN peers' = DOMAIN peers /\ peers' \in [DOMAIN peers' -> Entry]
    BY <2>2, SetModelsType
  <2> QED
    BY <1>5, <2>3 DEF StorePeer, TypeOK, finding, world
<1> QED
  BY <1>1, <1>2, <1>3, <1>4, <1>5 DEF LocalPoller, PeerPoller

LEMMA DiscovererTypes == TypeOK /\ Discoverer => TypeOK'
<1> SUFFICES ASSUME TypeOK, Discoverer
             PROVE  TypeOK'
  OBVIOUS
<1>1. CASE DiscoverRead
  <2> DEFINE e == Head(queue)
  <2>1. queue \in Seq(Event) /\ queue # <<>>
    BY <1>1 DEF DiscoverRead, TypeOK
  <2>2. e \in Event /\ queue' \in Seq(Event)
    BY <1>1, <2>1 DEF DiscoverRead
  <2>3. disc' \in {None} \cup [node : Peers, host : Hosts, pinned : BOOLEAN]
    <3>1. CASE e.node \in {Self, None}
      BY <1>1, <3>1 DEF DiscoverRead
    <3>2. CASE e.node \notin {Self, None}
      <4>1. e.node \in Peers /\ e.host \in Hosts
        BY <2>2, <3>2 DEF Event
      <4>2. disc' = [node |-> e.node, host |-> e.host, pinned |-> e.node \in pins]
        BY <1>1, <3>2 DEF DiscoverRead
      <4> QED
        BY <4>1, <4>2
    <3> QED
      BY <3>1, <3>2
  <2> QED
    BY <1>1, <2>2, <2>3 DEF DiscoverRead, TypeOK, table, pollers, world
<1>2. CASE DiscoverWrite
  <2>1. /\ DOMAIN peers' = DOMAIN peers \cup {disc.node} /\ disc.node \in Peers
        /\ peers' \in [DOMAIN peers' -> Entry]
    BY <1>2, DiscoverWritten
  <2> QED
    BY <1>2, <2>1 DEF DiscoverWrite, TypeOK, pollers, world
<1> QED
  BY <1>1, <1>2 DEF Discoverer

LEMMA UiTypes == TypeOK /\ Ui => TypeOK'
<1> SUFFICES ASSUME TypeOK, Ui
             PROVE  TypeOK'
  OBVIOUS
<1> DEFINE Pairing == [st : {"status", "cert", "added"}, node : Peers, host : Hosts]
<1>1. ASSUME NEW h \in Hosts, UiStatus(h)
      PROVE  TypeOK'
  <2>1. PICK m \in At(h) : ui' = [st |-> "status", node |-> m, host |-> h]
    BY <1>1 DEF UiStatus
  <2>2. m \in Peers
    BY DEF At, TypeOK
  <2> QED
    BY <1>1, <2>1, <2>2 DEF UiStatus, TypeOK, table, pollers, finding, world
<1>2. CASE UiCert
  <2>1. ui \in Pairing
    BY <1>2 DEF UiCert, TypeOK
  <2>2. ui' \in Pairing /\ pins' \subseteq Peers
    BY <1>2, <2>1 DEF UiCert, TypeOK, At
  <2> QED
    BY <1>2, <2>2 DEF UiCert, TypeOK, table, pollers, finding, world
<1>3. CASE UiAdd
  <2>1. ui \in Pairing
    BY <1>3 DEF UiAdd, TypeOK
  <2>2. ui' \in Pairing
    BY <1>3, <2>1 DEF UiAdd
  <2>3. trusts' \in [Peers -> SUBSET {Self}]
    BY <1>3 DEF UiAdd, TypeOK, At
  <2> QED
    BY <1>3, <2>2, <2>3 DEF UiAdd, TypeOK, table, pollers, finding
<1>4. CASE UiUpsert
  <2>1. /\ DOMAIN peers' = DOMAIN peers \cup {ui.node} /\ ui.node \in Peers
        /\ peers' \in [DOMAIN peers' -> Entry]
    BY <1>4, UiWritten
  <2>2. /\ DOMAIN peers' \subseteq Peers
        /\ peers' \in [DOMAIN peers' -> Entry]
    BY <2>1 DEF TypeOK
  <2>3. /\ ui' = None
        /\ UNCHANGED <<pins, local_models, lpoll, ppoll, queue, disc, req,
                      setting, running, host, engine, trusts, told, changes>>
    BY <1>4 DEF UiUpsert, pollers, finding, world
  <2> QED
    BY <2>2, <2>3 DEF TypeOK
<1>5. CASE UiFails
  BY <1>5 DEF UiFails, TypeOK, table, pollers, finding, world
<1> QED
  BY <1>1, <1>2, <1>3, <1>4, <1>5 DEF Ui

Request == [st : {"new", "local", "peer", "posted", "done"},
            model : Models \cup {None}, to : Nodes \cup {None}, host : OptHost,
            port : {"nodeinfo", "ingress", None}, at : Peers \cup {None},
            code : {0, 200, 404, 502, 503}]

Codes == {200, 404, 502, 503}

\* What becomes of a request: a routed one, one in progress at a peer, and one
\* that is answered.
LEMMA AskedType ==
    ASSUME NEW st \in {"local", "peer", "done"}, NEW model \in Models \cup {None},
           NEW to \in Nodes \cup {None}, NEW h \in OptHost,
           NEW port \in {"nodeinfo", "ingress", None}, NEW code \in {0, 503}
    PROVE  /\ Asked(st, model, to, h, port, code) \in Request
           /\ Asked(st, model, to, h, port, code).st = st
           /\ Asked(st, model, to, h, port, code).model = model
           /\ Asked(st, model, to, h, port, code).to = to
BY DEF Asked, Request

LEMMA PostedType ==
    ASSUME NEW q \in Request, NEW m \in Peers
    PROVE  /\ Posted(q, m) \in Request /\ Posted(q, m).at = m
           /\ Posted(q, m).to = q.to /\ Posted(q, m).model = q.model
<1> DEFINE o == [q EXCEPT !.st = "posted"]
<1>1. o \in Request /\ o.st = "posted" /\ o.to = q.to /\ o.model = q.model
  BY DEF Request
<1>2. Posted(q, m) = [o EXCEPT !.at = m]
  BY DEF Posted
<1> HIDE DEF o
<1> QED
  BY <1>1, <1>2 DEF Request

LEMMA AnsweredType ==
    ASSUME NEW q \in Request, NEW code \in Codes
    PROVE  /\ Answered(q, code) \in Request /\ Answered(q, code).st = "done"
           /\ Answered(q, code).to = q.to /\ Answered(q, code).model = q.model
<1>0. code \in {0, 200, 404, 502, 503}
  BY DEF Codes
<1> DEFINE o == [q EXCEPT !.st = "done"]
<1>1. o \in Request /\ o.st = "done" /\ o.to = q.to /\ o.model = q.model
  BY DEF Request
<1>2. Answered(q, code) = [o EXCEPT !.code = code]
  BY DEF Answered
<1> HIDE DEF o
<1> QED
  BY <1>0, <1>1, <1>2 DEF Request

\* A routed request: answered 503, for this node, or bound for a pinned peer
\* that advertises the model.
LEMMA Routed ==
    ASSUME TypeOK, NEW r \in Requests, NEW model \in Models \cup {None},
           Route(r, model)
    PROVE  \E q \in Request :
              /\ req' = [req EXCEPT ![r] = q]
              /\ q.st # "posted" /\ q.model = model
              /\ q.to \in Peers =>
                    q.to \in DOMAIN peers /\ model \in peers[q.to].models
<1> DEFINE choices == select(candidates_for(local_models, peers, model))
<1>1. None \notin Peers /\ Self \notin Peers /\ Self \in Nodes
  BY RouterAssumption DEF Peers
<1>2. CASE req' = [req EXCEPT ![r] = Asked("done", model, None, None, None, 503)]
  <2> DEFINE q == Asked("done", model, None, None, None, 503)
  <2>1. q \in Request /\ q.st = "done" /\ q.model = model /\ q.to = None
    BY AskedType DEF OptHost
  <2> HIDE DEF q
  <2> QED
    BY <1>1, <1>2, <2>1 DEF q
<1>3. ASSUME NEW c \in choices,
             req' = [req EXCEPT ![r] =
                Asked(IF c.is_self THEN "local" ELSE "peer", model,
                      c.node, c.host, c.ingress_port, 0)]
      PROVE  \E q \in Request :
                /\ req' = [req EXCEPT ![r] = q]
                /\ q.st # "posted" /\ q.model = model
                /\ q.to \in Peers =>
                      q.to \in DOMAIN peers /\ model \in peers[q.to].models
  <2> DEFINE st == IF c.is_self THEN "local" ELSE "peer"
             q == Asked(st, model, c.node, c.host, c.ingress_port, 0)
  <2>1. CASE c.is_self = TRUE /\ c.node = Self /\ c.host = None /\ c.ingress_port = None
    <3>1. c.node \in Nodes \cup {None} /\ c.host \in OptHost
          /\ c.ingress_port \in {"nodeinfo", "ingress", None}
          /\ st \in {"local", "peer", "done"} /\ st # "posted"
      BY <1>1, <2>1 DEF OptHost
    <3> HIDE DEF st
    <3>2. q \in Request /\ q.st = st /\ q.model = model /\ q.to = c.node
      BY <3>1, AskedType
    <3> HIDE DEF q
    <3> QED
      BY <1>1, <1>3, <2>1, <3>1, <3>2 DEF q, st
  <2>2. CASE /\ c.is_self = FALSE /\ c.node \in DOMAIN peers /\ c.node \in Peers
             /\ model \in peers[c.node].models /\ peers[c.node].pinned
             /\ c.host = peers[c.node].host
             /\ c.ingress_port = peers[c.node].ingress_port
    <3>1. peers[c.node] \in Entry
      BY <2>2 DEF TypeOK
    <3>2. c.node \in Nodes \cup {None} /\ c.host \in OptHost
          /\ c.ingress_port \in {"nodeinfo", "ingress", None}
          /\ st \in {"local", "peer", "done"} /\ st # "posted"
      BY <2>2, <3>1 DEF Entry, OptHost, Peers
    <3> HIDE DEF st
    <3>3. q \in Request /\ q.st = st /\ q.model = model /\ q.to = c.node
      BY <3>2, AskedType
    <3> HIDE DEF q
    <3> QED
      BY <1>3, <2>2, <3>2, <3>3 DEF q, st
  <2> HIDE DEF choices
  <2> QED
    BY <2>1, <2>2, ChosenType DEF choices
<1> QED
  BY <1>2, <1>3 DEF Route

\* forward_raw answers with one of three codes.
LEMMA ForwardCodes ==
    \A n, model : forward_raw(n, model) \in Codes
BY DEF forward_raw, Codes

LEMMA ProxyTypes ==
    ASSUME TypeOK, NEW r \in Requests,
           Serving(r) \/ \E m \in Models \cup {None} : Route(r, m)
    PROVE  TypeOK'
<1>1. req \in [Requests -> Request]
  BY DEF TypeOK, Request
<1>2. ASSUME req' \in [Requests -> Request],
             UNCHANGED <<pins, table, pollers, finding, ui, world>>
      PROVE  TypeOK'
  BY <1>2 DEF TypeOK, Request, table, pollers, finding, world
<1>3. ASSUME NEW model \in Models \cup {None}, Route(r, model)
      PROVE  TypeOK'
  <2>1. PICK q \in Request : req' = [req EXCEPT ![r] = q]
    BY <1>3, Routed
  <2>2. req' \in [Requests -> Request]
    BY <1>1, <2>1
  <2> QED
    BY <1>2, <1>3, <2>2 DEF Route
<1>4. ASSUME NEW code \in Codes, Answer(r, code)
      PROVE  req' \in [Requests -> Request]
  <2>1. Answered(req[r], code) \in Request
    BY <1>1, AnsweredType
  <2> QED
    BY <1>1, <1>4, <2>1 DEF Answer
<1>5. CASE ForwardLocal(r)
  <2>1. Answer(r, forward_raw(Self, req[r].model))
    BY <1>5 DEF ForwardLocal
  <2>2. req' \in [Requests -> Request]
    BY <1>4, <2>1, ForwardCodes
  <2> QED
    BY <1>2, <1>5, <2>2 DEF ForwardLocal
<1>6. CASE Connect(r)
  <2>1. CASE Answer(r, 502)
    BY <1>2, <1>4, <1>6, <2>1 DEF Connect, Codes
  <2>2. CASE \E m \in Reached(req[r].host, req[r].port) :
                req' = [req EXCEPT ![r] = Posted(@, m)]
    <3>1. PICK m \in Reached(req[r].host, req[r].port) :
             req' = [req EXCEPT ![r] = Posted(@, m)]
      BY <2>2
    <3>2. m \in Peers
      BY ReachedSound
    <3>3. Posted(req[r], m) \in Request
      BY <1>1, <3>2, PostedType
    <3>4. req' \in [Requests -> Request]
      BY <1>1, <3>1, <3>3
    <3> QED
      BY <1>2, <1>6, <3>4 DEF Connect
  <2> QED
    BY <1>6, <2>1, <2>2 DEF Connect
<1>7. CASE Ingress(r)
  <2>1. Answer(r, forward_raw(req[r].at, req[r].model))
    BY <1>7 DEF Ingress
  <2>2. req' \in [Requests -> Request]
    BY <1>4, <2>1, ForwardCodes
  <2> QED
    BY <1>2, <1>7, <2>2 DEF Ingress
<1> QED
  BY <1>3, <1>5, <1>6, <1>7 DEF Serving

\* A peer that goes away leaves every request typed, and none at it.
LEMMA CutOffTypes ==
    ASSUME TypeOK, NEW m, CutOff(m)
    PROVE  /\ req' \in [Requests -> Request]
           /\ \A r \in Requests :
                 /\ req'[r].to = req[r].to /\ req'[r].model = req[r].model
                 /\ req'[r].st = "posted" => req'[r] = req[r] /\ req[r].at # m
<1>1. req \in [Requests -> Request] /\ 502 \in Codes
  BY DEF TypeOK, Request, Codes
<1>2. req' = [r \in Requests |->
                IF req[r].st = "posted" /\ req[r].at = m
                THEN Answered(req[r], 502) ELSE req[r]]
  BY DEF CutOff
<1>3. ASSUME NEW r \in Requests
      PROVE  /\ req'[r] \in Request
             /\ req'[r].to = req[r].to /\ req'[r].model = req[r].model
             /\ req'[r].st = "posted" => req'[r] = req[r] /\ req[r].at # m
  <2>1. CASE req[r].st = "posted" /\ req[r].at = m
    <3>1. req'[r] = Answered(req[r], 502) /\ req[r] \in Request
      BY <1>1, <1>2, <2>1
    <3> QED
      BY <1>1, <3>1, AnsweredType
  <2>2. CASE ~(req[r].st = "posted" /\ req[r].at = m)
    BY <1>1, <1>2, <2>2
  <2> QED
    BY <2>1, <2>2
<1>4. req' \in [Requests -> Request]
  BY <1>2, <1>3
<1> QED
  BY <1>3, <1>4

LEMMA ChangeType ==
    ASSUME TypeOK, Change
    PROVE  changes' \in 0..MaxChanges
BY RoutingAssumption DEF TypeOK, Change

LEMMA SurroundingsTypes == TypeOK /\ Surroundings => TypeOK'
<1> SUFFICES ASSUME TypeOK, Surroundings
             PROVE  TypeOK'
  OBVIOUS
<1>1. ASSUME NEW n \in Nodes \cup {None}, Resolve(n)
      PROVE  TypeOK'
  <2> DEFINE e == [node |-> n, host |-> IF n \in Peers THEN host[n] ELSE None]
  <2>1. host \in [Peers -> Hosts] /\ (n \in Peers \/ n \in {Self, None})
    BY DEF TypeOK, Peers
  <2>2. e \in Event
    <3>1. CASE n \in Peers
      BY <2>1, <3>1 DEF Event
    <3>2. CASE n \notin Peers
      BY <2>1, <3>2 DEF Event
    <3> QED
      BY <3>1, <3>2
  <2>3. queue' = Append(queue, e) /\ queue \in Seq(Event)
    BY <1>1 DEF Resolve, TypeOK
  <2> HIDE DEF e
  <2>4. queue' \in Seq(Event)
    BY <2>2, <2>3
  <2> QED
    BY <1>1, <2>4 DEF Resolve, TypeOK, table, pollers, world
<1>2. ASSUME NEW m \in Peers, PinPeer(m)
      PROVE  TypeOK'
  BY <1>2 DEF PinPeer, TypeOK, table, pollers, finding, world
<1>3. ASSUME NEW m \in Peers, PeerPins(m)
      PROVE  TypeOK'
  <2>1. trusts' \in [Peers -> SUBSET {Self}]
    BY <1>3 DEF PeerPins, TypeOK
  <2> QED
    BY <1>3, <2>1 DEF PeerPins, TypeOK, table, pollers, finding
<1>4. ASSUME NEW m \in Peers, StopPeer(m)
      PROVE  TypeOK'
  <2>1. changes' \in 0..MaxChanges /\ req' \in [Requests -> Request]
    BY <1>4, ChangeType, CutOffTypes DEF StopPeer
  <2> QED
    BY <1>4, <2>1 DEF StopPeer, TypeOK, Request, table, pollers, finding
<1>5. ASSUME NEW m \in Peers, StartPeer(m)
      PROVE  TypeOK'
  <2>1. changes' \in 0..MaxChanges
    BY <1>5, ChangeType DEF StartPeer
  <2>2. trusts' \in [Peers -> SUBSET {Self}]
    BY <1>5 DEF StartPeer, TypeOK
  <2> QED
    BY <1>5, <2>1, <2>2 DEF StartPeer, TypeOK, table, pollers, finding
<1>6. ASSUME NEW m \in Peers, NEW h \in Hosts, MovePeer(m, h)
      PROVE  TypeOK'
  <2>1. changes' \in 0..MaxChanges /\ req' \in [Requests -> Request]
    BY <1>6, ChangeType, CutOffTypes DEF MovePeer
  <2>2. host' \in [Peers -> Hosts]
    BY <1>6 DEF MovePeer, TypeOK
  <2> QED
    BY <1>6, <2>1, <2>2 DEF MovePeer, TypeOK, Request, table, pollers, finding
<1>7. ASSUME NEW n \in Nodes, NEW e \in Engines[n], EngineChanges(n, e)
      PROVE  TypeOK'
  <2>1. changes' \in 0..MaxChanges
    BY <1>7, ChangeType DEF EngineChanges
  <2>2. engine \in [Nodes -> UNION {Engines[k] : k \in Nodes}]
        /\ \A k \in Nodes : engine[k] \in Engines[k]
    BY DEF TypeOK, EngineStates
  <2>3. engine' = [engine EXCEPT ![n] = e] /\ e \in UNION {Engines[k] : k \in Nodes}
    BY <1>7 DEF EngineChanges
  <2>4. engine' \in EngineStates
    BY <2>2, <2>3 DEF EngineStates
  <2> QED
    BY <1>7, <2>1, <2>4 DEF EngineChanges, TypeOK, table, pollers, finding
<1> QED
  BY <1>1, <1>2, <1>3, <1>4, <1>5, <1>6, <1>7 DEF Surroundings

LEMMA TypeInit == Init => TypeOK
<1> SUFFICES ASSUME Init
             PROVE  TypeOK
  OBVIOUS
<1>1. /\ DOMAIN peers = {} /\ peers \in [DOMAIN peers -> Entry]
  BY DEF Init
<1>2. NewRequest \in Request
  BY DEF NewRequest, Asked, Request, OptHost
<1>3. req \in [Requests -> Request]
  BY <1>2 DEF Init
<1>4. ppoll \in [todo : SUBSET [node : Peers, host : Hosts,
                                port : {"nodeinfo", "ingress"}],
                 got : {None} \cup [node : Peers, models : SUBSET Models]]
  BY DEF Init
<1>5. host \in [Peers -> Hosts] /\ trusts \in [Peers -> SUBSET {Self}]
      /\ changes \in 0..MaxChanges /\ queue \in Seq(Event)
  BY RoutingAssumption DEF Init
<1> QED
  BY <1>1, <1>3, <1>4, <1>5 DEF Init, TypeOK, Request

LEMMA TypeStep == TypeOK /\ [Next]_vars => TypeOK'
<1>1. ASSUME TypeOK, UNCHANGED vars
      PROVE  TypeOK'
  BY <1>1 DEF vars, table, pollers, finding, world, TypeOK
<1> QED
  BY <1>1, PollerTypes, DiscovererTypes, UiTypes, ProxyTypes, SurroundingsTypes
     DEF Next

\* Every variable of the daemon stays in its type: only other nodes, each with
\* an address, ever enter the table, whatever mDNS reports.
THEOREM Typing == Spec => []TypeOK
BY TypeInit, TypeStep, PTL DEF Spec

-----------------------------------------------------------------------------
(* Requests leave to pinned peers only.                                    *)

\* A step that leaves the requests alone, undoes no pin of this node and no
\* pin of a running peer, and stops no peer, keeps PostedAlive.
LEMMA PostedKept ==
    ASSUME TypeOK, PostedAlive, req' = req, pins \subseteq pins',
           running \subseteq running',
           \A m \in running : trusts[m] \subseteq trusts'[m]
    PROVE  PostedAlive'
BY DEF PostedAlive

LEMMA PostedAnswered ==
    ASSUME TypeOK, PostedAlive, NEW r \in Requests, NEW q \in Request,
           req' = [req EXCEPT ![r] = q], UNCHANGED <<pins, world>>,
           q.st = "posted" => /\ q.at \in pins /\ q.at \in running
                              /\ Self \in trusts[q.at]
    PROVE  PostedAlive'
<1>1. req \in [Requests -> Request]
  BY DEF TypeOK, Request
<1>2. pins' = pins /\ running' = running /\ trusts' = trusts
  BY DEF world
<1>3. ASSUME NEW k \in Requests, req'[k].st = "posted"
      PROVE  /\ req'[k].at \in pins' /\ req'[k].at \in running'
             /\ Self \in trusts'[req'[k].at]
  <2>1. CASE k = r
    BY <1>1, <1>2, <1>3, <2>1
  <2>2. CASE k # r
    BY <1>1, <1>2, <1>3, <2>2 DEF PostedAlive
  <2> QED
    BY <2>1, <2>2
<1> QED
  BY <1>3 DEF PostedAlive

LEMMA PostedProxy ==
    ASSUME TypeOK, PostedAlive, NEW r \in Requests,
           Serving(r) \/ \E m \in Models \cup {None} : Route(r, m)
    PROVE  PostedAlive'
<1>1. req[r] \in Request /\ DOMAIN req = Requests
  BY DEF TypeOK, Request
<1>2. ASSUME NEW code \in Codes, Answer(r, code), UNCHANGED <<pins, world>>
      PROVE  PostedAlive'
  <2>1. Answered(req[r], code) \in Request /\ Answered(req[r], code).st # "posted"
        /\ req' = [req EXCEPT ![r] = Answered(req[r], code)]
    BY <1>1, <1>2, AnsweredType DEF Answer
  <2> QED
    BY <1>2, <2>1, PostedAnswered
<1>3. ASSUME NEW model \in Models \cup {None}, Route(r, model)
      PROVE  PostedAlive'
  <2>1. PICK q \in Request : req' = [req EXCEPT ![r] = q] /\ q.st # "posted"
    BY <1>3, Routed
  <2>2. UNCHANGED <<pins, world>>
    BY <1>3 DEF Route
  <2> QED
    BY <2>1, <2>2, PostedAnswered
<1>4. CASE ForwardLocal(r)
  BY <1>2, <1>4, ForwardCodes DEF ForwardLocal
<1>5. CASE Ingress(r)
  BY <1>2, <1>5, ForwardCodes DEF Ingress
<1>6. CASE Connect(r)
  <2>1. CASE Answer(r, 502)
    BY <1>2, <1>6, <2>1 DEF Connect, Codes
  <2>2. CASE \E m \in Reached(req[r].host, req[r].port) :
                req' = [req EXCEPT ![r] = Posted(@, m)]
    <3>1. PICK m \in Reached(req[r].host, req[r].port) :
             req' = [req EXCEPT ![r] = Posted(@, m)]
      BY <2>2
    <3>2. m \in Peers /\ m \in pins /\ m \in running /\ Self \in trusts[m]
      BY ReachedSound
    <3>3. Posted(req[r], m) \in Request /\ Posted(req[r], m).at = m
          /\ req' = [req EXCEPT ![r] = Posted(req[r], m)]
      BY <1>1, <3>1, <3>2, PostedType
    <3>4. UNCHANGED <<pins, world>>
      BY <1>6 DEF Connect
    <3> QED
      BY <3>2, <3>3, <3>4, PostedAnswered
  <2> QED
    BY <1>6, <2>1, <2>2 DEF Connect
<1> QED
  BY <1>3, <1>4, <1>5, <1>6 DEF Serving

LEMMA PostedSurroundings ==
    TypeOK /\ PostedAlive /\ Surroundings => PostedAlive'
<1> SUFFICES ASSUME TypeOK, PostedAlive, Surroundings
             PROVE  PostedAlive'
  OBVIOUS
<1>0. trusts \in [Peers -> SUBSET {Self}] /\ running \subseteq Peers
  BY DEF TypeOK
<1>1. ASSUME NEW n \in Nodes \cup {None}, Resolve(n)
      PROVE  PostedAlive'
  BY <1>1, PostedKept DEF Resolve, world
<1>2. ASSUME NEW m \in Peers, PinPeer(m)
      PROVE  PostedAlive'
  BY <1>2, PostedKept DEF PinPeer, world
<1>3. ASSUME NEW m \in Peers, PeerPins(m)
      PROVE  PostedAlive'
  <2>1. \A k \in running : trusts[k] \subseteq trusts'[k]
    BY <1>0, <1>3 DEF PeerPins
  <2> QED
    BY <1>3, <2>1, PostedKept DEF PeerPins
<1>4. ASSUME NEW m \in Peers, StopPeer(m)
      PROVE  PostedAlive'
  <2>1. /\ \A r \in Requests : req'[r].st = "posted" =>
              req'[r] = req[r] /\ req[r].at # m
        /\ pins' = pins /\ running' = running \ {m} /\ trusts' = trusts
    BY <1>4, CutOffTypes DEF StopPeer
  <2> QED
    BY <2>1 DEF PostedAlive
<1>5. ASSUME NEW m \in Peers, StartPeer(m)
      PROVE  PostedAlive'
  <2>1. \A k \in running : trusts[k] \subseteq trusts'[k]
    BY <1>0, <1>5 DEF StartPeer
  <2> QED
    BY <1>5, <2>1, PostedKept DEF StartPeer
<1>6. ASSUME NEW m \in Peers, NEW h \in Hosts, MovePeer(m, h)
      PROVE  PostedAlive'
  <2>1. /\ \A r \in Requests : req'[r].st = "posted" => req'[r] = req[r]
        /\ pins' = pins /\ running' = running /\ trusts' = trusts
    BY <1>6, CutOffTypes DEF MovePeer
  <2> QED
    BY <2>1 DEF PostedAlive
<1>7. ASSUME NEW n \in Nodes, NEW e \in Engines[n], EngineChanges(n, e)
      PROVE  PostedAlive'
  BY <1>7, PostedKept DEF EngineChanges
<1> QED
  BY <1>1, <1>2, <1>3, <1>4, <1>5, <1>6, <1>7 DEF Surroundings

LEMMA PostedStep == TypeOK /\ PostedAlive /\ [Next]_vars => PostedAlive'
<1> SUFFICES ASSUME TypeOK, PostedAlive, [Next]_vars
             PROVE  PostedAlive'
  OBVIOUS
<1>1. CASE UNCHANGED vars
  BY <1>1, PostedKept DEF vars, world
<1>2. CASE LocalPoller \/ PeerPoller
  BY <1>2, PostedKept
     DEF LocalPoller, PeerPoller, LocalFetch, LocalStore, PollPeers, FetchPeer,
         StorePeer, world
<1>3. CASE Discoverer
  BY <1>3, PostedKept DEF Discoverer, DiscoverRead, DiscoverWrite, world
<1>4. CASE Ui
  <2>1. CASE UiAdd
    <3>1. \A k \in running : trusts[k] \subseteq trusts'[k]
      BY <2>1 DEF UiAdd, TypeOK
    <3> QED
      BY <2>1, <3>1, PostedKept DEF UiAdd
  <2>2. CASE (\E h \in Hosts : UiStatus(h)) \/ UiCert \/ UiUpsert \/ UiFails
    BY <2>2, PostedKept DEF UiStatus, UiCert, UiUpsert, UiFails, world
  <2> QED
    BY <1>4, <2>1, <2>2 DEF Ui
<1> QED
  BY <1>1, <1>2, <1>3, <1>4, PostedProxy, PostedSurroundings DEF Next

\* "Requests only ever leave over mTLS to a pinned peer" (router.rs:6-7): a
\* request in progress at a peer is at one this node has pinned and that has
\* pinned this node, whatever addresses moved and peers restarted meanwhile.
THEOREM LeavesToPinnedSafe == Spec => []LeavesToPinned
<1>1. Init => PostedAlive
  BY DEF Init, PostedAlive, NewRequest, Asked
<1>2. PostedAlive => LeavesToPinned
  BY DEF PostedAlive, LeavesToPinned
<1> QED
  BY <1>1, <1>2, Typing, PostedStep, PTL DEF Spec

-----------------------------------------------------------------------------
(* While addresses stay put, every address held anywhere is its node's own. *)

LEMMA SettingKept == [Next]_vars => setting' = setting
<1> USE DEF table, pollers, finding, world
<1>1. LocalPoller \/ PeerPoller \/ Discoverer => setting' = setting
  BY DEF LocalPoller, PeerPoller, Discoverer, LocalFetch, LocalStore, PollPeers,
         FetchPeer, StorePeer, DiscoverRead, DiscoverWrite
<1>2. Ui => setting' = setting
  BY DEF Ui, UiStatus, UiCert, UiAdd, UiUpsert, UiFails
<1>3. \A r \in Requests : Serving(r) => setting' = setting
  BY DEF Serving, ForwardLocal, Connect, Ingress
<1>4. \A r, m : Route(r, m) => setting' = setting
  BY DEF Route
<1>5. Surroundings => setting' = setting
  BY DEF Surroundings, Resolve, PinPeer, PeerPins, StopPeer, StartPeer, MovePeer,
         EngineChanges
<1> QED
  BY <1>1, <1>2, <1>3, <1>4, <1>5 DEF Next, vars

\* A step that changes none of the places that hold an address.
LEMMA AddressesKept ==
    ASSUME OwnAddresses, UNCHANGED <<host, peers, ppoll, queue, disc, ui>>
    PROVE  OwnAddresses'
BY DEF OwnAddresses

LEMMA AddressPollers ==
    ASSUME TypeOK, OwnAddresses, LocalPoller \/ PeerPoller
    PROVE  OwnAddresses'
<1> USE DEF table, finding, world
<1>1. CASE LocalFetch
  BY <1>1, AddressesKept DEF LocalFetch
<1>2. CASE LocalStore
  BY <1>2, AddressesKept DEF LocalStore
<1>3. CASE PollPeers
  <2>1. ppoll'.todo = pinned_peers
    BY <1>3 DEF PollPeers
  <2>2. ASSUME NEW t \in pinned_peers
        PROVE  t.host = host[t.node]
    <3>1. PICK m \in DOMAIN peers :
             t = [node |-> m, host |-> peers[m].host, port |-> peers[m].ingress_port]
      BY DEF pinned_peers
    <3> QED
      BY <3>1 DEF OwnAddresses
  <2> HIDE DEF pinned_peers
  <2> QED
    BY <1>3, <2>1, <2>2 DEF PollPeers, OwnAddresses
<1>4. CASE FetchPeer
  <2>1. PICK t \in ppoll.todo : ppoll'.todo = ppoll.todo \ {t}
    BY <1>4 DEF FetchPeer
  <2> QED
    BY <1>4, <2>1 DEF FetchPeer, OwnAddresses
<1>5. CASE StorePeer
  <2>1. ppoll \in [todo : SUBSET [node : Peers, host : Hosts,
                                  port : {"nodeinfo", "ingress"}],
                   got : {None} \cup [node : Peers, models : SUBSET Models]]
        /\ ppoll.got # None
    BY <1>5 DEF StorePeer, TypeOK
  <2>2. ppoll.got.models \in SUBSET Models /\ ppoll'.todo = ppoll.todo
        /\ peers' = set_peer_models(ppoll.got.node, ppoll.got.models)
    BY <1>5, <2>1 DEF StorePeer
  <2>3. DOMAIN peers' = DOMAIN peers /\ \A n \in DOMAIN peers : peers'[n].host = peers[n].host
    BY <2>2, SetModelsType
  <2> QED
    BY <1>5, <2>2, <2>3 DEF StorePeer, OwnAddresses
<1> QED
  BY <1>1, <1>2, <1>3, <1>4, <1>5 DEF LocalPoller, PeerPoller

LEMMA AddressDiscoverer ==
    ASSUME TypeOK, OwnAddresses, Discoverer
    PROVE  OwnAddresses'
<1> USE DEF table, pollers, world
<1>1. CASE DiscoverRead
  <2>1. queue \in Seq(Event) /\ queue # <<>> /\ queue' = Tail(queue)
    BY <1>1 DEF DiscoverRead, TypeOK
  <2>2. Len(queue') = Len(queue) - 1 /\ Len(queue) \in Nat /\ Len(queue) > 0
        /\ \A i \in 1..Len(queue') : queue'[i] = queue[i + 1]
    BY <2>1
  <2>3. \A i \in 1..Len(queue') :
           queue'[i].node \in Peers => queue'[i].host = host[queue'[i].node]
    BY <2>2 DEF OwnAddresses
  <2>4. disc' # None => disc'.host = host[disc'.node]
    <3> DEFINE e == Head(queue)
    <3>1. e = queue[1] /\ e \in Event /\ 1 \in 1..Len(queue)
      BY <2>1, <2>2
    <3>2. CASE e.node \in {Self, None}
      BY <1>1, <3>2 DEF DiscoverRead
    <3>3. CASE e.node \notin {Self, None}
      <4>1. e.node \in Peers /\ e.host = host[e.node]
        BY <3>1, <3>3 DEF Event, OwnAddresses
      <4>2. disc' = [node |-> e.node, host |-> e.host, pinned |-> e.node \in pins]
        BY <1>1, <3>3 DEF DiscoverRead
      <4> QED
        BY <4>1, <4>2
    <3> QED
      BY <3>2, <3>3
  <2> QED
    BY <1>1, <2>3, <2>4 DEF DiscoverRead, OwnAddresses
<1>2. CASE DiscoverWrite
  <2>1. /\ DOMAIN peers' = DOMAIN peers \cup {disc.node}
        /\ \A n \in DOMAIN peers : n # disc.node => peers'[n] = peers[n]
        /\ peers'[disc.node].host = disc.host
    BY <1>2, DiscoverWritten
  <2>2. \A n \in DOMAIN peers' : peers'[n].host = host[n]
    BY <1>2, <2>1 DEF DiscoverWrite, OwnAddresses
  <2> QED
    BY <1>2, <2>2 DEF DiscoverWrite, OwnAddresses
<1> QED
  BY <1>1, <1>2 DEF Discoverer

LEMMA AddressUi ==
    ASSUME TypeOK, OwnAddresses, Ui
    PROVE  OwnAddresses'
<1> USE DEF table, pollers, finding, world
<1>1. ASSUME NEW h \in Hosts, UiStatus(h)
      PROVE  OwnAddresses'
  <2>1. PICK m \in At(h) : ui' = [st |-> "status", node |-> m, host |-> h]
    BY <1>1 DEF UiStatus
  <2> QED
    BY <1>1, <2>1 DEF UiStatus, OwnAddresses, At
<1>2. CASE UiCert
  <2>1. ui'.host = ui.host /\ ui'.node = ui.node /\ ui # None
    BY <1>2 DEF UiCert, TypeOK
  <2> QED
    BY <1>2, <2>1 DEF UiCert, OwnAddresses
<1>3. CASE UiAdd
  <2>1. ui'.host = ui.host /\ ui'.node = ui.node /\ ui # None
    BY <1>3 DEF UiAdd, TypeOK
  <2> QED
    BY <1>3, <2>1 DEF UiAdd, OwnAddresses
<1>4. CASE UiUpsert
  <2>1. /\ DOMAIN peers' = DOMAIN peers \cup {ui.node}
        /\ \A n \in DOMAIN peers : n # ui.node => peers'[n] = peers[n]
        /\ peers'[ui.node].host = ui.host
    BY <1>4, UiWritten
  <2>2. \A n \in DOMAIN peers' : peers'[n].host = host[n]
    BY <1>4, <2>1 DEF UiUpsert, OwnAddresses
  <2> QED
    BY <1>4, <2>2 DEF UiUpsert, OwnAddresses
<1>5. CASE UiFails
  BY <1>5 DEF UiFails, OwnAddresses
<1> QED
  BY <1>1, <1>2, <1>3, <1>4, <1>5 DEF Ui

LEMMA AddressStep ==
    ASSUME TypeOK, OwnAddresses, ~setting.moves, [Next]_vars
    PROVE  OwnAddresses'
<1>1. CASE UNCHANGED vars
  BY <1>1, AddressesKept DEF vars, table, pollers, finding, world
<1>2. ASSUME NEW r \in Requests, Serving(r) \/ \E m \in Models \cup {None} : Route(r, m)
      PROVE  OwnAddresses'
  BY <1>2, AddressesKept
     DEF Serving, ForwardLocal, Connect, Ingress, Route, table, pollers, finding, world
<1>3. CASE Surroundings
  <2>1. ASSUME NEW n \in Nodes \cup {None}, Resolve(n)
        PROVE  OwnAddresses'
    <3> DEFINE e == [node |-> n, host |-> IF n \in Peers THEN host[n] ELSE None]
    <3>1. queue \in Seq(Event) /\ queue' = Append(queue, e)
      BY <2>1 DEF Resolve, TypeOK
    <3>2. e.node \in Peers => e.host = host[e.node]
      OBVIOUS
    <3> HIDE DEF e
    <3>3. Len(queue') = Len(queue) + 1 /\ Len(queue) \in Nat
          /\ \A i \in 1..Len(queue') :
                queue'[i] = IF i = Len(queue) + 1 THEN e ELSE queue[i]
      BY <3>1
    <3>4. ASSUME NEW i \in 1..Len(queue'), queue'[i].node \in Peers
          PROVE  queue'[i].host = host[queue'[i].node]
      <4>1. CASE i = Len(queue) + 1
        BY <3>2, <3>3, <3>4, <4>1
      <4>2. CASE i # Len(queue) + 1
        BY <3>3, <3>4, <4>2 DEF OwnAddresses
      <4> QED
        BY <4>1, <4>2
    <3> QED
      BY <2>1, <3>4 DEF Resolve, OwnAddresses, table, pollers, world
  <2>2. ASSUME NEW m \in Peers, PinPeer(m) \/ PeerPins(m) \/ StopPeer(m) \/ StartPeer(m)
        PROVE  OwnAddresses'
    BY <2>2, AddressesKept
       DEF PinPeer, PeerPins, StopPeer, StartPeer, table, pollers, finding, world
  <2>3. \A m \in Peers, h \in Hosts : ~MovePeer(m, h)
    BY DEF MovePeer
  <2>4. ASSUME NEW n \in Nodes, NEW e \in Engines[n], EngineChanges(n, e)
        PROVE  OwnAddresses'
    BY <2>4, AddressesKept DEF EngineChanges, table, pollers, finding
  <2> QED
    BY <1>3, <2>1, <2>2, <2>3, <2>4 DEF Surroundings
<1> QED
  BY <1>1, <1>2, <1>3, AddressPollers, AddressDiscoverer, AddressUi DEF Next

-----------------------------------------------------------------------------
(* The table marks, polls and routes to pinned peers only.                 *)

LEMMA UiUsedStep == UiUsed /\ [Next]_vars => UiUsed'
<1> SUFFICES ASSUME UiUsed, [Next]_vars
             PROVE  UiUsed'
  OBVIOUS
<1>0. setting' = setting
  BY SettingKept
<1>1. CASE ui' = ui
  BY <1>0, <1>1 DEF UiUsed
<1>2. CASE Ui
  BY <1>0, <1>2 DEF Ui, UiUsed, UiStatus, UiCert, UiAdd, UiUpsert, UiFails
<1>3. CASE Next /\ ~Ui
  <2>1. ui' = ui
    BY <1>3 DEF Next, LocalPoller, PeerPoller, Discoverer, LocalFetch, LocalStore,
      PollPeers, FetchPeer, StorePeer, DiscoverRead, DiscoverWrite, Serving,
      ForwardLocal, Connect, Ingress, Route, Surroundings, Resolve, PinPeer,
      PeerPins, StopPeer, StartPeer, MovePeer, EngineChanges
  <2> QED
    BY <1>1, <2>1
<1>4. CASE UNCHANGED vars
  BY <1>1, <1>4 DEF vars
<1> QED
  BY <1>2, <1>3, <1>4

Pinned == PinnedReads /\ PinnedEntries

LEMMA PinnedKept ==
    ASSUME Pinned, pins \subseteq pins', UNCHANGED <<peers, ppoll, disc, ui>>
    PROVE  Pinned'
BY DEF Pinned, PinnedReads, PinnedEntries

LEMMA PinnedPollers ==
    ASSUME TypeOK, Pinned, LocalPoller \/ PeerPoller
    PROVE  Pinned'
<1> USE DEF table, finding, world
<1>1. CASE LocalFetch \/ LocalStore
  BY <1>1, PinnedKept DEF LocalFetch, LocalStore
<1>2. CASE PollPeers
  <2>1. ppoll'.todo = pinned_peers /\ ppoll'.got = None
    BY <1>2 DEF PollPeers
  <2>2. ASSUME NEW t \in pinned_peers
        PROVE  t.node \in pins
    <3>1. PICK m \in {n \in DOMAIN peers : peers[n].pinned} :
             t = [node |-> m, host |-> peers[m].host, port |-> peers[m].ingress_port]
      BY DEF pinned_peers
    <3> QED
      BY <3>1 DEF Pinned, PinnedEntries
  <2> HIDE DEF pinned_peers
  <2> QED
    BY <1>2, <2>1, <2>2 DEF PollPeers, Pinned, PinnedReads, PinnedEntries
<1>3. CASE FetchPeer
  <2>1. PICK t \in ppoll.todo :
           /\ ppoll'.todo = ppoll.todo \ {t}
           /\ ppoll'.got # None => ppoll'.got.node = t.node
    BY <1>3 DEF FetchPeer
  <2> QED
    BY <1>3, <2>1 DEF FetchPeer, Pinned, PinnedReads, PinnedEntries
<1>4. CASE StorePeer
  <2>1. ppoll \in [todo : SUBSET [node : Peers, host : Hosts,
                                  port : {"nodeinfo", "ingress"}],
                   got : {None} \cup [node : Peers, models : SUBSET Models]]
        /\ ppoll.got # None
    BY <1>4 DEF StorePeer, TypeOK
  <2>2. ppoll.got.models \in SUBSET Models
        /\ ppoll'.todo = ppoll.todo /\ ppoll'.got = None
        /\ peers' = set_peer_models(ppoll.got.node, ppoll.got.models)
    BY <1>4, <2>1 DEF StorePeer
  <2>3. /\ DOMAIN peers' = DOMAIN peers
        /\ \A n \in DOMAIN peers :
              /\ peers'[n].pinned = peers[n].pinned
              /\ n # ppoll.got.node => peers'[n].models = peers[n].models
    BY <2>2, SetModelsType
  <2>4. ppoll.got.node \in pins
    BY <2>1 DEF Pinned, PinnedReads
  <2>5. PinnedEntries'
    BY <1>4, <2>3, <2>4 DEF StorePeer, Pinned, PinnedEntries
  <2> QED
    BY <1>4, <2>2, <2>5 DEF StorePeer, Pinned, PinnedReads
<1> QED
  BY <1>1, <1>2, <1>3, <1>4 DEF LocalPoller, PeerPoller

LEMMA PinnedDiscoverer ==
    ASSUME TypeOK, Pinned, Discoverer
    PROVE  Pinned'
<1> USE DEF table, pollers, world
<1>1. CASE DiscoverRead
  <2>1. disc' # None => (disc'.pinned => disc'.node \in pins)
    BY <1>1 DEF DiscoverRead
  <2> QED
    BY <1>1, <2>1 DEF DiscoverRead, Pinned, PinnedReads, PinnedEntries
<1>2. CASE DiscoverWrite
  <2>1. /\ DOMAIN peers' = DOMAIN peers \cup {disc.node}
        /\ \A n \in DOMAIN peers : n # disc.node => peers'[n] = peers[n]
        /\ peers'[disc.node].pinned = disc.pinned
        /\ peers'[disc.node].models =
              IF disc.node \in DOMAIN peers THEN peers[disc.node].models ELSE {}
    BY <1>2, DiscoverWritten
  <2>2. disc # None /\ pins' = pins /\ disc' = None /\ ppoll' = ppoll /\ ui' = ui
    BY <1>2 DEF DiscoverWrite
  <2>3. PinnedEntries'
    BY <2>1, <2>2 DEF Pinned, PinnedReads, PinnedEntries
  <2> QED
    BY <2>2, <2>3 DEF Pinned, PinnedReads
<1> QED
  BY <1>1, <1>2 DEF Discoverer

\* pair() of the dashboard pins the node whose status it read: with fixed
\* addresses the certificate it fetches is that node's.
LEMMA PinnedUi ==
    ASSUME TypeOK, Pinned, OwnAddresses, Ui
    PROVE  Pinned'
<1> USE DEF table, pollers, finding, world
<1>1. ASSUME NEW h \in Hosts, UiStatus(h)
      PROVE  Pinned'
  BY <1>1 DEF UiStatus, Pinned, PinnedReads, PinnedEntries
<1>2. CASE UiCert
  <2>1. PICK m \in At(ui.host) : pins' = pins \cup {m}
    BY <1>2 DEF UiCert
  <2>2. /\ ui \in [st : {"status", "cert", "added"}, node : Peers, host : Hosts]
        /\ ui # None /\ m \in Peers
    BY <1>2 DEF UiCert, TypeOK, At
  <2>3. m = ui.node
    BY <2>2 DEF OwnAddresses, At
  <2>4. ui'.node = ui.node
    BY <1>2, <2>2 DEF UiCert
  <2> QED
    BY <1>2, <2>1, <2>3, <2>4 DEF UiCert, Pinned, PinnedReads, PinnedEntries
<1>3. CASE UiAdd
  <2>1. ui'.node = ui.node /\ ui # None /\ ui.node \in pins
    BY <1>3 DEF UiAdd, TypeOK, Pinned, PinnedReads
  <2> QED
    BY <1>3, <2>1 DEF UiAdd, Pinned, PinnedReads, PinnedEntries
<1>4. CASE UiUpsert
  <2>1. /\ DOMAIN peers' = DOMAIN peers \cup {ui.node}
        /\ \A n \in DOMAIN peers : n # ui.node => peers'[n] = peers[n]
    BY <1>4, UiWritten
  <2>2. ui.node \in pins /\ pins' = pins /\ disc' = disc /\ ppoll' = ppoll /\ ui' = None
    BY <1>4 DEF UiUpsert, Pinned, PinnedReads
  <2> QED
    BY <2>1, <2>2 DEF Pinned, PinnedReads, PinnedEntries
<1>5. CASE UiFails
  BY <1>5 DEF UiFails, Pinned, PinnedReads, PinnedEntries
<1> QED
  BY <1>1, <1>2, <1>3, <1>4, <1>5 DEF Ui

LEMMA PinnedStep ==
    ASSUME TypeOK, Pinned, Ui => OwnAddresses, [Next]_vars
    PROVE  Pinned'
<1>1. CASE UNCHANGED vars
  BY <1>1, PinnedKept DEF vars, table, pollers, finding, world
<1>2. ASSUME NEW r \in Requests, Serving(r) \/ \E m \in Models \cup {None} : Route(r, m)
      PROVE  Pinned'
  BY <1>2, PinnedKept
     DEF Serving, ForwardLocal, Connect, Ingress, Route, table, pollers, finding, world
<1>3. CASE Surroundings
  BY <1>3, PinnedKept
     DEF Surroundings, Resolve, PinPeer, PeerPins, StopPeer, StartPeer, MovePeer,
         EngineChanges, table, pollers, finding, world
<1> QED
  BY <1>1, <1>2, <1>3, PinnedPollers, PinnedDiscoverer, PinnedUi DEF Next

LEMMA PinInvStep == TypeOK /\ PinInv /\ [Next]_vars => PinInv'
<1> SUFFICES ASSUME TypeOK, PinInv, [Next]_vars
             PROVE  PinInv'
  OBVIOUS
<1>1. setting' = setting /\ UiUsed'
  BY SettingKept, UiUsedStep DEF PinInv
<1>2. (~setting.moves => OwnAddresses)'
  BY <1>1, AddressStep DEF PinInv
<1>3. (~(setting.ui /\ setting.moves) => Pinned)'
  <2>1. Ui => setting.ui
    BY DEF Ui, UiStatus, UiCert, UiAdd, UiUpsert, UiFails, PinInv, UiUsed
  <2> QED
    BY <1>1, <2>1, PinnedStep DEF PinInv, Pinned
<1> QED
  BY <1>1, <1>2, <1>3 DEF PinInv, Pinned

LEMMA PinInvInit == Init => PinInv
BY DEF Init, PinInv, UiUsed, OwnAddresses, PinnedReads, PinnedEntries

LEMMA PinInvariant == Spec => []PinInv
BY PinInvInit, PinInvStep, Typing, PTL DEF Spec

\* "True once the peer's certificate is pinned" (routing.rs:18): however old
\* what the discovery thread or pair() read is when they write it, an entry is
\* marked pinned only if its node is - unless pair() raced a move.
THEOREM PinnedFlagSafe == Spec => []PinnedFlagSound
<1>1. PinInv => PinnedFlagSound
  BY DEF PinInv, PinnedEntries, PinnedFlagSound
<1> QED
  BY <1>1, PinInvariant, PTL

\* Only pinned peers ever get models, so no request goes to another one - again
\* unless pair() raced a move.
THEOREM ModelsOnlyOfPinnedSafe == Spec => []ModelsOnlyOfPinned
<1>1. PinInv => ModelsOnlyOfPinned
  BY DEF PinInv, PinnedEntries, ModelsOnlyOfPinned
<1> QED
  BY <1>1, PinInvariant, PTL

-----------------------------------------------------------------------------
(* Models are attributed to the peer that has them.                        *)

LEMMA ModelsKept ==
    ASSUME OwnModels, UNCHANGED <<peers, req>>, ppoll'.got = ppoll.got
    PROVE  OwnModels'
BY DEF OwnModels

LEMMA ModelsPollers ==
    ASSUME TypeOK, OwnAddresses, OwnModels, LocalPoller \/ PeerPoller
    PROVE  OwnModels'
<1> USE DEF table, finding, world
<1>1. CASE LocalFetch \/ LocalStore
  BY <1>1, ModelsKept DEF LocalFetch, LocalStore
<1>2. CASE PollPeers
  BY <1>2, ModelsKept DEF PollPeers
<1>3. CASE FetchPeer
  <2>1. PICK t \in ppoll.todo :
           ppoll' = [todo |-> ppoll.todo \ {t},
                     got  |-> IF Reached(t.host, t.port) = {} THEN None
                              ELSE [node |-> t.node,
                                    models |-> UNION {peer_tags(m) :
                                        m \in Reached(t.host, t.port)}]]
    BY <1>3 DEF FetchPeer
  <2> DEFINE models == UNION {peer_tags(m) : m \in Reached(t.host, t.port)}
  <2>2. t.node \in Peers /\ t.host = host[t.node]
    BY DEF TypeOK, OwnAddresses
  <2>3. ASSUME NEW m \in Reached(t.host, t.port)
        PROVE  m = t.node /\ peer_tags(m) \subseteq Owned(m)
    <3>1. m \in Peers /\ host[m] = t.host
      BY ReachedSound
    <3> QED
      BY <2>2, <3>1, EngineType DEF OwnAddresses, Peers
  <2>4. models \subseteq Owned(t.node)
    BY <2>3
  <2> HIDE DEF models
  <2>5. ppoll'.got # None => ppoll'.got.models \subseteq Owned(ppoll'.got.node)
    BY <2>1, <2>4 DEF models
  <2> QED
    BY <1>3, <2>5 DEF FetchPeer, OwnModels
<1>4. CASE StorePeer
  <2>1. ppoll \in [todo : SUBSET [node : Peers, host : Hosts,
                                  port : {"nodeinfo", "ingress"}],
                   got : {None} \cup [node : Peers, models : SUBSET Models]]
        /\ ppoll.got # None
    BY <1>4 DEF StorePeer, TypeOK
  <2>2. ppoll.got.models \in SUBSET Models /\ ppoll'.got = None
        /\ peers' = set_peer_models(ppoll.got.node, ppoll.got.models)
    BY <1>4, <2>1 DEF StorePeer
  <2>3. /\ DOMAIN peers' = DOMAIN peers
        /\ \A n \in DOMAIN peers :
              peers'[n].models = IF n = ppoll.got.node THEN ppoll.got.models
                                 ELSE peers[n].models
    BY <2>2, SetModelsType
  <2>4. ppoll.got.models \subseteq Owned(ppoll.got.node)
    BY <2>1 DEF OwnModels
  <2> QED
    BY <1>4, <2>2, <2>3, <2>4 DEF StorePeer, OwnModels
<1> QED
  BY <1>1, <1>2, <1>3, <1>4 DEF LocalPoller, PeerPoller

LEMMA ModelsWriters ==
    ASSUME TypeOK, OwnModels, Discoverer \/ Ui
    PROVE  OwnModels'
<1> USE DEF table, pollers, finding, world
<1>1. CASE DiscoverRead \/ (\E h \in Hosts : UiStatus(h)) \/ UiCert \/ UiAdd \/ UiFails
  BY <1>1, ModelsKept DEF DiscoverRead, UiStatus, UiCert, UiAdd, UiFails
<1>2. CASE DiscoverWrite
  <2>1. /\ DOMAIN peers' = DOMAIN peers \cup {disc.node}
        /\ \A n \in DOMAIN peers : n # disc.node => peers'[n] = peers[n]
        /\ peers'[disc.node].models =
              IF disc.node \in DOMAIN peers THEN peers[disc.node].models ELSE {}
    BY <1>2, DiscoverWritten
  <2> QED
    BY <1>2, <2>1 DEF DiscoverWrite, OwnModels
<1>3. CASE UiUpsert
  <2>1. /\ DOMAIN peers' = DOMAIN peers \cup {ui.node}
        /\ \A n \in DOMAIN peers : n # ui.node => peers'[n] = peers[n]
        /\ peers'[ui.node].models =
              IF ui.node \in DOMAIN peers THEN peers[ui.node].models ELSE {}
    BY <1>3, UiWritten
  <2> QED
    BY <1>3, <2>1 DEF UiUpsert, OwnModels
<1> QED
  BY <1>1, <1>2, <1>3 DEF Discoverer, Ui

LEMMA ModelsProxy ==
    ASSUME TypeOK, OwnModels, NEW r \in Requests,
           Serving(r) \/ \E m \in Models \cup {None} : Route(r, m)
    PROVE  OwnModels'
<1>1. req \in [Requests -> Request]
  BY DEF TypeOK, Request
<1>2. UNCHANGED <<peers, ppoll>>
  BY DEF Serving, ForwardLocal, Connect, Ingress, Route, table, pollers
<1>3. ASSUME NEW q \in Request, req' = [req EXCEPT ![r] = q],
             q.to \in Peers => q.model \in Owned(q.to)
      PROVE  OwnModels'
  <2>1. ASSUME NEW k \in Requests, req'[k].to \in Peers
        PROVE  req'[k].model \in Owned(req'[k].to)
    <3>1. CASE k = r
      BY <1>1, <1>3, <2>1, <3>1
    <3>2. CASE k # r
      BY <1>1, <1>3, <2>1, <3>2 DEF OwnModels
    <3> QED
      BY <3>1, <3>2
  <2> QED
    BY <1>2, <2>1 DEF OwnModels
<1>4. req[r].to \in Peers => req[r].model \in Owned(req[r].to)
  BY DEF OwnModels
<1>5. ASSUME NEW code \in Codes, Answer(r, code)
      PROVE  OwnModels'
  <2>1. /\ Answered(req[r], code) \in Request
        /\ Answered(req[r], code).to = req[r].to
        /\ Answered(req[r], code).model = req[r].model
        /\ req' = [req EXCEPT ![r] = Answered(req[r], code)]
    BY <1>1, <1>5, AnsweredType DEF Answer
  <2> QED
    BY <1>3, <1>4, <2>1
<1>6. ASSUME NEW model \in Models \cup {None}, Route(r, model)
      PROVE  OwnModels'
  <2>1. PICK q \in Request :
           /\ req' = [req EXCEPT ![r] = q] /\ q.model = model
           /\ q.to \in Peers =>
                 q.to \in DOMAIN peers /\ model \in peers[q.to].models
    BY <1>6, Routed
  <2>2. q.to \in Peers => q.model \in Owned(q.to)
    BY <2>1 DEF OwnModels
  <2> QED
    BY <1>3, <2>1, <2>2
<1>7. CASE ForwardLocal(r) \/ Ingress(r)
  BY <1>5, <1>7, ForwardCodes DEF ForwardLocal, Ingress
<1>8. CASE Connect(r)
  <2>1. CASE Answer(r, 502)
    BY <1>5, <2>1 DEF Codes
  <2>2. CASE \E m \in Reached(req[r].host, req[r].port) :
                req' = [req EXCEPT ![r] = Posted(@, m)]
    <3>1. PICK m \in Reached(req[r].host, req[r].port) :
             req' = [req EXCEPT ![r] = Posted(@, m)]
      BY <2>2
    <3>2. m \in Peers
      BY ReachedSound
    <3>3. /\ Posted(req[r], m) \in Request /\ Posted(req[r], m).to = req[r].to
          /\ Posted(req[r], m).model = req[r].model
          /\ req' = [req EXCEPT ![r] = Posted(req[r], m)]
      BY <1>1, <3>1, <3>2, PostedType
    <3> QED
      BY <1>3, <1>4, <3>3
  <2> QED
    BY <1>8, <2>1, <2>2 DEF Connect
<1> QED
  BY <1>6, <1>7, <1>8 DEF Serving

LEMMA ModelsSurroundings ==
    ASSUME TypeOK, OwnModels, Surroundings
    PROVE  OwnModels'
<1> USE DEF table, pollers, finding, world
<1>1. CASE UNCHANGED <<peers, req, ppoll>>
  BY <1>1, ModelsKept
<1>2. ASSUME NEW m, CutOff(m), UNCHANGED <<peers, ppoll>>
      PROVE  OwnModels'
  <2>1. \A r \in Requests : req'[r].to = req[r].to /\ req'[r].model = req[r].model
    BY <1>2, CutOffTypes
  <2> QED
    BY <1>2, <2>1 DEF OwnModels
<1>3. ASSUME NEW m \in Peers, StopPeer(m) \/ \E h \in Hosts : MovePeer(m, h)
      PROVE  OwnModels'
  BY <1>2, <1>3 DEF StopPeer, MovePeer
<1> QED
  BY <1>1, <1>3 DEF Surroundings, Resolve, PinPeer, PeerPins, StartPeer, EngineChanges

\* While addresses stay put a request is only ever sent to a peer whose engine
\* served the model at some time, however old the poll, the announcement and
\* the table entry are that led there.
THEOREM RoutedToOwnerSafe == Spec => []RoutedToOwner
<1>1. Init => OwnerInv
  <2>1. Init => req = [r \in Requests |-> NewRequest] /\ NewRequest.to = None
    BY DEF Init, NewRequest, Asked
  <2>2. None \notin Peers
    BY RouterAssumption DEF Peers
  <2> QED
    BY <2>1, <2>2 DEF Init, OwnerInv, OwnAddresses, OwnModels
<1>2. TypeOK /\ OwnerInv /\ [Next]_vars => OwnerInv'
  <2> SUFFICES ASSUME TypeOK, OwnerInv, [Next]_vars, ~setting.moves
               PROVE  OwnAddresses' /\ OwnModels'
    BY SettingKept DEF OwnerInv
  <2>1. OwnAddresses /\ OwnModels
    BY DEF OwnerInv
  <2>2. CASE UNCHANGED vars
    BY <2>1, <2>2, ModelsKept, AddressStep DEF vars, table, pollers
  <2> QED
    BY <2>1, <2>2, AddressStep, ModelsPollers, ModelsWriters, ModelsProxy,
       ModelsSurroundings DEF Next
<1>3. OwnerInv => RoutedToOwner
  BY DEF OwnerInv, OwnModels, Owned, RoutedToOwner
<1> QED
  BY <1>1, <1>2, <1>3, Typing, PTL DEF Spec
=============================================================================
