# openpair: TLA+ models, checks and proofs

This directory holds TLA+ models of the parts of openpair in which the order of
events matters, the TLC configurations that check them on small instances, and
TLAPS proofs of what holds for instances of any size. Paths below are relative
to `src/crates/`. `PROJECT.json` maps every definition to the lines it models.

Run a check with `tlc -config X.cfg M`, a proof with `tlapm M.tla`.

## 1. The system

openpair is a daemon (`pair-node`) that joins the machines of a LAN into a
cluster and lets each of them use the language models of all. It has two halves
that share one piece of state, the set of pinned certificates (`SharedPins`).

| Part | State | Operations | Hard behaviour |
|---|---|---|---|
| EAP-NOOB machines (`pair-pairing`) | a `Server` and a `Peer` session: state 0..4, keys, Noob, transcript, association | `start`, `receive` by message type, `oob_output_with`, `oob_input_noob` | a conversation may be lost and restarted at any message; PINs come at any time; `unwrap()` on keys |
| Pairing endpoint (`pair-cluster`) | `joiners`, `inviters`, `pending` maps, one mutex each and one per session | `create_invite`, `submit_pin`, inbound `initial`, `completion`, `cancel`, `decline`, `fail`, `expired`, `ack` | drivers and handlers interleave between locks; one request per connection, no retry, no timeout |
| Trust (`pair-node/pairing.rs`, `pair-trust`) | `SharedPins`, `trusted/`, the flag `clustered` | `pin_peer`, `load_or_init`, `is_clustered` | the write may fail or be cut off, over a file that was good; the node may stop between two pins |
| Routing table and proxy (`pair-proxy`) | `RoutingTable` under a `RwLock` | setters, `candidates_for`, `select`; `route`, `forward_to_peer`, `/ingress` | what was read under the lock is used after it |
| Daemon tasks (`pair-node/main.rs`) | local poller, peer poller, discovery thread | fetch and store models, enter announced peers | three loops and a dashboard write one table |
| Dashboard (`pair-ui`) | none of its own | `pair()`, `add_cert`, invite, respond | four calls to an address taken for one node |
| Discovery (`pair-discovery`) | queue of announcements | `advertise`, `browse` | announcements arrive late; one that does not change need not come again |
| Commands `invite`, `join` (`pair-node/main.rs`) | a process each, with an endpoint of its own | `run_invite`, `run_join` | the process ends while its handlers run; success is read from a flag |
| Start of a process (`pair-trust`, `pair-node/trust.rs`) | identity files, `trusted/`, the development directory | `load_or_generate`, `load_or_init`, `bootstrap_dev_trust`, `add_trusted_peer` | files are truncated, then written; a kill comes between any two steps |
| GPU collector (`pair-nodeinfo`) | none | `nvidia::detect`, `amd::detect`, `detect_gpus` | listings made one after the other are joined; any tool may be missing |
| JSON-RPC framing (`pair-rpc`) | the reader's buffer | `encode`, `read_frame`, `write_message`, `read_message` | the stream ends after any byte |
| Signed membership records, `serve_local` | none | | not modelled, see 8 |

How they interact. The inviter's `create_invite` posts the Initial Exchange to
the joiner, whose handler creates a `JoinerSession` and lists the invite as
pending. The user reads the PIN at the inviter and enters it at the joiner;
`submit_pin` then drives the Completion Exchange against the inviter's handler.
On success the inviter pins first and replies, the joiner pins on the reply and
posts `ack`. A pin makes mutual TLS to that peer possible; discovery enters the
peer into the routing table, the peer poller learns its models through
`/ingress`, and the proxy then routes requests to it.

What makes each part correct:

* machines: no handler meets a missing key; both work with the best they have in
  common; a registered Peer has a registered
  Server with the same key and transcript; registration is final;
* endpoint: both sides pin the real other node with the same key; the inviter
  commits first and durably; a wrong PIN pins nothing and leaves nothing; a right
  one is never called wrong; calls return;
* trust: pins, `trusted/` and `clustered` agree across failures and restarts;
* commands: they return, and what they report is true and lasts;
* start: one directory is one identity; a kill is healed by the next start, or
  the start fails; whom a completed pairing made trusted is trusted again;
* routing: requests leave only to pinned peers; models belong to the peer they
  are credited to; the table converges to what the engines serve; `select`
  follows its documented order;
* collector: live values belong to the card they are shown for; no card is
  listed twice, no vendor lost;
* framing: messages arrive whole, in order and once, and the end of the stream is
  reported for what it is.

## 2. Modules

| Module | Models |
|---|---|
| `Common` | the constants `None` and `Nodes`, shared by pairing and routing |
| `EapNoob` | records, error codes, symbolic cryptography and negotiation helpers of `machine.rs`, `mac.rs`, `kdf.rs`, `suite.rs` |
| `EapServer`, `EapPeer` | every handler of `Server` and `Peer`: an operator from session and message to session and outcome |
| `EapConversation` | the two machines over a lossy relay |
| `PairingNode` (`MCPairingNode`) | nodes with the pairing endpoint and its trust sink; uses `EapServer` and `EapPeer` unchanged |
| `PairingContract` | what pairing promises, without sessions, messages or locks |
| `PairingRefinement` | `PairingNode` with a history of the PINs entered, and the mapping to `PairingContract` |
| `PairingCommands` (`MCPairingCommands`) | `PairingNode` driven by the dashboard or by the commands `invite` and `join` |
| `Startup` | identity files, `trusted/` and the development bootstrap, file operation by file operation |
| `Router` | `candidates_for` and `select` as operators |
| `RoutingTable` | the setters of the table on their own, and `select` compared with the documented order |
| `Routing` (`MCRouting`) | one node's table, pollers, discovery thread, dashboard `pair()`, proxy and ingress among peers that stop, restart, move and change models; uses `Router` |
| `Framing` | the three framings of `pair-rpc` over a stream that ends anywhere |
| `Telemetry` | the GPU collector of `pair-nodeinfo` |
| `MCLibraries` | one instance of `EapConversation`, `Startup`, `RoutingTable`, `Framing` and `Telemetry`, which share no state: `subject` says which of them moves |
| `EapProofs`, `EapConversationProofs` | theorems about the two machines, each handler first, then the conversation |
| `PairingNodeProofs`, `PairingAgreementProofs` | theorems about the endpoint, its commands and the dashboard, and that it implements the contract |
| `PairingContractProofs` | what the contract gives |
| `RoutingProofs`, `StartupProofs` | theorems about routing and the start of a process |
| `LibrariesProofs` | theorems about selection, the GPU collector and framing |

### EAP-NOOB (`EapNoob`, `EapServer`, `EapPeer`, `EapConversation`)

A session is a record with the fields of `Method`, `Server` and `Peer`. The
verbatim Type 2 fields that the MAC covers are grouped as `offer` and `choice`.
Cryptography is symbolic: a random draw is a token no session drew before, ECDH
is the set of the two keys, a derived key and a MAC are the tuples of their
inputs. So two MACs agree exactly when key and transcript do. Suite ids keep the
`as u8` cast. The NAI is constant, as in every caller. A PIN and the Noob encoded
from it are one value.

An outcome has `panic` set where the code would unwrap a `None`; `NoPanic` says
it never is.

### Pairing endpoint (`PairingNode`)

One invite is one call of `create_invite`. For each invite the model has the two
sessions, where each driver and each handler is, and the connection of each
exchange. A connection holds one request or one response, as `post_pairing`
opens one per message. The actions are the critical sections of the code:

* `CreateInvite`, `CreateReceives`, `CreateFails`: `create_invite`;
* `InitialLookup`, `InitialSession`, `InitialPending`: `on_initial_request`
  under the joiners, the session and the pending lock;
* `SubmitPin`, `SubmitReceives`, `SubmitFails`, `SubmitPins`, `SubmitCleanup`,
  `SubmitSignalled`: `submit_pin`. A call that is refused at once changes nothing
  and has no action;
* `CompletionLookup`, `CompletionSession`, `CompletionPin`, `OnSignal`: the
  inviter's handlers;
* `CancelJoiner`, `CancelPending`, `Decline`: signals that are handled here and
  sent only by other implementations;
* `BreakInitial`, `BreakCompletion`: a connection breaks. An unread request is
  lost; a handler that runs goes on, or hyper drops it (`DropInitial`,
  `DropCompletion`) where it waits for a lock;
* `AbandonCreate`, `AbandonSubmit`: the dashboard's client goes away and hyper
  drops the handler at the await it is in;
* `Crash`: a node restarts (`Restart`) with the pins of `trusted/`; the file
  that `pin_peer` was writing may be left without content (`Tears`).

`PinPeer` is `ClusterTrustSink::pin_peer`: it pins in memory, then writes; a
failed write leaves the pin and does not set `clustered`. `std::fs::write`
truncates first, so a write that fails, or is cut off by a crash, may also cost
the certificate that was there from an earlier pairing with the same peer.
`Lossy` lets connections break, `Abandons` lets the dashboard's clients go away.
A node is its certificate, its PairingInfo and its address; `ValidInfo` says whose PairingInfo
`parse_pairing_info` accepts.

### The contract of pairing (`PairingContract`, `PairingRefinement`)

The contract has five variables: the PIN minted for each invite, the PINs entered
for it at the joiner, who has committed, and whom each node trusts. An inviter
may commit when the minted PIN is among those entered, a joiner when its inviter
has; only a node without durable trust forgets. The mapping reads the PIN from
the inviter's session, commitment from the histories `ipaired` and `jpaired`, and
trust from `pins`; the history `entered` is needed because the joiner drops its
session with the PIN in it. Committing maps to `CompletionPin` and `SubmitPins`,
forgetting to `Crash`; all other steps of the endpoint are stutters or PINs.

### Commands (`PairingCommands`)

`run_invite` and `run_join` are processes with an endpoint of their own: ending
one is a `Restart` of the node, whatever its handlers were doing, and the next
one starts from `trusted/`. `InvitePolls` is one turn of the wait for
`is_clustered`: the flag is read, then the command sleeps, and after the last
sleep it gives up without reading it again. `JoinPolls` is one turn of the wait
for an invite. A process that returns from `main` lets a write in progress end. `scenario`, fixed
at the start, says which invites there are, whether dashboards or commands drive
them, and whether there are faults.

### Start (`Startup`)

`load_or_generate` writes and reads the key before the certificate, `load_or_init`
the certificate before the key; files 1 and 2 stand for either order. A file is
absent, cut off or whole: a cut one yields no certificate or key
(`pem_cert_to_der`). An identity that is read is a pair, since nothing compares
the key with the certificate. The order of steps is that of `main`: identity,
`trusted/` if there is a cluster directory, the development bootstrap if
`OPENPAIR_TRUST_DIR` is set. Then the node is up and may write to `trusted/`,
for a peer it trusts already too. Two histories say whom a pairing was completed
with in each directory (`paired`), and whose last pairing there has truncated a
file and not finished it (`unfinished`).

### Routing (`Router`, `RoutingTable`, `Routing`)

The table is the map of `PeerEntry` records. Every read followed by an await or
another lock, and every write, is its own action: `LocalFetch`/`LocalStore`,
`PollPeers`/`FetchPeer`/`StorePeer`, `DiscoverRead`/`DiscoverWrite`,
`UiStatus`/`UiCert`/`UiAdd`/`UiUpsert`, `Route`/`Connect`/`Ingress`. A handshake
completes with whatever node is at the address if each side has the other pinned
(`Reached`), since the verifier does not look at whose certificate it expects.
A fetch of a peer's models is atomic: between its handshake and its answer only
the peer's engine could change, which is the same as fetching a little later.

The surroundings change `MaxChanges` times: peers stop (which cuts off requests
posted to them), restart with or without the pins they had, take another address
(`Moves`), engines stop or serve other models. `AdvertisePort` is the port a
node announces: its node-info port unless `OPENPAIR_ADVERTISE_PORT` is set. The
daemon never ranks, selects or removes a peer, so those setters are in
`RoutingTable` only. There is one node per address; a restart of this node is left
out (its pins and table start empty). `pair()` is modelled for the dashboards of
other nodes: `pair-ui/src/lib.rs:159-188` also accepts its own address, and a
status without `node_uuid`, which it would enter as `""`. `setting`, fixed at the
start, says whether the dashboard pairs and whether addresses move. `told` is the
set of peers whose record mDNS has reported as it is now; no step depends on it,
only what fairness demands.

`select` returns the set of candidates that some order of the table's `HashMap`
would make it return. `SelectIsBest` compares it with the order of its
documentation, in which no two nodes tie; `SelectUpToTies` says what holds.

### Framing and GPU collector (`Framing`, `Telemetry`)

The stream of `Framing` is a sequence of byte values; the header's key and its
number are one symbol each. The length of `LengthPrefixedBE` is its four bytes.
`read_frame` is what one call returns on the bytes there are: a body, a clean
end, an error, or waiting for more. `from_slice` takes the CR that is left of a
line whose LF never came, as `serde_json` skips white space. `Close(k)` ends
the stream with the last `k` symbols lost. Two history variables, `tape` and
`cuts`, keep all that was written and where each message begins; the properties
compare what the reader reports with them. In `Telemetry` a row is the card it
describes and the card its live values were measured on; `Knows` says which cards
each tool can see at all, as tools of one vendor may know different ones. Each
command of the collector is a step, and cards leave or come back between steps (`Reset`).

## 3. Runs

Passing runs:

| Run | Instance | Shows |
|---|---|---|
| `pairing_chain` | A invites C, C invites B; 2 PINs, broken connections, callers that go away, 1 crash | `TypeOK`, `NoPanic`, `CommitOrder`, `DurableCommit`, `Agreement`, `RightPinNeverBlamed`, `ImplementsContract` |
| `pairing_membership` | the chain with writes that fail at A and C, 1 crash, foreign signals; B has no directory and an invalid PairingInfo | `MembershipFollowsDisk`, `PinnedOnlyByPin`, `ImplementsContract` |
| `pairing_commands` | three scenarios: dashboards of A and B race for C without faults; A invites C with broken connections, callers that go away, foreign signals and 1 crash, from the dashboard or from the commands; fair tasks | `WrongPinTearsDown`, `JoinLasts`, `InviteReportTrue`, `CallsReturn`, `CommandsReturn`, `RightPinPairs` |
| `libraries`, EAP-NOOB | 4 conversations, 2 PINs, any message lost | `TypeOK`, `NoPanic`, `PeerNeverAlone`, `KeyAgreement`, `BestNegotiated`, `RegisteredIsFinal` |
| `libraries`, start | a node with a cluster directory and one with a data directory, both with the development bootstrap, 4 identities, 2 kills | `StartupTypeOK`, `OneIdentity`, `FailsOnlyTorn`, `TrustLasts`, `DevTrustMeets` |
| `libraries`, the rest | 2 peers with every combination of pin, rank, selection and model; 3 messages of 2 lengths in each framing; 5 cards of 3 vendors, every set of tools, one of which does not see a card, 2 resets | `SelectUpToTies`, `ReadsPrefix`, `EndIsHonest`, `MetricsOfSameCard`, `EachCardOnce` |
| `routing_safety` | 2 peers, 2 addresses, 1 request, 2 changes; the dashboard pairs on fixed addresses, or addresses move | `TypeOK`, `LeavesToPinned`, `ModelsOnlyOfPinned`, `RoutedToOwner`, `PinnedFlagSound` |
| `routing_live` | 2 peers, 2 addresses, 2 changes (a peer stops, comes back or takes the other address; engines stay as they are), the ingress port announced, fair loops, new records reported | `PollsConverge`, `AnnouncedPeerPolled` |

Every property of these runs has a mutant in `PROJECT.json`: a definition of the
model changed as a plausible bug would, under which the run finds the property
violated.

Runs that show where the code does not do what its documentation says:

| Run | Property | What happens |
|---|---|---|
| `single_cluster` | `SingleCluster` | two invites are opened before either is answered, and the joiner joins both clusters: `is_clustered` is read only when an invite opens (`pair-cluster/src/node.rs:179`) |
| `pending_pin` | `PendingAwaitsPin` | a connection breaks during `submit_pin`, whose post fails; the invite stays listed and takes no PIN any more (`node.rs:402`) |
| `invite_command` | `InviteReportTrue` | an inviter that already has a member runs `invite` again: the first poll finds `is_clustered`, the command says "Pairing complete." and ends, and the PIN it printed is useless (`pair-node/src/main.rs:413`) |
| `routing_default_port` | `AnnouncedPeerPolled` | discovery takes the announced node-info port for the ingress port, so a paired peer is never polled (`pair-node/src/main.rs:324`) |
| `routing_late_pin` | `PairedPeerPolled` | a peer is discovered and then pinned; its entry keeps `pinned = false` as long as mDNS has nothing new to report of it, and it is never polled (`pair-node/src/main.rs:320`) |
| `select_ties` | `SelectIsBest` | of two peers with one rank, or two selected by hand, the first of the `HashMap` is taken, not the local or the lower id (`pair-proxy/src/router.rs:43`) |

For most of these a passing run has the part that holds. `AnnouncedPeerPolled`
is checked twice: it holds if the ingress port is announced and fails with the
default port. It is `PairedPeerPolled` for the peers that mDNS has something to
report of once they are pinned. `routing_late_pin` rests on what mdns-sd does,
which is not part of the repository: `browse()` forwards `ServiceResolved`, and
an unchanged record need not be resolved again. `InviteReportTrue` holds for
the first pairing of a node and fails for an inviter that has a member.
`SelectUpToTies` is `SelectIsBest` up to the ties that `select` leaves open.

There are seven more places where code and text differ, that no run is
kept for. In the first three the passing property names the case as its
exception, so that it is not hidden behind a pass:

* `std::fs::write` empties `trusted/<uuid>.crt` before it writes it again
  (`pair-trust/src/cluster_dir.rs:77`), while `pair-node/src/pairing.rs:6-7` says
  "written to `trusted/` so trust survives a restart". A process that is killed
  while it pairs again with a peer it trusts does not know that peer after the
  restart, and the peer goes on trusting a node that has forgotten it.
  `TrustLasts` excepts a peer whose last pairing was cut off; `DurableCommit`
  holds where no two nodes pair twice, and not where they do;
* a stream that ends inside the four length bytes of a message is reported as
  cleanly ended (`pair-rpc/src/framing.rs:88`), while `framing.rs:49` says "`None` at
  clean EOF (before any partial frame)". It is the exception of `EndIsHonest`;
* the OS inventory "fills GPUs that no vendor tool reported"
  (`pair-nodeinfo/src/lib.rs:18-19`), but is skipped per vendor (`lib.rs:24`), as the
  next sentence says: a card only the OS sees is left out once a tool listed
  another one of its vendor. `EachCardOnce` says that the cards of a vendor are
  those of one source, not of all;
* a `cancel` handled between the session step and `pending.insert`
  (`pair-cluster/src/node.rs:231`) leaves the cancelled invite listed
  (`CancelPending` before `InitialPending`), while `docs/PAIRING.md:48` says it
  drops a pending invite;
* `pair()` of the dashboard takes uuid and certificate from two calls and does
  not compare them (`pair-ui/src/lib.rs:157-188`); in a setting with both pairing
  and moves, `PinnedFlagSound` would fail: the entry of a node that was never pinned is
  marked pinned. Mutual TLS still refuses it;
* a peer that stopped keeps its entry and models and goes on being chosen, while
  `router.rs:4-5` speaks of a node that is reachable: a failed poll changes
  nothing and `remove_peer` has no caller;
* `normalize_model_key` has no caller, so `llama3` and `llama3:latest` route
  apart, against `model.rs:13-14`.

### Bounds

Two PINs are enough to be right or wrong and to be retried. Sessions of
different invites share only their node's pins, flag and liveness, so two
invites reach what invites can do to each other: both orders at a common joiner,
and a node that is joiner and inviter at once. One crash, at any point, reaches
every mix of old and new state of two nodes. Four conversations cover an
exchange lost once in each of its phases and the one that succeeds. In the
routing instances two peers and two addresses let an address pass from one peer
to the other (stop, move), one event waits while another is handled, and one
request runs against everything else; requests do not share state. Two
changes are a peer that stops and one that takes its address. Engines that stop and
come back are in `routing_safety` and not in `routing_live`, where they would
more than double the states; `PollsConverge` is therefore shown for addresses and
peers that change, not for engines.
`routing_safety` leaves `told` out of the states it tells apart (`VIEW`), as no
step reads it.
One poll of `invite` is enough for it to give up before, while and after the
joiner completes, as it does not look again after its last sleep; the command
of a node runs once per invite. Two kills cut a first start off in two places, or one start of each node, and each start after a
kill mints at most one more identity, so four suffice. Three messages in a
framing put a cut message between, before and after whole ones; bodies of two
lengths show a length mixed up. Two cards of each of two vendors shift indices,
a fifth of a third vendor is known to the OS alone, and one card of a vendor is
unknown to one of its tools.
`CHECK_DEADLOCK FALSE` stands in the configurations of pairing, start and
libraries, whose work ends, and not in the routing ones, whose tasks never do.

### Fairness

* `PairingCommands!CSpec`: weak fairness of `Task(i)`, the tasks of one invite,
  and of the commands' own turns (`InviteTask`, `JoinTask`): a sleep ends. tokio
  runs every ready task, no lock is held across a network wait, and a
  connection delivers or breaks. The last is an assumption: `post_pairing` has no
  timeout, so a host that accepts and never answers can keep a call waiting.
  Users, signals of other implementations and faults are not fair. That tokio
  runs every ready task is an assumption too: `status()` of the dashboard runs the
  GPU tools on a thread of the runtime (`pair-ui/src/lib.rs:111`), and nothing bounds
  how long they take.
* `Routing!FairSpec`: weak fairness of the two pollers and of the discovery
  thread, which loop for ever; here too a connection answers or breaks.
* `Routing!DiscoverySpec` adds strong fairness of `NewRecord(m)`: mDNS reports
  the record of a running peer that is new or has changed. It need not report it
  again. Strong, since the event queue is bounded in the model and the report
  waits while it is full.

## 4. Proofs

All theorems hold for arbitrary, also infinite, sets of nodes, invites, PINs,
models, processes and identities, finite sets of cards, all suites and versions,
and any bound on crashes, conversations, kills, changes and resets. They rest on
these assumptions, which TLC evaluates in the runs:

| Assumption | Says |
|---|---|
| `ConfigAssumption`, `OptionAssumption` | the configuration is integers; `None` is no key, message or negotiated value |
| `ConversationAssumption`, `PairingAssumption` | the two sessions, or the sessions of each invite, have their ids and their nodes |
| `CommandsAssumption` | a scenario names invites of the instance |
| `RouterAssumption`, `RoutingAssumption` | node ids are naturals; `None` is no node, model or address; each node has the sets of models its engine may serve |
| `StartupAssumption` | each process has its directory |
| `TableAssumption` | ranks are naturals |
| `FramingAssumption` | a body has only byte values and no CR or LF, is not empty, is no proper prefix of another (all true of a compact JSON object), and its length fits the four bytes of `LengthPrefixedBE` |
| `TelemetryAssumption` | finitely many cards, numbered from 1, each of one vendor; tools are sources the collector knows |

`TelemetryAssumption` says of `Knows` only that a vendor's tools list that vendor's
cards. `ContractAssumption`, a hypothesis of the theorems on the contract, says of its
constants what `PairingAssumption` says of the endpoint's.

| Theorems | Property |
|---|---|
| `EapProofs`: `ServerSound`, `PeerSound` | of every session and message |
| `EapConversationProofs`: `Typing`, `NoPanicSafe`, `PeerNeverAloneSafe`, `KeyAgreementSafe`, `BestNegotiatedSafe`, `RegisteredIsFinalSafe` | those of run `libraries` on EAP-NOOB |
| `PairingNodeProofs`: `TypeCorrect`, `CommitOrdered` | `TypeOK`, `CommitOrder` |
| `PairingAgreementProofs`: `NoPanicSafe`, `AgreementSafe`, `PinnedOnlyByPinSafe`, `RightPinNeverBlamedSafe` | the invariants of these names of runs `pairing_chain` and `pairing_membership` |
| `PairingAgreementProofs`: `MembershipKept`, `DurableCommitSafe`, `JoinLastsSafe` | `MembershipFollowsDisk`, `DurableCommit`, `JoinLasts`, where no two nodes pair twice (`FirstPairings`) |
| `PairingAgreementProofs`: `WrongPinTearsDownSafe` | `WrongPinTearsDown` |
| `PairingAgreementProofs`: `InviteReportExplainedSafe`, `InviteReportTrueSafe` | what `invite` reports in general; `InviteReportTrue` if no inviter takes part in a second invite (`OneInviteEach`) |
| `PairingContractProofs`: `TrustIsAuthenticated`, `JoinsAreMutual` | of the contract |
| `PairingAgreementProofs`: `Refines` | `ImplementsContract`, under `FirstPairings` |
| `RoutingProofs`: `Typing`, `LeavesToPinnedSafe`, `PinnedFlagSafe`, `ModelsOnlyOfPinnedSafe`, `RoutedToOwnerSafe` | all of run `routing_safety` |
| `LibrariesProofs`: `SelectUpToTiesSafe`, `MetricsOfSameCardSafe`, `EachCardOnceSafe`, `ReadsPrefixSafe`, `EndIsHonestSafe` | those of run `libraries` on the table, framing and the collector |
| `StartupProofs`: `StartupTyped`, `IdentityIsOne`, `StartsHeal`, `TrustIsKept`, `BootstrapMeets` | those of run `libraries` on the start |

`FirstPairings` is a hypothesis of the four theorems that are about the disk: no two
invites are between the same two nodes, and none is of a node to itself. It is
needed, not convenient. A second pairing rewrites a file in place, so a crash or
a failed write inside it loses what the first one wrote: `DurableCommit` fails, and
a failed rewrite leaves `clustered` set over an emptied `trusted/`. The instances of the passing runs
satisfy it.

### EAP-NOOB

`EapProofs` shows for each helper and handler that typed sessions and messages
give typed ones, and what a machine may say. `ServerSound`: an EAP success is
sent only by the step that registers the session, and an association is never
lost. `PeerSound`: a Peer reports success only on a message that says success.

The properties of two machines need a relation between them. `InStep(s, p)` says
in which states the two can be together: a Server past the Initial Exchange holds
the Peer's keys, suite and transcript (`InSync`), it registers before its Peer, and
only with a Peer that has the same PIN and key (`Agree`). `ToPeer` and `ToServer`
say that a message in flight is true: what it carries is what the sender holds,
and the two are in states in which it can be under way.
One lemma per handler shows that a true message to a machine in step does not
panic, leaves the two in step and produces a true message. `EapConversationProofs`
adds only that the message on the wire is true (`Related`).

Negotiation. `HighestCommon`, `FirstFitting` and `OfferedDirection` say what
`best_version`, `first_supported` and `choose_dir` return: the highest common
version, the first suite in the Server's order that the Peer lists and the code
implements, a direction that the Server offers. `BestNegotiatedSafe` then needs
that an offer is always that of the Server's configuration and that what a Peer
chose was chosen from one (`ChoiceInv`); that the Server holds the Peer's choice
is part of `InStep`.

### Pairing endpoint

* `TypeCorrect`, one lemma per action. The content is in the messages: whatever
  one side produces is in the set the other side's handlers are defined on,
  through losses, restarts and retries.
* `CommitOrdered`. `CommitOrder` is not inductive, because the joiner's pin
  depends on a message sent earlier. `CommitInv` adds the three places in which
  that evidence can be: an EAP success in a response not yet read, a joiner
  between that response and its pin, an inviter's handler about to pin, which
  must have an association to pin. The inviter's reply is where `ServerSound` is
  needed, the joiner's step where `PeerSound` is.
* `MemberInv`, what of membership holds whichever files are rewritten: a clustered
  node has a peer pinned, what is on disk is pinned and makes its node clustered,
  and a node without a cluster directory has nothing there. Only `PinPeer`, at
  either end, and `Restart` matter.
* `PairingAgreementProofs`. `AgreementInv` is the conjunction of the above with
  `PairInv`, which says for each invite that its sessions are in step
  (`InStep`), whom each has captured (`Identities`), when a PIN is there
  (`PinsHeld`), where a message of either exchange can be and that it is true
  (`InitialFlow`, `CompletionFlow`), that what was pinned is what the session
  still holds (`PinnedIsHeld`), and that a blamed PIN is not the minted one
  (`BlameIsRight`). The Completion Exchange needs more than true messages:
  here the PINs do not change while a message is under way, so a MAC is that of
  the sender's PIN and an error that blames the PIN is right (`ExactToPeer`,
  `ExactToServer`). A step of one invite leaves the others alone
  (`Elsewhere`), so one lemma per action about its own invite suffices.
  `PinsInv` traces every pin to an invite whose inviter pinned.
* The disk. That `pin_peer` never rewrites a file under `FirstPairings` is no
  matter of course: within one invite it must not be called twice at one end.
  `OnceInv` says why not: an inviter that has pinned gets no further message of
  the Completion Exchange, because what it answered was EAP success, which ends
  `submit_pin`'s loop, or reached nobody. `FiledInv` traces every file to an
  invite whose end there has pinned. So the file that is being written, and that
  a crash may tear, is not yet there (`FreshFile`), and `DiskInv` (a pin of an
  inviter is on disk where writes succeed) and `FlagInv` (a clustered node has a
  file) survive every write, failed write and crash. `MembershipKept` and
  `DurableCommitSafe` follow. All is proved for `Move`, the endpoint's steps with a restart at any
  time, of which `Next` and the steps of the commands are special cases.
* Commands. `CommandsMove` shows that each step of a command or dashboard is a
  `Move`, so `AgreementInv` carries over. `JoinLastsSafe` adds `Joined` (a
  `submit_pin` past its pin has pinned, durably where it can) and `JoinProgress`
  (a `join` stays with one invite of its node). `WrongPinTearsDownSafe` adds
  `TornDown`: after a wrong PIN the `fail` is on its way, or the inviter's session
  is gone. It holds because nothing can put an invite back into a map once its PIN
  was blamed, and because the completion handler is not running while `fail` is
  under way. `InviteReportExplainedSafe` says what a success of `invite` means:
  the command reads only `is_clustered`, a clustered node has a pin
  (`MemberInv`), a pin comes from an invite whose inviter paired
  (`PinsInv`), and that is never undone (`InviterPinStays`). So the node paired
  in this invite or was a member before. `InviteReportTrueSafe` follows where an
  inviter takes part in no other invite, which the scenarios of
  `pairing_commands` satisfy and that of `invite_command` does not.
* `Refines`. `RefinementInv` adds to `AgreementInv` that the history `entered`
  has the PIN of each joiner's session and that durable trust is on disk. Then
  every action is one step of the contract or a stutter.

### The contract

`TrustIsAuthenticated`: a node trusts another only through an invite between the
two whose PIN was entered at the joiner. The invariant adds that every
commitment is backed by an entered PIN, because the joiner's commitment looks only
at the inviter's. `JoinsAreMutual`: a joiner that committed is trusted by an
inviter with durable trust, for good; here the invariant adds that a committed
inviter with durable trust still trusts the joiner.

### Routing

`LeavesToPinnedSafe` needs that a posted request is at a running peer
(`PostedAlive`): a peer that stops cuts off the requests at it, and only a
restart forgets pins. The flags of the table need what the tasks hold between
their reads and writes (`PinInv`): the peers a poll has read, the entry a
discovery event found and each stage of `pair()` are of pinned nodes
(`PinnedReads`), and without moves every address known is its node's own
(`OwnAddresses`). `OwnerInv` adds that models, in the table, in a poll's hand or
in a request, are ones the peer's engine served.

The order of `select` is proved for every table that the setters of
`RoutingTable` can make (`TableSpec`): candidates have distinct nodes and ranks are
naturals, so what the code finds criterion by criterion is what nothing is
preferred to, ties of rank and of manual selection apart (`SelectOrders`).

### GPU collector

`InOrderLists` says that a listing names each card of its set once. `CollectorInv`
then follows the collector from source to source. `MetricsInv`: a live value is
the card's own, or amd-smi's two listings were made around a change; without a
change the first of them is still what a listing shows when the second is made.
`OnceInv`: which vendors' cards can have been reported at each step, and which
tool must have worked for them, so that two sources never report one card.
`CoverInv`: while nothing changes, what a source showed is reported, and the next
is asked only if it showed nothing. `fill` needs all three: a vendor is skipped
exactly if a row is filed under it, and then one of its tools reported what it
showed.

### Framing

The prover has no induction over the messages of a stream, so the invariant keeps
what an induction would compute. `TapeInv`: for each message, where it begins on
the tape (`cuts`), and that what stands there is one of the frames that its body
can have (`OnTape`, `FramesOf`). `ReaderInv`: an open reader stands where the
message after those it got begins, with exactly what arrived from there on before
it (`Aligned`), or it has taken a last message whose line end never came, and
nothing is left (`Drained`); one that stopped was honest. One lemma
per framing says what `read_frame` returns on a stream that begins with a frame
or with a part of one (`ReadsOwnLine`, `ReadsForeignLine`,
`ReadsLengthPrefixed`, `ReadsContentLength`): the body and what follows, or, if
the frame is cut off, the wait, end or error that the properties allow. A body
cut by the end of a line is not taken for a shorter message, because no body is
a prefix of another.

### Start

`StartupTyped` needs that a process which writes or publishes has an identity.
`IdentityIsOne` and `StartsHeal` rest on `FilesOf`, which says for each step of a
process what its two files hold: the second never exists without the first, both
come from one run, and once an identity was in use both files are its own.
`TrustIsKept` rests on `TrustWritten` (a completed pairing has its whole file, unless
a later one with that peer is unfinished) and
`TrustOf` (a process past `load_trusted_into` has pinned them all). A step of
another process is a step in another directory (`StepIsOwn`), hence the
hypothesis `Alone` in the properties: two processes that initialise one
directory together can mix up key and certificate. `BootstrapMeets` rests on
`MeetInv`: a file published in the shared directory stays whole, and of two
processes past their scans the one that published last found the other's file.
The proof is where `DevTrustMeets` got its hypothesis `Alone`: two processes with
one directory may have one identity, and the second to publish truncates the
first one's file while another node scans.

### Only model-checked

* Liveness: `CallsReturn`, `CommandsReturn`, `RightPinPairs`, `PollsConverge`,
  `AnnouncedPeerPolled`. Fairness and `ENABLED` are outside what the prover handles.

Every other property of a passing run is a theorem; `InviteReportTrue` is one under
`OneInviteEach`, as it is false in general (run `invite_command`), and the four
about the disk are under `FirstPairings`. The properties of
the other violation runs fail, so there is nothing to prove. No module with
theorems uses recursion.

## 5. Hazards

`PROJECT.json` lists what in this code is hard to test, at its line, with the
properties that cover it. Not covered, with the reason there: missing
timeouts, the growing `inviters` map, a listener that cannot bind,
pairing without a cluster directory, two processes initialising one directory,
`pair()` racing a move of addresses, and the places of section 3 that no run is kept for.

## 6. What a reader should not conclude

The models say nothing about the strength of the cryptography, about what other
implementations may send beyond the three signals, or about the contents of
JSON. Nodes run this repository's code. A PIN that happens to be guessed is a
right PIN.

## 7. Plan

Done, in this order: the EAP-NOOB machines and their conversation; the pairing
endpoint with faults; types and commit order proved; the routing table and the
data plane; the contract of pairing and its consequences; the commands; the start
of a process; framing and the GPU collector; then the theorems of section 4: the
conversation, the agreement of two nodes, the refinement of the contract, routing,
selection, the bootstrap, the commands, the GPU collector, framing, negotiation and
the report of `invite`.

Open: the composition of `PairingNode`'s pins with `Routing`, from an invite to a
routed request. Now `Routing` takes pins as given by `add_cert` and by pairing.

## 8. Not modelled

Signed membership records (`membership.rs`: pure functions, and no task of the
daemon creates or reads a record), `serve_local` (no state, not used by the
daemon), the fields of JSON-RPC messages, CPU, memory and host id, the search
for keys in the output of GPU tools and the conversion of units, the HTTP server
of node information, the contents of certificates, `PeerPinStore::remove` (no
caller), arguments and bind addresses, the dashboard's pages, TXT records,
logging and text formats.
