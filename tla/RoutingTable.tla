----------------------------- MODULE RoutingTable -----------------------------
(***************************************************************************)
(* The RoutingTable of crates/pair-proxy routing.rs on its own, with its   *)
(* setters as steps, and select on what candidates_for makes of it: every  *)
(* table of peers pinned or not, advertising the model or not, ranked or   *)
(* not, selected by hand or not.  The daemon ranks and selects nothing and *)
(* removes no peer (see Routing); the table's own interface does.          *)
(***************************************************************************)
EXTENDS Router

CONSTANTS Ranks    \* scheduler priority ranks

ASSUME TableAssumption == Ranks \subseteq Nat

VARIABLES local, peers    \* RoutingTable.local_models and .peers

tvars == <<local, peers>>

Model   == CHOOSE m \in Models : TRUE
Entries == [host : {"host"}, ingress_port : {"ingress"}, pinned : BOOLEAN,
            models : SUBSET Models, priority_rank : Ranks \cup {None},
            manually_selected : BOOLEAN]

TableInit == local = {} /\ peers = [m \in {} |-> LocalEntry]

set_local_models(models) == local' = models /\ UNCHANGED peers

upsert_peer(m, entry) ==
    /\ peers' = [n \in DOMAIN peers \cup {m} |-> IF n = m THEN entry ELSE peers[n]]
    /\ UNCHANGED local

remove_peer(m) ==
    /\ m \in DOMAIN peers
    /\ peers' = [n \in DOMAIN peers \ {m} |-> peers[n]]
    /\ UNCHANGED local

set_peer_priority(m, rank) ==
    /\ m \in DOMAIN peers
    /\ peers' = [peers EXCEPT ![m].priority_rank = rank]
    /\ UNCHANGED local

TableNext ==
    \/ \E models \in SUBSET Models : set_local_models(models)
    \/ \E m \in Peers, entry \in Entries : upsert_peer(m, entry)
    \/ \E m \in Peers : remove_peer(m)
    \/ \E m \in Peers, rank \in Ranks \cup {None} : set_peer_priority(m, rank)

TableSpec == TableInit /\ [][TableNext]_tvars

-----------------------------------------------------------------------------
\* The documented order, criterion by criterion: what an earlier one leaves
\* open the next one decides, and no two nodes are equal in all four.
Ranked(c, d) ==
    c.priority_rank # None
      /\ (d.priority_rank = None \/ c.priority_rank < d.priority_rank)
Prefers(c, d) ==
    \/ c.manually_selected /\ ~d.manually_selected
    \/ /\ c.manually_selected = d.manually_selected
       /\ \/ Ranked(c, d)
          \/ /\ c.priority_rank = d.priority_rank
             /\ \/ c.is_self /\ ~d.is_self
                \/ c.is_self = d.is_self /\ c.node < d.node

\* Equals that the code does not tell apart: it takes the first manually
\* selected one, or the first of the lowest rank, in HashMap order.
Tied(c, d) ==
    \/ c.manually_selected /\ d.manually_selected
    \/ /\ ~c.manually_selected /\ ~d.manually_selected
       /\ c.priority_rank # None /\ c.priority_rank = d.priority_rank

Fits(cs) == {c \in cs : c.advertises_model /\ (c.node = Self \/ c.pinned)}

\* "Selection order: manual > lowest priority rank > self > stable by id"
\* (router.rs:33): select returns the one eligible candidate that is preferred
\* to all others.
SelectIsBest ==
    LET fits == Fits(candidates_for(local, peers, Model))
    IN  select(candidates_for(local, peers, Model))
            = {c \in fits : \A d \in fits \ {c} : ~Prefers(d, c)}

\* Up to ties that is what select does: it may return exactly the eligible
\* candidates that nothing eligible is preferred to except one they tie with,
\* so never an unpinned peer, never a worse rank, and never a peer over this
\* node unless it is selected by hand or ranked.
SelectUpToTies ==
    LET fits == Fits(candidates_for(local, peers, Model))
    IN  select(candidates_for(local, peers, Model))
            = {c \in fits : \A d \in fits \ {c} : Prefers(d, c) => Tied(c, d)}
=============================================================================
