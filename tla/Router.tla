-------------------------------- MODULE Router --------------------------------
(***************************************************************************)
(* Candidate selection for a request: crates/pair-proxy router.rs and the  *)
(* candidates_for of routing.rs, as pure operators.  Node ids are integers *)
(* in the order of the uuid strings.  Where the code takes the first of    *)
(* several equals in HashMap order, every one of them may be taken: select *)
(* is the set of candidates the code may return, empty for None.           *)
(***************************************************************************)
EXTENDS Common, Integers

CONSTANTS
    Self,     \* RoutingTable.local_id
    Models    \* model names, compared as they are

ASSUME RouterAssumption ==
    /\ Nodes \subseteq Nat /\ Self \in Nodes
    /\ None \notin Nat /\ None \notin Models

Peers == Nodes \ {Self}

Candidate(node, entry, advertises) ==
    [node |-> node, is_self |-> node = Self, advertises_model |-> advertises,
     pinned |-> entry.pinned, priority_rank |-> entry.priority_rank,
     manually_selected |-> entry.manually_selected,
     host |-> entry.host, ingress_port |-> entry.ingress_port]

\* The candidate of the local node carries no peer metadata.
LocalEntry == [host |-> None, ingress_port |-> None, pinned |-> FALSE,
               priority_rank |-> None, manually_selected |-> FALSE]

\* Without a model only the local node is a candidate.
candidates_for(local_models, peers, model) ==
    {Candidate(Self, LocalEntry, model = None \/ model \in local_models)}
      \cup (IF model = None THEN {}
            ELSE {Candidate(m, peers[m], model \in peers[m].models) :
                    m \in DOMAIN peers})

eligible(cs) == {c \in cs : c.advertises_model /\ (c.is_self \/ c.pinned)}

\* Prefers the local node over a ranked peer.
select_self_first(cs) ==
    LET manual == {c \in eligible(cs) : c.manually_selected}
        self   == {c \in eligible(cs) : c.is_self}
        ranked == {c \in eligible(cs) : c.priority_rank # None}
    IN  IF manual # {} THEN manual
        ELSE IF self # {} THEN self
        ELSE IF ranked # {}
        THEN {c \in ranked : \A d \in ranked : c.priority_rank <= d.priority_rank}
        ELSE {c \in eligible(cs) : \A d \in eligible(cs) : c.node <= d.node}

select(cs) ==
    LET manual == {c \in eligible(cs) : c.manually_selected}
        ranked == {c \in eligible(cs) : c.priority_rank # None}
        self   == {c \in eligible(cs) : c.is_self}
    IN  IF manual # {} THEN manual
        ELSE IF ranked # {}
        THEN {c \in ranked : \A d \in ranked : c.priority_rank <= d.priority_rank}
        ELSE IF self # {} THEN self
        ELSE {c \in eligible(cs) : \A d \in eligible(cs) : c.node <= d.node}

=============================================================================
