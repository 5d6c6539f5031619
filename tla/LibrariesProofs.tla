--------------------------- MODULE LibrariesProofs ---------------------------
(***************************************************************************)
(* Theorems about the parts that share no state with the others: the       *)
(* routing table with its setters, the GPU collector and the framing.      *)
(***************************************************************************)
EXTENDS RoutingTable, Telemetry, Framing, FiniteSetTheorems, SequenceTheorems, TLAPS

-----------------------------------------------------------------------------
(* Selection.  The table on its own has an interface that ranks and removes *)
(* peers, which the daemon does not use.                                    *)

\* What a table holds, as far as selection is concerned.
RankedTable ==
    /\ DOMAIN peers \subseteq Peers
    /\ peers \in [DOMAIN peers -> Entries]

\* Every setter of the table keeps its entries well-formed.
LEMMA TableTyped == TableSpec => []RankedTable
<1>1. TableInit => RankedTable
  BY DEF TableInit, RankedTable, LocalEntry
<1>2. RankedTable /\ [TableNext]_tvars => RankedTable'
  <2> SUFFICES ASSUME RankedTable, [TableNext]_tvars
               PROVE  RankedTable'
    OBVIOUS
  <2> USE DEF RankedTable
  <2>1. CASE UNCHANGED tvars
    BY <2>1 DEF tvars
  <2>2. CASE \E models \in SUBSET Models : set_local_models(models)
    BY <2>2 DEF set_local_models
  <2>3. CASE \E m \in Peers, entry \in Entries : upsert_peer(m, entry)
    BY <2>3 DEF upsert_peer
  <2>4. CASE \E m \in Peers : remove_peer(m)
    BY <2>4 DEF remove_peer
  <2>5. CASE \E m \in Peers, rank \in Ranks \cup {None} : set_peer_priority(m, rank)
    <3>1. PICK m \in Peers, rank \in Ranks \cup {None} : set_peer_priority(m, rank)
      BY <2>5
    <3>2. [peers[m] EXCEPT !.priority_rank = rank] \in Entries
      BY <3>1 DEF set_peer_priority, Entries
    <3>3. peers' = [peers EXCEPT ![m] = [peers[m] EXCEPT !.priority_rank = rank]]
      BY <3>1 DEF set_peer_priority
    <3> QED
      BY <3>1, <3>2, <3>3 DEF set_peer_priority
  <2> QED
    BY <2>1, <2>2, <2>3, <2>4, <2>5 DEF TableNext
<1> QED
  BY <1>1, <1>2, PTL DEF TableSpec

\* A candidate made of the local node or of an entry of such a table.
GoodCandidate(c) ==
    /\ c.node \in Nodes /\ c.is_self = (c.node = Self)
    /\ c.advertises_model \in BOOLEAN /\ c.pinned \in BOOLEAN
    /\ c.manually_selected \in BOOLEAN
    /\ c.priority_rank \in Ranks \cup {None}

\* select against the documented order up to ties, on any candidates with integer ranks
\* of which only one is the local node.
LEMMA SelectOrders ==
    ASSUME NEW cs,
           \A c \in cs : GoodCandidate(c),
           \A c, d \in cs : c.node = d.node => c = d
    PROVE  select(cs) = {c \in Fits(cs) : \A d \in Fits(cs) \ {c} : Prefers(d, c) => Tied(c, d)}
<1> DEFINE fits == Fits(cs)
           best == {c \in fits : \A d \in fits \ {c} : Prefers(d, c) => Tied(c, d)}
<1>1. eligible(cs) = fits
  BY DEF eligible, Fits, GoodCandidate
<1>2. None \notin Ranks /\ Nodes \subseteq Nat
  BY RouterAssumption, TableAssumption
<1>3. \A c \in fits : /\ c.node \in Nat /\ c.is_self = (c.node = Self)
                      /\ c.manually_selected \in BOOLEAN
                      /\ c.priority_rank = None \/ c.priority_rank \in Nat
  BY <1>2, TableAssumption DEF Fits, GoodCandidate
<1>4. ASSUME NEW c \in fits, NEW d \in fits, c.is_self, d.is_self
      PROVE  c = d
  <2>1. c.node = Self /\ d.node = Self
    BY <1>3, <1>4
  <2> QED
    BY <2>1 DEF Fits
<1>5. None \notin Nat
  BY RouterAssumption
<1> HIDE DEF fits
<1> DEFINE manual == {c \in fits : c.manually_selected}
           ranked == {c \in fits : c.priority_rank # None}
           self   == {c \in fits : c.is_self}
\* Who is preferred to whom, and who ties, among candidates of each kind.
<1>6. ASSUME NEW c \in fits, NEW d \in fits, c \in manual
      PROVE  /\ d \notin manual => Prefers(c, d) /\ ~Tied(d, c)
             /\ Prefers(d, c) => Tied(c, d)
  BY <1>3, <1>6 DEF Prefers, Tied
<1>7. ASSUME NEW c \in ranked, NEW d \in fits, manual = {}
      PROVE  /\ d \notin ranked => Prefers(c, d) /\ ~Tied(d, c)
             /\ d \in ranked /\ c.priority_rank < d.priority_rank =>
                   Prefers(c, d) /\ ~Tied(d, c)
             /\ (d \in ranked => c.priority_rank <= d.priority_rank) /\ Prefers(d, c) =>
                   Tied(c, d)
  <2>1. ~c.manually_selected /\ ~d.manually_selected
    BY <1>7
  <2>2. /\ c.priority_rank \in Nat /\ c.priority_rank # None
        /\ d.priority_rank = None \/ d.priority_rank \in Nat
    BY <1>3
  <2>3. Prefers(c, d) <=> \/ Ranked(c, d)
                          \/ /\ c.priority_rank = d.priority_rank
                             /\ \/ c.is_self /\ ~d.is_self
                                \/ c.is_self = d.is_self /\ c.node < d.node
    BY <1>3, <2>1 DEF Prefers
  <2>4. Prefers(d, c) => Ranked(d, c) \/ d.priority_rank = c.priority_rank
    BY <2>1 DEF Prefers
  <2>5. Tied(c, d) <=> c.priority_rank = d.priority_rank
    BY <2>1, <2>2 DEF Tied
  <2>6. Tied(d, c) <=> c.priority_rank = d.priority_rank
    BY <2>1, <2>2 DEF Tied
  <2> QED
    BY <1>5, <2>2, <2>3, <2>4, <2>5, <2>6 DEF Ranked
<1>8. ASSUME NEW c \in fits, NEW d \in fits, manual = {}, ranked = {}
      PROVE  /\ ~Tied(c, d)
             /\ Prefers(c, d) <=> \/ c.is_self /\ ~d.is_self
                                  \/ c.is_self = d.is_self /\ c.node < d.node
  <2>1. /\ ~c.manually_selected /\ ~d.manually_selected
        /\ c.priority_rank = None /\ d.priority_rank = None
    BY <1>8
  <2> QED
    BY <1>3, <2>1 DEF Prefers, Tied, Ranked
<1>9. CASE manual # {}
  <2>1. select(cs) = manual
    BY <1>1, <1>9 DEF select
  <2>2. best = manual
    BY <1>6, <1>9
  <2> QED
    BY <2>1, <2>2 DEF fits
<1>10. CASE manual = {} /\ ranked # {}
  <2>1. select(cs) = {c \in ranked : \A d \in ranked : c.priority_rank <= d.priority_rank}
    BY <1>1, <1>10 DEF select
  <2>2. \A c, d \in ranked : /\ c.priority_rank \in Nat /\ d.priority_rank \in Nat
                             /\ c = d => ~(c.priority_rank < d.priority_rank)
    BY <1>3
  <2>3. \A c \in best : c \in ranked
    BY <1>7, <1>10
  <2>4. ASSUME NEW c \in best, NEW d \in ranked
        PROVE  c.priority_rank <= d.priority_rank
    <3>1. CASE d.priority_rank < c.priority_rank
      <4>1. Prefers(d, c) /\ ~Tied(c, d) /\ d # c
        BY <1>7, <1>10, <2>2, <2>3, <3>1
      <4> QED
        BY <4>1
    <3> QED
      BY <2>2, <2>3, <3>1
  <2>5. ASSUME NEW c \in ranked, \A d \in ranked : c.priority_rank <= d.priority_rank
        PROVE  c \in best
    BY <1>7, <1>10, <2>5
  <2>6. select(cs) = best
    BY <2>1, <2>3, <2>4, <2>5
  <2> QED
    BY <2>6 DEF fits
<1>11. CASE manual = {} /\ ranked = {} /\ self # {}
  <2>1. select(cs) = self
    BY <1>1, <1>11 DEF select
  <2>2. best = self
    <3>1. \A c, d \in fits : c \in self /\ d \notin self => Prefers(c, d) /\ ~Tied(d, c) /\ c # d
      BY <1>8, <1>11
    <3>2. \A c, d \in fits : c \in self /\ d # c => ~Prefers(d, c)
      BY <1>4, <1>8, <1>11
    <3> QED
      BY <1>11, <3>1, <3>2
  <2> QED
    BY <2>1, <2>2 DEF fits
<1>12. CASE manual = {} /\ ranked = {} /\ self = {}
  <2>1. select(cs) = {c \in fits : \A d \in fits : c.node <= d.node}
    BY <1>1, <1>12 DEF select
  <2>2. \A c, d \in fits : ~Tied(c, d) /\ (Prefers(d, c) <=> d.node < c.node)
    BY <1>3, <1>8, <1>12
  <2>3. best = {c \in fits : \A d \in fits : c.node <= d.node}
    BY <1>3, <2>2
  <2> QED
    BY <2>1, <2>3 DEF fits
<1> QED
  BY <1>9, <1>10, <1>11, <1>12

\* The routing decision of router.rs follows the documented order ("manual >
\* lowest priority rank > self > stable by id", router.rs:33) up to ties of
\* manual selection and of rank, on every table the setters can build, for any
\* nodes, models and ranks.
THEOREM SelectUpToTiesSafe == TableSpec => []SelectUpToTies
<1>1. RankedTable => SelectUpToTies
  <2> SUFFICES ASSUME RankedTable
               PROVE  SelectUpToTies
    OBVIOUS
  <2> DEFINE cs == candidates_for(local, peers, Model)
  <2>1. \A m \in DOMAIN peers : m \in Nodes /\ m # Self
    BY DEF RankedTable, Peers
  <2>2. \A m \in DOMAIN peers :
            /\ peers[m].pinned \in BOOLEAN /\ peers[m].manually_selected \in BOOLEAN
            /\ peers[m].priority_rank \in Ranks \cup {None}
    BY DEF RankedTable, Entries
  <2>3. \A c \in cs : \/ c = Candidate(Self, LocalEntry, Model = None \/ Model \in local)
                      \/ \E m \in DOMAIN peers :
                            c = Candidate(m, peers[m], Model \in peers[m].models)
    BY DEF candidates_for
  <2>4. ASSUME NEW c \in cs
        PROVE  GoodCandidate(c)
    <3> USE DEF GoodCandidate
    <3> HIDE DEF cs
    <3>1. CASE c = Candidate(Self, LocalEntry, Model = None \/ Model \in local)
      BY <3>1, RouterAssumption DEF Candidate, LocalEntry
    <3>2. ASSUME NEW m \in DOMAIN peers,
                 c = Candidate(m, peers[m], Model \in peers[m].models)
          PROVE  GoodCandidate(c)
      BY <3>2, <2>1, <2>2 DEF Candidate
    <3> QED
      BY <3>1, <3>2, <2>3
  <2>5. \A c, d \in cs : c.node = d.node => c = d
    BY <2>1, <2>3 DEF Candidate
  <2>6. select(cs) = {c \in Fits(cs) : \A d \in Fits(cs) \ {c} : Prefers(d, c) => Tied(c, d)}
    <3> HIDE DEF cs
    <3> QED
      BY <2>4, <2>5, SelectOrders
  <2> QED
    BY <2>6 DEF SelectUpToTies
<1> QED
  BY <1>1, TableTyped, PTL

-----------------------------------------------------------------------------
(* The GPU collector.  First, what a listing is.                           *)

\* InOrder lists every card of a finite set, once, and nothing else.
LEMMA InOrderLists ==
    ASSUME NEW S \in SUBSET Nat, IsFiniteSet(S)
    PROVE  LET L == InOrder(S) IN
           /\ L \in Seq(S) /\ {L[k] : k \in DOMAIN L} = S
           /\ \A j, k \in DOMAIN L : L[j] = L[k] => j = k
           /\ L = <<>> <=> S = {}
<1> DEFINE n == Cardinality(S)
           Below(c) == {d \in S : d <= c}
           rank == [c \in S |-> Cardinality(Below(c))]
           L == InOrder(S)
<1>1. n \in Nat /\ IsFiniteSet(1..n) /\ Cardinality(1..n) = n
  BY FS_CardinalityType, FS_Interval
<1>2. \A c \in S : Cardinality(Below(c)) \in 1..n /\ IsFiniteSet(Below(c))
  <2> SUFFICES ASSUME NEW c \in S
               PROVE  Cardinality(Below(c)) \in 1..n /\ IsFiniteSet(Below(c))
    OBVIOUS
  <2>1. Below(c) \in SUBSET S /\ c \in Below(c)
    OBVIOUS
  <2> HIDE DEF Below
  <2>2. IsFiniteSet(Below(c)) /\ Cardinality(Below(c)) <= n
    BY <2>1, FS_Subset
  <2>3. Cardinality(Below(c)) \in Nat /\ Cardinality(Below(c)) # 0
    BY <2>1, <2>2, FS_CardinalityType, FS_EmptySet
  <2> QED
    BY <1>1, <2>2, <2>3
<1>3. \A c, d \in S : c < d => Cardinality(Below(c)) # Cardinality(Below(d))
  <2> SUFFICES ASSUME NEW c \in S, NEW d \in S, c < d,
                      Cardinality(Below(c)) = Cardinality(Below(d))
               PROVE  FALSE
    OBVIOUS
  <2>0. c \in Nat /\ d \in Nat /\ ~(d <= c) /\ \A e \in S : e <= c => e <= d
    OBVIOUS
  <2>1. Below(c) \in SUBSET Below(d) /\ d \in Below(d) /\ d \notin Below(c)
    <3>1. \A e \in Below(c) : e \in S /\ e <= d
      BY <2>0
    <3>2. Below(c) \subseteq Below(d)
      BY <3>1
    <3>3. d \in Below(d) /\ d \notin Below(c)
      BY <2>0
    <3> HIDE DEF Below
    <3> QED
      BY <3>2, <3>3
  <2>2. IsFiniteSet(Below(d))
    BY <1>2
  <2> HIDE DEF Below
  <2>3. Below(d) = Below(c)
    BY <2>1, <2>2, FS_Subset
  <2> QED
    BY <2>1, <2>3
<1>4. rank \in Injection(S, 1..n)
  <2>1. rank \in [S -> 1..n]
    BY <1>2
  <2>2. \A c, d \in S : rank[c] = rank[d] => c = d
    BY <1>3
  <2> HIDE DEF rank, n
  <2> QED
    BY <2>1, <2>2 DEF Injection, IsInjective
<1>5. rank \in Surjection(S, 1..n)
  <2> HIDE DEF rank
  <2> QED
    BY <1>1, <1>4, FS_Injection
<1>6. \A k \in 1..n : \E c \in S : rank[c] = k
  <2> HIDE DEF rank, n
  <2> QED
    BY <1>5 DEF Surjection
<1>7. \A k \in 1..n : L[k] \in S /\ rank[L[k]] = k
  <2> SUFFICES ASSUME NEW k \in 1..n
               PROVE  L[k] \in S /\ rank[L[k]] = k
    OBVIOUS
  <2>1. L[k] = CHOOSE c \in S : Cardinality(Below(c)) = k
    BY DEF InOrder
  <2>2. \E c \in S : Cardinality(Below(c)) = k
    BY <1>6
  <2> QED
    BY <2>1, <2>2
<1>8. DOMAIN L = 1..n /\ L \in [1..n -> S]
  <2>1. L = [k \in 1..n |-> L[k]]
    BY DEF InOrder
  <2> HIDE DEF L, n, rank
  <2> QED
    BY <1>7, <2>1
<1>9. L \in Seq(S)
  <2> HIDE DEF L, n
  <2> QED
    BY <1>1, <1>8
<1>10. \A c \in S : L[rank[c]] = c
  <2> SUFFICES ASSUME NEW c \in S PROVE L[rank[c]] = c
    OBVIOUS
  <2>1. rank[c] \in 1..n
    BY <1>2
  <2> HIDE DEF L, n
  <2>2. L[rank[c]] \in S /\ rank[L[rank[c]]] = rank[c]
    BY <1>7, <2>1
  <2> HIDE DEF rank
  <2> QED
    BY <1>4, <2>2 DEF Injection, IsInjective
<1>11. {L[k] : k \in DOMAIN L} = S
  <2>1. \A c \in S : rank[c] \in 1..n
    BY <1>2
  <2> HIDE DEF L, rank, n
  <2> QED
    BY <1>7, <1>8, <1>10, <2>1
<1>12. \A j, k \in DOMAIN L : L[j] = L[k] => j = k
  <2> HIDE DEF L, rank, n
  <2> QED
    BY <1>7, <1>8
<1>13. L = <<>> <=> S = {}
  <2> HIDE DEF L, rank, n
  <2>1. ASSUME S = {} PROVE L = <<>>
    <3>1. n = 0
      BY <2>1, FS_EmptySet DEF n
    <3> QED
      BY <1>8, <1>9, <3>1
  <2>2. ASSUME L = <<>> PROVE S = {}
    BY <1>11, <2>2
  <2> QED
    BY <2>1, <2>2
<1> QED
  BY <1>9, <1>11, <1>12, <1>13

-----------------------------------------------------------------------------
(* The invariant of the collector.                                         *)

CardRow == [card : Cards, vendor : {"Nvidia", "Amd", "Other"}, metric : Nat]
Seen(rs) == {rs[k].card : k \in DOMAIN rs}
Once(rs) == \A j, k \in DOMAIN rs : rs[j].card = rs[k].card => j = k
Filed(rs) ==
    rs \in Seq(CardRow) /\ \A k \in DOMAIN rs : rs[k].vendor = Vendor(rs[k].card)

Steps == {"nvidia-smi", "nvidia-dynamic", "sysfs", "amd-static", "amd-metric",
          "rocm-smi", "os", "done"}

CollectorTyped ==
    /\ present \subseteq Cards /\ measured \subseteq Cards /\ settled \in BOOLEAN
    /\ step \in Steps /\ Filed(rows)
    /\ \E S \in SUBSET Amd : stat = InOrder(S)

\* A live value is the card's own, except where amd-smi's two listings differ.
\* Until they are joined, the first is still what a listing shows.
MetricsInv ==
    /\ \A k \in DOMAIN rows :
          \/ rows[k].metric \in {NoCard, rows[k].card}
          \/ rows[k].vendor = "Amd" /\ stat # <<>> /\ ~settled
    /\ step \in {"nvidia-smi", "nvidia-dynamic", "sysfs", "amd-static"} => stat = <<>>
    /\ stat # <<>> => "amd-static" \in tools
    /\ step = "amd-metric" /\ settled =>
          stat = IF "amd-static" \in tools THEN Listing(Knows["amd-static"]) ELSE <<>>

\* Each vendor's tools are asked in turn, and only they report its cards.
OnceInv ==
    /\ Once(rows)
    /\ step = "nvidia-smi" => rows = <<>>
    /\ step \in Steps \ {"os", "done"} => Seen(rows) \subseteq Nvidia
    /\ step = "os" => Seen(rows) \subseteq Nvidia \cup Amd

AmdTools == {"sysfs", "amd-static", "rocm-smi"}

\* These cards are what one of the sources shows of a vendor, and they are none
\* only if no source shows any.
From(cards, sources, v) ==
    \E s \in sources :
        cards = Shown(s, v) /\ (cards = {} => \A t \in sources : Shown(t, v) = {})

\* While no card leaves or comes back: what a source showed is reported, and the
\* next source is asked only if it showed nothing.
CoverInv ==
    settled =>
      /\ step \notin {"nvidia-smi", "done"} =>
            Seen(rows) \cap Nvidia = Shown("nvidia-smi", "Nvidia")
      /\ step \in {"amd-static", "amd-metric", "rocm-smi"} => Shown("sysfs", "Amd") = {}
      /\ step = "rocm-smi" => Shown("amd-static", "Amd") = {}
      /\ step = "os" => From(Seen(rows) \cap Amd, AmdTools, "Amd")
      /\ step = "done" => \A v \in {"Nvidia", "Amd", "Other"} :
            From({c \in Seen(rows) : Vendor(c) = v}, Inventories, v)

CollectorInv == CollectorTyped /\ MetricsInv /\ OnceInv /\ CoverInv

-----------------------------------------------------------------------------
(* What the reports of the sources have in common.                         *)

\* Every live value is the card's own.
Own(rs) == \A k \in DOMAIN rs : rs[k].metric \in {NoCard, rs[k].card}

\* Sets of cards are finite sets of numbers other than NoCard.
LEMMA CardSets ==
    ASSUME NEW S \in SUBSET Cards
    PROVE  S \in SUBSET Nat /\ IsFiniteSet(S) /\ NoCard \notin S
<1>1. IsFiniteSet(Cards) /\ Cards \subseteq Nat \ {NoCard}
  BY TelemetryAssumption
<1>2. IsFiniteSet(S)
  BY <1>1, FS_Subset
<1> QED
  BY <1>1, <1>2

\* A report with one row for each card of a listing, in its order.
LEMMA ListedRows ==
    ASSUME NEW S \in SUBSET Cards, NEW rs,
           rs = [k \in DOMAIN InOrder(S) |-> rs[k]],
           \A k \in DOMAIN InOrder(S) :
              \E m \in Nat : rs[k] = Row(InOrder(S)[k], m)
    PROVE  Filed(rs) /\ Once(rs) /\ Seen(rs) = S
<1> DEFINE L == InOrder(S)
<1>1. /\ L \in Seq(S) /\ {L[k] : k \in DOMAIN L} = S
      /\ \A j, k \in DOMAIN L : L[j] = L[k] => j = k
  BY CardSets, InOrderLists
<1> HIDE DEF L
<1>2. DOMAIN rs = DOMAIN L
  BY DEF L
<1>3. \A k \in DOMAIN L : /\ rs[k] \in CardRow /\ rs[k].card = L[k]
                          /\ rs[k].vendor = Vendor(rs[k].card)
  <2> SUFFICES ASSUME NEW k \in DOMAIN L
               PROVE  /\ rs[k] \in CardRow /\ rs[k].card = L[k]
                      /\ rs[k].vendor = Vendor(rs[k].card)
    OBVIOUS
  <2>1. L[k] \in Cards
    BY <1>1
  <2>2. PICK m \in Nat : rs[k] = Row(L[k], m)
    BY DEF L
  <2>3. Vendor(L[k]) \in {"Nvidia", "Amd", "Other"}
    BY DEF Vendor
  <2> QED
    BY <2>1, <2>2, <2>3 DEF Row, CardRow
<1>4. rs \in Seq(CardRow)
  <2>1. DOMAIN L = 1..Len(L) /\ Len(L) \in Nat
    BY <1>1
  <2>2. rs = [k \in 1..Len(L) |-> rs[k]]
    BY <2>1 DEF L
  <2>3. rs \in [1..Len(L) -> CardRow]
    BY <1>3, <2>1, <2>2
  <2> QED
    BY <2>1, <2>3
<1> QED
  BY <1>1, <1>2, <1>3, <1>4 DEF Filed, Once, Seen

\* One report after the other.
LEMMA Appended ==
    ASSUME NEW rs, NEW new, Filed(rs), Filed(new)
    PROVE  LET both == rs \o new IN
           /\ Filed(both) /\ Seen(both) = Seen(rs) \cup Seen(new)
           /\ Once(rs) /\ Once(new) /\ Seen(rs) \cap Seen(new) = {} => Once(both)
           /\ \A k \in DOMAIN both :
                 \/ k \in DOMAIN rs /\ both[k] = rs[k]
                 \/ \E j \in DOMAIN new : both[k] = new[j]
<1> DEFINE both == rs \o new
<1>0. rs \in Seq(CardRow) /\ new \in Seq(CardRow)
  BY DEF Filed
<1>1. both \in Seq(CardRow) /\ Len(both) = Len(rs) + Len(new)
  BY <1>0
<1>2. /\ DOMAIN rs = 1..Len(rs) /\ DOMAIN new = 1..Len(new)
      /\ DOMAIN both = 1..(Len(rs) + Len(new))
      /\ Len(rs) \in Nat /\ Len(new) \in Nat
  BY <1>0, <1>1
<1>3. \A k \in DOMAIN both :
          \/ k \in DOMAIN rs /\ both[k] = rs[k]
          \/ k - Len(rs) \in DOMAIN new /\ both[k] = new[k - Len(rs)]
  BY <1>0, <1>2
<1>4. /\ \A k \in DOMAIN rs : k \in DOMAIN both /\ both[k] = rs[k]
      /\ \A j \in DOMAIN new : Len(rs) + j \in DOMAIN both /\ both[Len(rs) + j] = new[j]
  BY <1>0, <1>2
<1> HIDE DEF both
<1>5. Filed(both)
  BY <1>1, <1>3 DEF Filed
<1>6. Seen(both) = Seen(rs) \cup Seen(new)
  BY <1>3, <1>4 DEF Seen
<1>7. ASSUME Once(rs), Once(new), Seen(rs) \cap Seen(new) = {}
      PROVE  Once(both)
  <2> SUFFICES ASSUME NEW j \in DOMAIN both, NEW k \in DOMAIN both,
                      both[j].card = both[k].card
               PROVE  j = k
    BY DEF Once
  <2>1. CASE j \in DOMAIN rs /\ both[j] = rs[j] /\ k \in DOMAIN rs /\ both[k] = rs[k]
    BY <2>1, <1>7 DEF Once
  <2>2. CASE /\ j - Len(rs) \in DOMAIN new /\ both[j] = new[j - Len(rs)]
             /\ k - Len(rs) \in DOMAIN new /\ both[k] = new[k - Len(rs)]
    <3>1. j - Len(rs) = k - Len(rs)
      BY <2>2, <1>7 DEF Once
    <3>2. j \in Int /\ k \in Int /\ Len(rs) \in Int
      BY <1>2
    <3> QED
      BY <3>1, <3>2
  <2>3. \A a \in DOMAIN rs, b \in DOMAIN new : rs[a].card # new[b].card
    BY <1>7 DEF Seen
  <2> QED
    BY <2>1, <2>2, <2>3, <1>3
<1> QED
  BY <1>3, <1>5, <1>6, <1>7 DEF both

\* What a listing reports: with and without live values.
LEMMA ListingRows ==
    ASSUME measured \subseteq Cards, present \subseteq Cards, NEW V \in SUBSET Cards,
           NEW rs, rs \in {Bare(Listing(V)), WithMetrics(Listing(V))}
    PROVE  Filed(rs) /\ Once(rs) /\ Seen(rs) = V \cap present /\ Own(rs)
<1> DEFINE S == V \cap present
           L == InOrder(S)
<1>1. S \in SUBSET Cards /\ Listing(V) = L
  BY DEF Listing
<1>2. L \in Seq(S)
  BY <1>1, CardSets, InOrderLists
<1>3. \A k \in DOMAIN L : L[k] \in Nat /\ Reading(L[k]) \in {NoCard, L[k]}
  <2>1. \A k \in DOMAIN L : L[k] \in Nat
    <3> HIDE DEF L
    <3>1. S \subseteq Nat
      BY <1>1, CardSets
    <3> QED
      BY <1>2, <3>1
  <2> HIDE DEF L
  <2> QED
    BY <2>1 DEF Reading
<1>4. rs = [k \in DOMAIN L |-> rs[k]]
  <2> HIDE DEF L
  <2> QED
    BY <1>1 DEF Bare, WithMetrics
<1>5. \A k \in DOMAIN L : \E m \in {NoCard, L[k]} : rs[k] = Row(L[k], m)
  <2> HIDE DEF L
  <2> QED
    BY <1>1, <1>3 DEF Bare, WithMetrics
<1>6. \A k \in DOMAIN L : \E m \in Nat : rs[k] = Row(L[k], m)
  <2> HIDE DEF L
  <2> QED
    BY <1>3, <1>5 DEF NoCard
<1>7. Filed(rs) /\ Once(rs) /\ Seen(rs) = S
  BY <1>1, <1>4, <1>6, ListedRows
<1>8. Own(rs)
  <2> HIDE DEF L
  <2>1. DOMAIN rs = DOMAIN L
    BY <1>4
  <2> QED
    BY <1>5, <2>1 DEF Own, Row
<1> QED
  BY <1>7, <1>8

\* merge finds the values by the card they were measured on.
LEMMA MergedRows ==
    ASSUME Filed(rows), measured \subseteq Cards, NEW dynamic
    PROVE  LET rs == merge(rows, dynamic) IN
           /\ Filed(rs) /\ DOMAIN rs = DOMAIN rows
           /\ \A k \in DOMAIN rows :
                 /\ rs[k].card = rows[k].card /\ rs[k].vendor = rows[k].vendor
                 /\ rs[k].metric \in {NoCard, rows[k].card, rows[k].metric}
<1> DEFINE rs == merge(rows, dynamic)
<1>1. rows \in Seq(CardRow) /\ Cards \subseteq Nat
  BY TelemetryAssumption DEF Filed
<1>2. rs = [k \in DOMAIN rows |-> rs[k]] /\ DOMAIN rs = DOMAIN rows
  BY DEF merge
<1>3. ASSUME NEW k \in DOMAIN rows
      PROVE  /\ rs[k] \in CardRow
             /\ rs[k].card = rows[k].card /\ rs[k].vendor = rows[k].vendor
             /\ rs[k].metric \in {NoCard, rows[k].card, rows[k].metric}
  <2>1. rows[k] \in CardRow
    BY <1>1
  <2>2. \/ rs[k] = rows[k]
        \/ rs[k] = [rows[k] EXCEPT !.metric = Reading(rows[k].card)]
    BY DEF merge
  <2>3. Reading(rows[k].card) \in {NoCard, rows[k].card}
    BY DEF Reading
  <2> HIDE DEF rs
  <2> QED
    BY <1>1, <2>1, <2>2, <2>3 DEF CardRow, NoCard
<1> HIDE DEF rs
<1>4. rs \in Seq(CardRow)
  <2>1. DOMAIN rows = 1..Len(rows) /\ Len(rows) \in Nat
    BY <1>1
  <2>2. rs \in [1..Len(rows) -> CardRow]
    BY <1>2, <1>3, <2>1
  <2> QED
    BY <2>1, <2>2
<1>5. Filed(rs)
  BY <1>2, <1>3, <1>4 DEF Filed
<1> QED
  BY <1>2, <1>3, <1>5 DEF rs

-----------------------------------------------------------------------------
(* Every command of the collector keeps the invariant.                     *)

LEMMA Vendors ==
    ASSUME NEW c \in Cards
    PROVE  /\ Vendor(c) = "Nvidia" <=> c \in Nvidia
           /\ Vendor(c) = "Amd" <=> c \in Amd
           /\ Vendor(c) \in {"Nvidia", "Amd", "Other"}
  BY TelemetryAssumption DEF Vendor, Cards

\* What the tools of a vendor can see, and what a step leaves as it was.
LEMMA Sights ==
    /\ Knows["nvidia-smi"] \in SUBSET Nvidia /\ Knows["nvidia-smi"] \in SUBSET Cards
    /\ \A s \in AmdTools : Knows[s] \in SUBSET Amd /\ Knows[s] \in SUBSET Cards
    /\ Knows["os"] \in SUBSET Cards
  BY TelemetryAssumption DEF AmdTools, Inventories, Sources, Cards

\* Shown in terms of what is known of the tools.
LEMMA ShownIs ==
    /\ Shown("nvidia-smi", "Nvidia") =
          IF "nvidia-smi" \in tools THEN Knows["nvidia-smi"] \cap present ELSE {}
    /\ \A s \in AmdTools :
          Shown(s, "Amd") = IF s \in tools THEN Knows[s] \cap present ELSE {}
<1>1. \A c \in Knows["nvidia-smi"] : Vendor(c) = "Nvidia"
  BY Sights, Vendors
<1>2. \A s \in AmdTools : \A c \in Knows[s] : Vendor(c) = "Amd"
  BY Sights, Vendors
<1> QED
  BY <1>1, <1>2 DEF Shown

LEMMA ShownKept ==
    ASSUME present' = present, tools' = tools
    PROVE  /\ \A s, v : Shown(s, v)' = Shown(s, v)
           /\ \A S, src, v : From(S, src, v) => From(S, src, v)'
  BY DEF Shown, From

\* The empty report.
LEMMA NothingYet == Filed(<<>>) /\ Once(<<>>) /\ Seen(<<>>) = {} /\ Own(<<>>)
  BY DEF Filed, Once, Seen, Own

LEMMA ResetStep ==
    ASSUME CollectorInv, NEW c \in Cards, Reset(c)
    PROVE  CollectorInv'
<1>1. /\ rows' = rows /\ stat' = stat /\ step' = step /\ tools' = tools
      /\ measured' = measured /\ settled' = FALSE /\ present' \subseteq Cards
  BY DEF Reset, CollectorInv, CollectorTyped
<1>2. CollectorTyped'
  BY <1>1 DEF CollectorInv, CollectorTyped, Filed
<1>3. MetricsInv'
  BY <1>1 DEF CollectorInv, MetricsInv
<1>4. OnceInv'
  BY <1>1 DEF CollectorInv, OnceInv, Once, Seen
<1>5. CoverInv'
  BY <1>1 DEF CoverInv
<1> QED
  BY <1>2, <1>3, <1>4, <1>5 DEF CollectorInv

\* A command that only extends the report: what is left to show of the new rows.
LEMMA CollectedTyped ==
    ASSUME CollectorTyped, NEW rs, NEW next \in Steps, Filed(rs), Collected(rs, next)
    PROVE  CollectorTyped'
<1>1. /\ rows' = rs /\ stat' = stat /\ step' = next /\ settled' = settled
      /\ measured' = measured /\ present' = present
  BY DEF Collected, hardware
<1>2. Filed(rows)'
  BY <1>1 DEF Filed
<1> QED
  BY <1>1, <1>2 DEF CollectorTyped

LEMMA NvidiaStaticStep ==
    ASSUME CollectorInv, NvidiaStatic
    PROVE  CollectorInv'
<1> USE DEF CollectorInv
<1>0. step = "nvidia-smi" /\ stat = <<>> /\ rows = <<>>
  BY DEF NvidiaStatic, MetricsInv, OnceInv
<1>1. CASE "nvidia-smi" \in tools
  <2>1. PICK rs : rs = Bare(Listing(Knows["nvidia-smi"]))
    OBVIOUS
  <2>2. Collected(rs, "nvidia-dynamic")
    BY <1>1, <2>1 DEF NvidiaStatic
  <2>3. Filed(rs) /\ Once(rs) /\ Seen(rs) = Knows["nvidia-smi"] \cap present /\ Own(rs)
    BY <2>1, Sights, ListingRows DEF CollectorTyped
  <2>4. /\ rows' = rs /\ stat' = <<>> /\ step' = "nvidia-dynamic" /\ settled' = settled
        /\ present' = present /\ tools' = tools
    BY <1>0, <2>2 DEF Collected, hardware
  <2>5. CollectorTyped'
    BY <2>2, <2>3, CollectedTyped DEF Steps
  <2>6. MetricsInv'
    BY <2>3, <2>4 DEF MetricsInv, Own
  <2>7. Seen(rows)' = Knows["nvidia-smi"] \cap present /\ Once(rows)'
    BY <2>3, <2>4 DEF Seen, Once
  <2>8. OnceInv'
    BY <2>4, <2>7, Sights DEF OnceInv
  <2>9. CoverInv'
    <3>1. Seen(rows)' \cap Nvidia = Shown("nvidia-smi", "Nvidia")'
      BY <1>1, <2>4, <2>7, Sights, ShownIs, ShownKept
    <3> QED
      BY <2>4, <3>1 DEF CoverInv
  <2> QED
    BY <2>5, <2>6, <2>8, <2>9
<1>2. CASE "nvidia-smi" \notin tools
  <2>1. Collected(<<>>, "sysfs")
    BY <1>2 DEF NvidiaStatic
  <2>2. /\ rows' = <<>> /\ stat' = <<>> /\ step' = "sysfs" /\ settled' = settled
        /\ present' = present /\ tools' = tools
    BY <1>0, <2>1 DEF Collected, hardware
  <2>3. CollectorTyped'
    BY <2>1, NothingYet, CollectedTyped DEF Steps
  <2>4. MetricsInv'
    BY <2>2 DEF MetricsInv
  <2>5. Seen(rows)' = {} /\ Once(rows)'
    BY <2>2 DEF Seen, Once
  <2>6. OnceInv'
    BY <2>2, <2>5 DEF OnceInv
  <2>7. CoverInv'
    <3>1. Seen(rows)' \cap Nvidia = Shown("nvidia-smi", "Nvidia")'
      BY <1>2, <2>2, <2>5, ShownIs, ShownKept
    <3> QED
      BY <2>2, <3>1 DEF CoverInv
  <2> QED
    BY <2>3, <2>4, <2>6, <2>7
<1> QED
  BY <1>1, <1>2

LEMMA NvidiaDynamicStep ==
    ASSUME CollectorInv, NvidiaDynamic
    PROVE  CollectorInv'
<1> USE DEF CollectorInv
<1>0. step = "nvidia-dynamic" /\ stat = <<>> /\ Seen(rows) \subseteq Nvidia
  BY DEF NvidiaDynamic, MetricsInv, OnceInv, Steps
<1>1. PICK rs : /\ rs = IF "nvidia-dynamic" \in tools
                        THEN merge(rows, Listing(Knows["nvidia-smi"])) ELSE rows
                /\ Collected(rs, "sysfs")
  BY DEF NvidiaDynamic
<1>2. /\ Filed(rs) /\ DOMAIN rs = DOMAIN rows
      /\ \A k \in DOMAIN rows :
            /\ rs[k].card = rows[k].card /\ rs[k].vendor = rows[k].vendor
            /\ rs[k].metric \in {NoCard, rows[k].card, rows[k].metric}
  <2>1. CASE "nvidia-dynamic" \in tools
    BY <1>1, <2>1, MergedRows DEF CollectorTyped
  <2>2. CASE "nvidia-dynamic" \notin tools
    BY <1>1, <2>2 DEF CollectorTyped
  <2> QED
    BY <2>1, <2>2
<1>3. /\ rows' = rs /\ stat' = <<>> /\ step' = "sysfs" /\ settled' = settled
      /\ present' = present /\ tools' = tools
  BY <1>0, <1>1 DEF Collected, hardware
<1>4. CollectorTyped'
  BY <1>1, <1>2, CollectedTyped DEF Steps
<1>5. MetricsInv'
  BY <1>0, <1>2, <1>3 DEF MetricsInv
<1>6. Seen(rows)' = Seen(rows)
  BY <1>2, <1>3 DEF Seen
<1>7. Once(rows)'
  BY <1>2, <1>3 DEF OnceInv, Once
<1>8. OnceInv'
  BY <1>0, <1>3, <1>6, <1>7 DEF OnceInv
<1>9. CoverInv'
  <2>1. settled => Seen(rows)' \cap Nvidia = Shown("nvidia-smi", "Nvidia")'
    BY <1>0, <1>3, <1>6, ShownKept DEF CoverInv
  <2> QED
    BY <1>3, <2>1 DEF CoverInv
<1> QED
  BY <1>4, <1>5, <1>8, <1>9

\* amd::detect is over with the report of one of its sources.
LEMMA AmdReported ==
    ASSUME CollectorInv, step \in {"sysfs", "amd-metric", "rocm-smi"},
           NEW new, Filed(new), Once(new), Seen(new) \subseteq Amd,
           settled => From(Seen(new), AmdTools, "Amd"),
           \A k \in DOMAIN new : \/ new[k].metric \in {NoCard, new[k].card}
                                 \/ stat # <<>> /\ ~settled,
           Collected(rows \o new, "os")
    PROVE  CollectorInv'
<1> USE DEF CollectorInv
<1>0. Seen(rows) \subseteq Nvidia /\ Once(rows) /\ Nvidia \cap Amd = {}
  BY TelemetryAssumption DEF OnceInv, Steps
<1>1. PICK rs : rs = rows \o new
  OBVIOUS
<1>2. /\ Filed(rs) /\ Seen(rs) = Seen(rows) \cup Seen(new)
      /\ Once(rs)
      /\ \A k \in DOMAIN rs : \/ k \in DOMAIN rows /\ rs[k] = rows[k]
                              \/ \E j \in DOMAIN new : rs[k] = new[j]
  <2>1. Filed(rows) /\ Seen(rows) \cap Seen(new) = {}
    BY <1>0 DEF CollectorTyped
  <2> QED
    BY <1>0, <1>1, <2>1, Appended
<1>3. /\ rows' = rs /\ stat' = stat /\ step' = "os" /\ settled' = settled
      /\ present' = present /\ tools' = tools
  BY <1>1 DEF Collected, hardware
<1>4. CollectorTyped'
  BY <1>1, <1>2, CollectedTyped DEF Steps
<1>5. \A j \in DOMAIN new : new[j].vendor = "Amd"
  <2>1. \A j \in DOMAIN new : new[j].card \in Amd /\ new[j].vendor = Vendor(new[j].card)
    BY DEF Filed, Seen
  <2> QED
    BY <2>1, Vendors DEF Cards
<1>6. MetricsInv'
  <2>1. \A k \in DOMAIN rs : \/ rs[k].metric \in {NoCard, rs[k].card}
                             \/ rs[k].vendor = "Amd" /\ stat # <<>> /\ ~settled
    BY <1>2, <1>5 DEF MetricsInv
  <2> QED
    BY <1>3, <2>1 DEF MetricsInv
<1>7. Seen(rows)' = Seen(rows) \cup Seen(new) /\ Once(rows)'
  <2>1. Seen(rows)' = Seen(rs) /\ Once(rows)' = Once(rs)
    BY <1>3 DEF Seen, Once
  <2> QED
    BY <1>2, <2>1
<1>8. OnceInv'
  BY <1>0, <1>3, <1>7 DEF OnceInv
<1>9. CoverInv'
  <2>1. settled => Seen(rows) \cap Nvidia = Shown("nvidia-smi", "Nvidia")
    BY DEF CoverInv
  <2>2. Seen(rows)' \cap Nvidia = Seen(rows) \cap Nvidia /\ Seen(rows)' \cap Amd = Seen(new)
    BY <1>0, <1>7
  <2>3. settled => /\ Seen(rows)' \cap Nvidia = Shown("nvidia-smi", "Nvidia")'
                   /\ From(Seen(rows) \cap Amd, AmdTools, "Amd")'
    <3>1. PICK S : S = Seen(new)
      OBVIOUS
    <3>2. settled => From(S, AmdTools, "Amd")'
      BY <1>3, <3>1, ShownKept
    <3>3. Seen(rows)' \cap Amd = S
      BY <2>2, <3>1
    <3>4. settled => From(Seen(rows) \cap Amd, AmdTools, "Amd")'
      BY <3>2, <3>3 DEF From
    <3> QED
      BY <1>3, <2>1, <2>2, <3>4, ShownKept
  <2> QED
    BY <1>3, <2>3 DEF CoverInv
<1> QED
  BY <1>4, <1>6, <1>8, <1>9

\* A listing is empty when there is no card to show.
LEMMA EmptyListing ==
    ASSUME NEW V \in SUBSET Cards
    PROVE  Listing(V) = <<>> <=> V \cap present = {}
<1>1. V \cap present \in SUBSET Cards
  OBVIOUS
<1> QED
  BY <1>1, CardSets, InOrderLists DEF Listing

LEMMA AmdSysfsStep ==
    ASSUME CollectorInv, AmdSysfs
    PROVE  CollectorInv'
<1> USE DEF CollectorInv
<1>0. step = "sysfs" /\ stat = <<>> /\ "sysfs" \in AmdTools
  BY DEF AmdSysfs, MetricsInv, AmdTools
<1>1. CASE "sysfs" \in tools /\ Listing(Knows["sysfs"]) # <<>>
  <2>1. PICK new : new = WithMetrics(Listing(Knows["sysfs"]))
    OBVIOUS
  <2>2. Collected(rows \o new, "os")
    BY <1>1, <2>1 DEF AmdSysfs
  <2>3. Filed(new) /\ Once(new) /\ Seen(new) = Knows["sysfs"] \cap present /\ Own(new)
    BY <1>0, <2>1, Sights, ListingRows DEF CollectorTyped
  <2>4. Seen(new) # {} /\ Seen(new) = Shown("sysfs", "Amd") /\ Seen(new) \subseteq Amd
    BY <1>0, <1>1, <2>3, Sights, EmptyListing, ShownIs
  <2>5. From(Seen(new), AmdTools, "Amd")
    BY <1>0, <2>4 DEF From
  <2> QED
    BY <1>0, <2>2, <2>3, <2>4, <2>5, AmdReported DEF Own
<1>2. CASE ~("sysfs" \in tools /\ Listing(Knows["sysfs"]) # <<>>)
  <2>1. Collected(rows, "amd-static")
    BY <1>2 DEF AmdSysfs
  <2>2. /\ rows' = rows /\ stat' = <<>> /\ step' = "amd-static" /\ settled' = settled
        /\ present' = present /\ tools' = tools
    BY <1>0, <2>1 DEF Collected, hardware
  <2>3. CollectorTyped'
    BY <2>1, CollectedTyped DEF CollectorTyped, Steps
  <2>4. MetricsInv'
    BY <1>0, <2>2 DEF MetricsInv
  <2>5. Seen(rows)' = Seen(rows) /\ Once(rows)' = Once(rows)
    BY <2>2 DEF Seen, Once
  <2>6. OnceInv'
    BY <1>0, <2>2, <2>5 DEF OnceInv, Steps
  <2>7. Shown("sysfs", "Amd")' = {}
    BY <1>0, <1>2, <2>2, Sights, EmptyListing, ShownIs, ShownKept
  <2>8. CoverInv'
    <3>1. settled => Seen(rows)' \cap Nvidia = Shown("nvidia-smi", "Nvidia")'
      BY <1>0, <2>2, <2>5, ShownKept DEF CoverInv
    <3> QED
      BY <2>2, <2>7, <3>1 DEF CoverInv
  <2> QED
    BY <2>3, <2>4, <2>6, <2>8
<1> QED
  BY <1>1, <1>2

LEMMA AmdStaticStep ==
    ASSUME CollectorInv, AmdStatic
    PROVE  CollectorInv'
<1> USE DEF CollectorInv
<1>0. step = "amd-static" /\ stat = <<>> /\ "amd-static" \in AmdTools
  BY DEF AmdStatic, MetricsInv, AmdTools
<1>1. /\ rows' = rows /\ step' = "amd-metric" /\ settled' = settled
      /\ present' = present /\ tools' = tools /\ measured' = measured
      /\ stat' = IF "amd-static" \in tools THEN Listing(Knows["amd-static"]) ELSE <<>>
  BY DEF AmdStatic, hardware
<1>2. \E S \in SUBSET Amd : stat' = InOrder(S)
  <2>1. CASE "amd-static" \in tools
    <3>1. /\ Knows["amd-static"] \cap present \in SUBSET Amd
          /\ stat' = InOrder(Knows["amd-static"] \cap present)
      BY <1>0, <1>1, <2>1, Sights DEF Listing
    <3> QED
      BY <3>1
  <2>2. CASE "amd-static" \notin tools
    BY <1>0, <1>1, <2>2 DEF CollectorTyped
  <2> QED
    BY <2>1, <2>2
<1>3. CollectorTyped'
  <2>1. Filed(rows)'
    BY <1>1 DEF CollectorTyped, Filed
  <2> QED
    BY <1>1, <1>2, <2>1 DEF CollectorTyped, Steps
<1>4. MetricsInv'
  <2>1. Listing(Knows["amd-static"])' = Listing(Knows["amd-static"])
    BY <1>1 DEF Listing
  <2>2. \A k \in DOMAIN rows : rows[k].metric \in {NoCard, rows[k].card}
    BY <1>0 DEF MetricsInv
  <2> QED
    BY <1>1, <2>1, <2>2 DEF MetricsInv
<1>5. Seen(rows)' = Seen(rows) /\ Once(rows)' = Once(rows)
  BY <1>1 DEF Seen, Once
<1>6. OnceInv'
  BY <1>0, <1>1, <1>5 DEF OnceInv, Steps
<1>7. CoverInv'
  <2>1. settled => /\ Seen(rows)' \cap Nvidia = Shown("nvidia-smi", "Nvidia")'
                   /\ Shown("sysfs", "Amd")' = {}
    BY <1>0, <1>1, <1>5, ShownKept DEF CoverInv
  <2> QED
    BY <1>1, <2>1 DEF CoverInv
<1> QED
  BY <1>3, <1>4, <1>6, <1>7

LEMMA AmdMetricStep ==
    ASSUME CollectorInv, AmdMetric
    PROVE  CollectorInv'
<1> USE DEF CollectorInv
<1>0. step = "amd-metric" /\ "amd-static" \in AmdTools /\ Knows["amd-static"] \in SUBSET Amd
      /\ Amd \in SUBSET Cards
  BY Sights DEF AmdMetric, AmdTools, Cards
<1>1. PICK metrics : /\ metrics = IF "amd-metric" \in tools THEN Listing(Knows["amd-static"])
                                  ELSE <<>>
                     /\ IF stat # <<>>
                        THEN Collected(rows \o parse_amd_smi(stat, metrics), "os")
                        ELSE Collected(rows, "rocm-smi")
  BY DEF AmdMetric
<1>2. PICK S \in SUBSET Amd : stat = InOrder(S)
  BY DEF CollectorTyped
<1>3. S \in SUBSET Cards /\ {stat[k] : k \in DOMAIN stat} = S
  <2>1. S \in SUBSET Cards
    BY <1>0
  <2>2. LET L == InOrder(S) IN {L[k] : k \in DOMAIN L} = S
    BY <2>1, CardSets, InOrderLists
  <2> QED
    BY <1>2, <2>1, <2>2
<1>4. CASE stat # <<>>
  <2>1. PICK new : new = parse_amd_smi(stat, metrics)
    OBVIOUS
  <2>2. Collected(rows \o new, "os")
    BY <1>1, <1>4, <2>1
  <2>3. "amd-static" \in tools
    BY <1>4 DEF MetricsInv
  \* If nothing moved, both commands saw the cards that are present.
  <2>4. ASSUME settled
        PROVE  S = Knows["amd-static"] \cap present /\ stat = Listing(Knows["amd-static"])
    <3>1. stat = Listing(Knows["amd-static"])
      BY <1>0, <2>3, <2>4 DEF MetricsInv
    <3>2. Knows["amd-static"] \cap present \in SUBSET Cards /\ stat = InOrder(Knows["amd-static"] \cap present)
      BY <1>0, <3>1 DEF Listing
    <3>3. LET L == InOrder(Knows["amd-static"] \cap present)
          IN  {L[k] : k \in DOMAIN L} = Knows["amd-static"] \cap present
      BY <3>2, CardSets, InOrderLists
    <3> QED
      BY <1>3, <3>1, <3>2, <3>3
  <2>5. \A k \in DOMAIN metrics : metrics[k] \in Nat
    <3>1. Knows["amd-static"] \cap present \in SUBSET Cards
      BY <1>0
    <3>2. Listing(Knows["amd-static"]) \in Seq(Knows["amd-static"] \cap present) /\ Knows["amd-static"] \cap present \in SUBSET Nat
      BY <3>1, CardSets, InOrderLists DEF Listing
    <3>3. CASE "amd-metric" \in tools
      BY <1>1, <3>2, <3>3
    <3>4. CASE "amd-metric" \notin tools
      BY <1>1, <3>4
    <3> QED
      BY <3>3, <3>4
  <2>6. /\ new = [k \in DOMAIN stat |-> new[k]] /\ DOMAIN new = DOMAIN stat
        /\ \A k \in DOMAIN stat :
              new[k] = Row(stat[k], IF k \in DOMAIN metrics THEN Reading(metrics[k])
                                    ELSE NoCard)
    BY <2>1 DEF parse_amd_smi
  <2>7. \A k \in DOMAIN stat : \E m \in Nat : new[k] = Row(stat[k], m)
    BY <2>5, <2>6 DEF Reading, NoCard
  <2>8. Filed(new) /\ Once(new) /\ Seen(new) = S
    BY <1>2, <1>3, <2>6, <2>7, ListedRows
  <2>9. settled => \A k \in DOMAIN new : new[k].metric \in {NoCard, new[k].card}
    <3> SUFFICES ASSUME settled, NEW k \in DOMAIN stat
                 PROVE  new[k].metric \in {NoCard, new[k].card}
      BY <2>6
    <3>1. k \in DOMAIN metrics => metrics[k] = stat[k]
      BY <1>1, <2>4
    <3> QED
      BY <2>6, <3>1 DEF Row, Reading
  <2>10. settled => From(Seen(new), AmdTools, "Amd")
    <3> SUFFICES ASSUME settled
                 PROVE  From(Seen(new), AmdTools, "Amd")
      OBVIOUS
    <3>1. Seen(new) = Shown("amd-static", "Amd")
      BY <1>0, <2>3, <2>4, <2>8, ShownIs
    <3>2. Seen(new) # {}
      <4>1. Knows["amd-static"] \cap present # {}
        BY <1>0, <1>4, <2>4, EmptyListing
      <4> QED
        BY <2>4, <2>8, <4>1
    <3> QED
      BY <1>0, <3>1, <3>2 DEF From
  <2>11. Seen(new) \subseteq Amd
    BY <2>8
  <2> QED
    BY <1>0, <1>4, <2>2, <2>8, <2>9, <2>10, <2>11, AmdReported
<1>5. CASE stat = <<>>
  <2>1. Collected(rows, "rocm-smi")
    BY <1>1, <1>5
  <2>2. /\ rows' = rows /\ stat' = <<>> /\ step' = "rocm-smi" /\ settled' = settled
        /\ present' = present /\ tools' = tools
    BY <1>5, <2>1 DEF Collected, hardware
  <2>3. CollectorTyped'
    BY <2>1, CollectedTyped DEF CollectorTyped, Steps
  <2>4. MetricsInv'
    BY <1>5, <2>2 DEF MetricsInv
  <2>5. Seen(rows)' = Seen(rows) /\ Once(rows)' = Once(rows)
    BY <2>2 DEF Seen, Once
  <2>6. OnceInv'
    BY <1>0, <2>2, <2>5 DEF OnceInv, Steps
  <2>7. settled => Shown("amd-static", "Amd") = {}
    <3>1. settled /\ "amd-static" \in tools => Listing(Knows["amd-static"]) = <<>>
      BY <1>0, <1>5 DEF MetricsInv
    <3> QED
      BY <1>0, <3>1, EmptyListing, ShownIs
  <2>8. CoverInv'
    <3>1. settled => /\ Seen(rows)' \cap Nvidia = Shown("nvidia-smi", "Nvidia")'
                     /\ Shown("sysfs", "Amd")' = {} /\ Shown("amd-static", "Amd")' = {}
      BY <1>0, <2>2, <2>5, <2>7, ShownKept DEF CoverInv
    <3> QED
      BY <2>2, <3>1 DEF CoverInv
  <2> QED
    BY <2>3, <2>4, <2>6, <2>8
<1> QED
  BY <1>4, <1>5

LEMMA RocmSmiStep ==
    ASSUME CollectorInv, RocmSmi
    PROVE  CollectorInv'
<1> USE DEF CollectorInv
<1>0. step = "rocm-smi" /\ "rocm-smi" \in AmdTools /\ Knows["rocm-smi"] \in SUBSET Amd
  BY Sights DEF RocmSmi, AmdTools
\* The other two sources showed nothing: what this one shows is the report.
<1>1. ASSUME settled, NEW S, S = Shown("rocm-smi", "Amd")
      PROVE  From(S, AmdTools, "Amd")
  <2>1. Shown("sysfs", "Amd") = {} /\ Shown("amd-static", "Amd") = {}
    BY <1>0, <1>1 DEF CoverInv
  <2> QED
    BY <1>1, <2>1 DEF From, AmdTools
<1>2. CASE "rocm-smi" \in tools
  <2>1. PICK new : new = WithMetrics(Listing(Knows["rocm-smi"]))
    OBVIOUS
  <2>2. Collected(rows \o new, "os")
    BY <1>2, <2>1 DEF RocmSmi
  <2>3. Filed(new) /\ Once(new) /\ Seen(new) = Knows["rocm-smi"] \cap present /\ Own(new)
    BY <1>0, <2>1, Sights, ListingRows DEF CollectorTyped
  <2>4. Seen(new) = Shown("rocm-smi", "Amd") /\ Seen(new) \subseteq Amd
    BY <1>0, <1>2, <2>3, ShownIs
  <2>5. settled => From(Seen(new), AmdTools, "Amd")
    BY <1>1, <2>4
  <2> QED
    BY <1>0, <2>2, <2>3, <2>4, <2>5, AmdReported DEF Own
<1>3. CASE "rocm-smi" \notin tools
  <2>1. Collected(rows, "os")
    BY <1>3 DEF RocmSmi
  <2>2. /\ rows' = rows /\ stat' = stat /\ step' = "os" /\ settled' = settled
        /\ present' = present /\ tools' = tools
    BY <2>1 DEF Collected, hardware
  <2>3. CollectorTyped'
    BY <2>1, CollectedTyped DEF CollectorTyped, Steps
  <2>4. MetricsInv'
    BY <2>2 DEF MetricsInv
  <2>5. Seen(rows)' = Seen(rows) /\ Once(rows)' = Once(rows)
    BY <2>2 DEF Seen, Once
  <2>6. OnceInv'
    BY <1>0, <2>2, <2>5 DEF OnceInv, Steps
  <2>7. CoverInv'
    <3>1. settled => Seen(rows)' \cap Nvidia = Shown("nvidia-smi", "Nvidia")'
      BY <1>0, <2>2, <2>5, ShownKept DEF CoverInv
    <3>2. Seen(rows) \cap Amd = {} /\ Shown("rocm-smi", "Amd") = {}
      <4>1. Seen(rows) \subseteq Nvidia /\ Nvidia \cap Amd = {}
        BY <1>0, TelemetryAssumption DEF OnceInv, Steps
      <4> QED
        BY <1>0, <1>3, <4>1, ShownIs
    <3>3. settled => From({}, AmdTools, "Amd")'
      BY <1>1, <2>2, <3>2, ShownKept
    <3>4. settled => From(Seen(rows) \cap Amd, AmdTools, "Amd")'
      BY <2>5, <3>2, <3>3
    <3> QED
      BY <2>2, <3>1, <3>4 DEF CoverInv
  <2> QED
    BY <2>3, <2>4, <2>6, <2>7
<1> QED
  BY <1>2, <1>3

\* Before the OS is asked, each vendor's report comes from one of the tools.
LEMMA ToolsCover ==
    ASSUME CollectorInv, step = "os", settled, NEW v \in {"Nvidia", "Amd", "Other"}
    PROVE  From({c \in Seen(rows) : Vendor(c) = v}, Inventories \ {"os"}, v)
<1> USE DEF CollectorInv
<1>1. /\ Seen(rows) \subseteq Nvidia \cup Amd
      /\ Seen(rows) \cap Nvidia = Shown("nvidia-smi", "Nvidia")
      /\ From(Seen(rows) \cap Amd, AmdTools, "Amd")
  BY DEF OnceInv, CoverInv
<1>2. \A c \in Nvidia \cup Amd :
          /\ Vendor(c) = "Nvidia" <=> c \in Nvidia
          /\ Vendor(c) = "Amd" <=> c \in Amd
          /\ Vendor(c) # "Other"
  BY TelemetryAssumption DEF Vendor
<1>3. Inventories \ {"os"} = {"nvidia-smi"} \cup AmdTools
  BY DEF Inventories, Sources, AmdTools
<1>4. /\ \A c \in Knows["nvidia-smi"] : Vendor(c) = "Nvidia"
      /\ \A s \in AmdTools : \A c \in Knows[s] : Vendor(c) = "Amd"
  BY <1>2, Sights, Vendors
<1>5. CASE v = "Nvidia"
  <2>1. {c \in Seen(rows) : Vendor(c) = v} = Shown("nvidia-smi", v)
    BY <1>1, <1>2, <1>5
  <2>2. \A s \in AmdTools : Shown(s, v) = {}
    BY <1>4, <1>5 DEF Shown
  <2> QED
    BY <1>3, <2>1, <2>2 DEF From
<1>6. CASE v = "Amd"
  <2>1. {c \in Seen(rows) : Vendor(c) = v} = Seen(rows) \cap Amd
    BY <1>1, <1>2, <1>6
  <2>2. Shown("nvidia-smi", v) = {}
    BY <1>4, <1>6 DEF Shown
  <2> QED
    BY <1>1, <1>3, <1>6, <2>1, <2>2 DEF From
<1>7. CASE v = "Other"
  <2>1. {c \in Seen(rows) : Vendor(c) = v} = {}
    BY <1>1, <1>2, <1>7
  <2>2. \A s \in Inventories \ {"os"} : Shown(s, v) = {}
    BY <1>3, <1>4, <1>7 DEF Shown
  <2> QED
    BY <1>3, <2>1, <2>2 DEF From
<1> QED
  BY <1>5, <1>6, <1>7

\* The OS inventory adds the cards of the vendors that no row is filed under.
LEMMA OsInventoryStep ==
    ASSUME CollectorInv, OsInventory
    PROVE  CollectorInv'
<1> USE DEF CollectorInv
<1>0. step = "os" /\ Filed(rows) /\ Once(rows) /\ Seen(rows) \subseteq Nvidia \cup Amd
  BY DEF OsInventory, CollectorTyped, OnceInv
<1>1. CASE "os" \in tools
  <2>1. PICK covered : covered = {r.vendor : r \in ToSet(rows)}
    OBVIOUS
  <2>2. PICK V \in SUBSET Cards : V = {c \in Knows["os"] : Vendor(c) \notin covered}
    BY Sights
  <2>3. PICK new : new = Bare(Listing(V))
    OBVIOUS
  <2>4. PICK rs : rs = rows \o new
    OBVIOUS
  <2>5. Collected(rs, "done")
    BY <1>1, <2>1, <2>2, <2>3, <2>4 DEF OsInventory, fill
  <2>6. Filed(new) /\ Once(new) /\ Seen(new) = V \cap present /\ Own(new)
    BY <2>3, ListingRows DEF CollectorTyped
  <2>7. \A k \in DOMAIN rows : /\ rows[k].vendor \in covered
                               /\ rows[k].vendor = Vendor(rows[k].card)
                               /\ rows[k].card \in Cards
    <3>1. \A k \in DOMAIN rows : rows[k] \in ToSet(rows)
      BY DEF ToSet
    <3>2. \A k \in DOMAIN rows : rows[k].vendor \in covered
      BY <2>1, <3>1
    <3>3. \A k \in DOMAIN rows : /\ rows[k].vendor = Vendor(rows[k].card)
                                 /\ rows[k].card \in Cards
      <4>1. rows \in Seq(CardRow) /\ \A k \in DOMAIN rows : rows[k].vendor = Vendor(rows[k].card)
        BY <1>0 DEF Filed
      <4>2. \A k \in DOMAIN rows : rows[k] \in CardRow
        BY <4>1
      <4> QED
        BY <4>1, <4>2 DEF CardRow
    <3> QED
      BY <3>2, <3>3
  <2>8. Seen(rows) \cap Seen(new) = {}
    BY <2>2, <2>6, <2>7 DEF Seen
  <2>9. /\ Filed(rs) /\ Seen(rs) = Seen(rows) \cup (V \cap present) /\ Once(rs)
        /\ \A k \in DOMAIN rs : \/ k \in DOMAIN rows /\ rs[k] = rows[k]
                                \/ \E j \in DOMAIN new : rs[k] = new[j]
    BY <1>0, <2>4, <2>6, <2>8, Appended
  <2>10. /\ rows' = rs /\ stat' = stat /\ step' = "done" /\ settled' = settled
         /\ present' = present /\ tools' = tools
    BY <2>5 DEF Collected, hardware
  <2>11. CollectorTyped'
    BY <2>5, <2>9, CollectedTyped DEF Steps
  <2>12. MetricsInv'
    <3>1. \A k \in DOMAIN rs : \/ rs[k].metric \in {NoCard, rs[k].card}
                               \/ rs[k].vendor = "Amd" /\ stat # <<>> /\ ~settled
      BY <2>6, <2>9 DEF MetricsInv, Own
    <3>2. stat # <<>> => "amd-static" \in tools
      BY DEF MetricsInv
    <3> QED
      BY <2>10, <3>1, <3>2 DEF MetricsInv
  <2>13. Seen(rows)' = Seen(rs) /\ Once(rows)' = Once(rs)
    BY <2>10 DEF Seen, Once
  <2>14. OnceInv'
    BY <2>9, <2>10, <2>13 DEF OnceInv
  \* A vendor is covered when a row is filed under it; its report stays, and
  \* that of the others is what the OS shows.
  <2>15. ASSUME NEW v \in {"Nvidia", "Amd", "Other"}
         PROVE  {c \in Seen(rs) : Vendor(c) = v} =
                   IF v \in covered THEN {c \in Seen(rows) : Vendor(c) = v}
                   ELSE Shown("os", v)
    <3>1. v \in covered <=> \E c \in Seen(rows) : Vendor(c) = v
      <4>1. v \in covered <=> \E k \in DOMAIN rows : rows[k].vendor = v
        BY <2>1 DEF ToSet
      <4> QED
        BY <2>7, <4>1 DEF Seen
    <3>2. \A c \in V \cap present : Vendor(c) \notin covered
      BY <2>2
    <3>3. v \notin covered => {c \in V \cap present : Vendor(c) = v} = Shown("os", v)
      BY <1>1, <2>2 DEF Shown
    <3> QED
      BY <2>9, <3>1, <3>2, <3>3
  <2>16. CoverInv'
    <3> SUFFICES ASSUME settled, NEW v \in {"Nvidia", "Amd", "Other"}
                 PROVE  From({c \in Seen(rows) : Vendor(c) = v}, Inventories, v)'
      BY <2>10 DEF CoverInv
    <3>1. PICK S : S = {c \in Seen(rs) : Vendor(c) = v}
      OBVIOUS
    <3>2. From({c \in Seen(rows) : Vendor(c) = v}, Inventories \ {"os"}, v)
      BY <1>0, ToolsCover
    <3>3. v \in covered <=> {c \in Seen(rows) : Vendor(c) = v} # {}
      <4>1. v \in covered <=> \E k \in DOMAIN rows : rows[k].vendor = v
        BY <2>1 DEF ToSet
      <4> QED
        BY <2>7, <4>1 DEF Seen
    <3>4. From(S, Inventories, v)
      <4>1. CASE v \in covered
        <5>1. S = {c \in Seen(rows) : Vendor(c) = v} /\ S # {}
          BY <2>15, <3>1, <3>3, <4>1
        <5> QED
          BY <3>2, <5>1 DEF From
      <4>2. CASE v \notin covered
        <5>1. S = Shown("os", v) /\ {c \in Seen(rows) : Vendor(c) = v} = {}
          BY <2>15, <3>1, <3>3, <4>2
        <5>2. \A s \in Inventories \ {"os"} : Shown(s, v) = {}
          BY <3>2, <5>1 DEF From
        <5>3. "os" \in Inventories
          BY DEF Inventories, Sources
        <5> QED
          BY <5>1, <5>2, <5>3 DEF From
      <4> QED
        BY <4>1, <4>2
    <3>5. {c \in Seen(rows) : Vendor(c) = v}' = S
      BY <2>13, <3>1
    <3>6. From(S, Inventories, v)'
      BY <2>10, <3>4, ShownKept
    <3> QED
      BY <3>5, <3>6
  <2> QED
    BY <2>11, <2>12, <2>14, <2>16
<1>2. CASE "os" \notin tools
  <2>1. Collected(rows, "done")
    BY <1>2 DEF OsInventory
  <2>2. /\ rows' = rows /\ stat' = stat /\ step' = "done" /\ settled' = settled
        /\ present' = present /\ tools' = tools
    BY <2>1 DEF Collected, hardware
  <2>3. CollectorTyped'
    BY <2>1, CollectedTyped DEF CollectorTyped, Steps
  <2>4. MetricsInv'
    BY <2>2 DEF MetricsInv
  <2>5. Seen(rows)' = Seen(rows) /\ Once(rows)' = Once(rows)
    BY <2>2 DEF Seen, Once
  <2>6. OnceInv'
    BY <1>0, <2>2, <2>5 DEF OnceInv
  <2>7. CoverInv'
    <3> SUFFICES ASSUME settled, NEW v \in {"Nvidia", "Amd", "Other"}
                 PROVE  From({c \in Seen(rows) : Vendor(c) = v}, Inventories, v)'
      BY <2>2 DEF CoverInv
    <3>1. PICK S : S = {c \in Seen(rows) : Vendor(c) = v}
      OBVIOUS
    <3>2. From(S, Inventories \ {"os"}, v)
      BY <1>0, <3>1, ToolsCover
    <3>3. Shown("os", v) = {}
      BY <1>2 DEF Shown
    <3>4. From(S, Inventories, v)
      BY <3>2, <3>3 DEF From
    <3>5. {c \in Seen(rows) : Vendor(c) = v}' = S
      BY <2>5, <3>1
    <3>6. From(S, Inventories, v)'
      BY <2>2, <3>4, ShownKept
    <3> QED
      BY <3>5, <3>6
  <2> QED
    BY <2>3, <2>4, <2>6, <2>7
<1> QED
  BY <1>1, <1>2

-----------------------------------------------------------------------------
(* The theorems about the collector.                                       *)

LEMMA CollectorInvHolds == TelemetrySpec => []CollectorInv
<1>1. TelemetryInit => CollectorInv
  <2> SUFFICES ASSUME TelemetryInit
               PROVE  CollectorInv
    OBVIOUS
  <2>1. /\ present \subseteq Cards /\ measured \subseteq Cards
        /\ step = "nvidia-smi" /\ rows = <<>> /\ stat = <<>> /\ settled = TRUE
    BY DEF TelemetryInit
  <2>2. {} \in SUBSET Cards /\ {} \in SUBSET Amd
    OBVIOUS
  <2>3. stat = InOrder({})
    BY <2>1, <2>2, CardSets, InOrderLists
  <2>4. CollectorTyped
    BY <2>1, <2>2, <2>3, NothingYet DEF CollectorTyped, Steps
  <2>5. MetricsInv
    BY <2>1 DEF MetricsInv
  <2>6. OnceInv
    BY <2>1, NothingYet DEF OnceInv
  <2>7. CoverInv
    BY <2>1 DEF CoverInv
  <2> QED
    BY <2>4, <2>5, <2>6, <2>7 DEF CollectorInv
<1>2. CollectorInv /\ [TelemetryNext]_telemetry => CollectorInv'
  <2> SUFFICES ASSUME CollectorInv, [TelemetryNext]_telemetry
               PROVE  CollectorInv'
    OBVIOUS
  <2>1. CASE UNCHANGED telemetry
    <3>1. /\ rows' = rows /\ stat' = stat /\ step' = step /\ tools' = tools
          /\ measured' = measured /\ settled' = settled /\ present' = present
      BY <2>1 DEF telemetry, hardware
    <3>2. Seen(rows)' = Seen(rows) /\ Once(rows)' = Once(rows) /\ Filed(rows)' = Filed(rows)
      BY <3>1 DEF Seen, Once, Filed
    <3>3. CollectorTyped'
      BY <3>1, <3>2 DEF CollectorInv, CollectorTyped
    <3>4. MetricsInv'
      BY <3>1 DEF CollectorInv, MetricsInv, Listing
    <3>5. OnceInv'
      BY <3>1, <3>2 DEF CollectorInv, OnceInv
    <3>6. CoverInv'
      <4>1. \A s, v : Shown(s, v)' = Shown(s, v)
        BY <3>1, ShownKept
      <4>2. settled /\ step = "os" => From(Seen(rows) \cap Amd, AmdTools, "Amd")'
        <5>1. PICK S : S = Seen(rows) \cap Amd
          OBVIOUS
        <5>2. settled /\ step = "os" => From(S, AmdTools, "Amd")'
          BY <3>1, <5>1, ShownKept DEF CollectorInv, CoverInv
        <5> QED
          BY <3>2, <5>1, <5>2
      <4>3. ASSUME settled, step = "done", NEW v \in {"Nvidia", "Amd", "Other"}
            PROVE  From({c \in Seen(rows) : Vendor(c) = v}, Inventories, v)'
        <5>1. PICK S : S = {c \in Seen(rows) : Vendor(c) = v}
          OBVIOUS
        <5>2. From(S, Inventories, v)'
          BY <3>1, <4>3, <5>1, ShownKept DEF CollectorInv, CoverInv
        <5> QED
          BY <3>2, <5>1, <5>2
      <4> QED
        BY <3>1, <3>2, <4>1, <4>2, <4>3 DEF CollectorInv, CoverInv
    <3> QED
      BY <3>3, <3>4, <3>5, <3>6 DEF CollectorInv
  <2> QED
    BY <2>1, ResetStep, NvidiaStaticStep, NvidiaDynamicStep, AmdSysfsStep, AmdStaticStep,
       AmdMetricStep, RocmSmiStep, OsInventoryStep DEF TelemetryNext
<1> QED
  BY <1>1, <1>2, PTL DEF TelemetrySpec

\* A live value is reported for the card it was measured on, whatever leaves
\* or comes back while the collector runs, except where the two amd-smi
\* listings are joined by index (amd.rs:139) after such a change.
THEOREM MetricsOfSameCardSafe == TelemetrySpec => []MetricsOfSameCard
<1>1. CollectorInv => MetricsOfSameCard
  BY DEF CollectorInv, MetricsInv, MetricsOfSameCard, ToSet, NoCard
<1> QED
  BY <1>1, CollectorInvHolds, PTL

\* detect_gpus reports no card twice and, if nothing changed meanwhile, each
\* vendor's cards as one of its working sources shows them (lib.rs:18), for any
\* set of cards, any installed tools and whatever cards each of them knows.
THEOREM EachCardOnceSafe == TelemetrySpec => []EachCardOnce
<1>1. CollectorInv => EachCardOnce
  <2> SUFFICES ASSUME CollectorInv, step = "done"
               PROVE  EachCardOnce
    BY DEF EachCardOnce
  <2>1. \A j, k \in DOMAIN rows : rows[j].card = rows[k].card => j = k
    BY DEF CollectorInv, OnceInv, Once
  <2>2. ASSUME settled, NEW v \in {"Nvidia", "Amd", "Other"}
        PROVE  \E s \in Inventories :
                  /\ ReportOf(v) = Shown(s, v)
                  /\ Shown(s, v) = {} => \A t \in Inventories : Shown(t, v) = {}
    <3>1. From({c \in Seen(rows) : Vendor(c) = v}, Inventories, v)
      BY <2>2 DEF CollectorInv, CoverInv
    <3>2. \A k \in DOMAIN rows : rows[k].vendor = Vendor(rows[k].card)
      BY DEF CollectorInv, CollectorTyped, Filed
    <3>3. ReportOf(v) = {c \in Seen(rows) : Vendor(c) = v}
      BY <3>2 DEF ReportOf, Seen, ToSet
    <3> QED
      BY <3>1, <3>3 DEF From
  <2> QED
    BY <2>1, <2>2 DEF EachCardOnce
<1> QED
  BY <1>1, CollectorInvHolds, PTL

-----------------------------------------------------------------------------
(* Framing.  The invariant says where in the symbols written each message  *)
(* is, and that the reader stands at the beginning of one.                 *)

Arrived == Len(tape) - Len(lost)

\* The symbols that carry a message.
FramesOf(b) ==
    {encode(b)} \cup (IF framing = "JsonLines" THEN {ForeignLine(b)} ELSE {})

\* s begins with f, as far as s goes.
Agrees(s, f) == \A j \in 1..Len(s) : j <= Len(f) => s[j] = f[j]

\* The k-th message is on the tape between its cut and the next.
OnTape(k) ==
    \E f \in FramesOf(sent[k]) :
        /\ cuts[k + 1] = cuts[k] + Len(f)
        /\ \A j \in 1..Len(f) : tape[cuts[k] + j] = f[j]

TapeInv ==
    /\ framing \in Framings /\ closed \in BOOLEAN
    /\ sent \in Seq(Bodies) /\ got \in Seq(Bodies)
    /\ tape \in Seq(Nat) /\ lost \in Seq(Nat) /\ stream \in Seq(Nat)
    /\ cuts \in Seq(Nat) /\ Len(cuts) = Len(sent) + 1
    /\ \A k \in 1..Len(cuts) : cuts[k] <= Len(tape)
    /\ cuts[Len(cuts)] = Len(tape)
    /\ \A k \in 1..Len(sent) : OnTape(k)
    /\ Len(lost) <= Len(tape) /\ (~closed => lost = <<>>)

\* What is unread is the tape from the first message not got.
Aligned ==
    LET first == cuts[Len(got) + 1]
    IN  /\ Len(stream) = Arrived - first
        /\ \A j \in 1..Len(stream) : stream[j] = tape[first + j]

\* Or the last message was taken without the rest of its line end.
Drained == closed /\ stream = <<>> /\ Arrived < cuts[Len(got) + 1]

GotInv == Len(got) <= Len(sent) /\ \A k \in 1..Len(got) : got[k] = sent[k]
ReaderInv ==
    IF reader = "open" THEN Aligned \/ Drained ELSE closed /\ EndIsHonest

FramingInv == TapeInv /\ GotInv /\ ReaderInv

LEMMA MinIs ==
    ASSUME NEW S \in SUBSET Int, NEW x \in S, \A y \in S : x <= y
    PROVE  Min(S) = x
<1>1. PICK m : m = Min(S)
  OBVIOUS
<1>2. m \in S /\ \A y \in S : m <= y
  BY <1>1 DEF Min
<1> QED
  BY <1>1, <1>2

LEMMA MaxIs ==
    ASSUME NEW S \in SUBSET Int, NEW x \in S, \A y \in S : y <= x
    PROVE  Max(S) = x
<1>1. PICK m : m = Max(S)
  OBVIOUS
<1>2. \E z \in S : \A y \in S : z >= y
  OBVIOUS
<1>3. m \in S /\ \A y \in S : m >= y
  BY <1>1, <1>2 DEF Max
<1> QED
  BY <1>1, <1>3

LEMMA BodyBytes ==
    ASSUME NEW b \in Bodies
    PROVE  /\ b \in Seq(Nat) /\ Len(b) \in Nat \ {0} /\ Len(b) \div (256 * 256 * 256) < 256
           /\ \A j \in 1..Len(b) : b[j] \in Nat /\ b[j] # CR /\ b[j] # LF
<1>1. b \in Seq((0..255) \ {CR, LF}) /\ Len(b) > 0 /\ Len(b) \div (256 * 256 * 256) < 256
  BY FramingAssumption
<1>2. \A j \in 1..Len(b) : b[j] \in (0..255) \ {CR, LF}
  BY <1>1, ElementOfSeq
<1>3. b \in Seq(Nat)
  <2>1. (0..255) \ {CR, LF} \subseteq Nat
    OBVIOUS
  <2> QED
    BY <1>1, <2>1, SeqMonotonic
<1> QED
  BY <1>1, <1>2, <1>3

\* A message is not the beginning of another.
LEMMA NoShorterBody ==
    ASSUME NEW b \in Bodies, NEW s \in Bodies, Len(s) <= Len(b),
           \A j \in 1..Len(s) : s[j] = b[j]
    PROVE  s = b
<1>1. s \in Seq(Nat) /\ b \in Seq(Nat)
  BY BodyBytes
<1>2. SubSeq(s, 1, Len(s)) = SubSeq(b, 1, Len(s))
  BY <1>1
<1>3. IsPrefix(s, b)
  BY <1>2 DEF IsPrefix
<1> QED
  BY <1>3, FramingAssumption

\* The four length bytes give the length back.
LEMMA BigEndian ==
    ASSUME NEW n \in Nat, n \div (256 * 256 * 256) < 256
    PROVE  from_be_bytes(to_be_bytes(n)) = n
<1> DEFINE b == to_be_bytes(n)
<1>1. /\ b[1] = n \div (256 * 256 * 256) /\ b[2] = (n \div (256 * 256)) % 256
      /\ b[3] = (n \div 256) % 256 /\ b[4] = n % 256
  BY DEF to_be_bytes
<1>2. /\ 256 * (n \div (256 * 256 * 256)) + ((n \div (256 * 256)) % 256) = n \div (256 * 256)
      /\ 256 * (n \div (256 * 256)) + ((n \div 256) % 256) = n \div 256
      /\ 256 * (n \div 256) + (n % 256) = n
  OBVIOUS
<1> QED
  BY <1>1, <1>2 DEF from_be_bytes

\* Two ways to be one sequence.
LEMMA SliceIs ==
    ASSUME NEW s \in Seq(Nat), NEW b \in Seq(Nat), NEW k \in Nat,
           k + Len(b) <= Len(s), \A j \in 1..Len(b) : s[k + j] = b[j]
    PROVE  SubSeq(s, k + 1, k + Len(b)) = b
<1> DEFINE u == SubSeq(s, k + 1, k + Len(b))
<1>1. u \in Seq(Nat) /\ Len(u) = Len(b)
  OBVIOUS
<1>2. \A j \in 1..Len(b) : u[j] = b[j]
  OBVIOUS
<1> HIDE DEF u
<1>3. u = b
  BY <1>1, <1>2, SeqEqual
<1> QED
  BY <1>3 DEF u

\* A part of a stream, and what is left after position k.
LEMMA Slice ==
    ASSUME NEW s \in Seq(Nat), NEW i \in Nat \ {0}, NEW j \in Nat,
           j <= Len(s), i <= j + 1
    PROVE  /\ SubSeq(s, i, j) \in Seq(Nat) /\ Len(SubSeq(s, i, j)) = j - i + 1
           /\ \A k \in 1..(j - i + 1) : SubSeq(s, i, j)[k] = s[i + k - 1]
  OBVIOUS

LEMMA AfterIs ==
    ASSUME NEW s \in Seq(Nat), NEW k \in Nat, k <= Len(s)
    PROVE  /\ After(s, k) \in Seq(Nat) /\ Len(After(s, k)) = Len(s) - k
           /\ \A j \in 1..(Len(s) - k) : After(s, k)[j] = s[k + j]
<1>1. Len(s) \in Nat
  OBVIOUS
<1>2. After(s, k) = SubSeq(s, k + 1, Len(s))
  BY DEF After
<1> QED
  BY <1>1, <1>2, Slice

\* Both parts of a concatenation.
LEMMA Joins ==
    ASSUME NEW u \in Seq(Nat), NEW v \in Seq(Nat)
    PROVE  LET w == u \o v IN
           /\ w \in Seq(Nat) /\ Len(w) = Len(u) + Len(v)
           /\ \A j \in 1..Len(u) : w[j] = u[j]
           /\ \A j \in 1..Len(v) : w[Len(u) + j] = v[j]
<1> DEFINE w == u \o v
<1>1. Len(u) \in Nat /\ Len(v) \in Nat
  OBVIOUS
<1>2. /\ w \in Seq(Nat) /\ Len(w) = Len(u) + Len(v)
      /\ \A i \in 1..(Len(u) + Len(v)) :
            w[i] = IF i <= Len(u) THEN u[i] ELSE v[i - Len(u)]
  BY ConcatProperties
<1> HIDE DEF w
<1>3. ASSUME NEW j \in 1..Len(u) PROVE w[j] = u[j]
  BY <1>1, <1>2
<1>4. ASSUME NEW j \in 1..Len(v) PROVE w[Len(u) + j] = v[j]
  <2>1. Len(u) + j \in 1..(Len(u) + Len(v)) /\ ~(Len(u) + j <= Len(u))
        /\ (Len(u) + j) - Len(u) = j
    BY <1>1
  <2> QED
    BY <1>2, <2>1
<1> QED
  BY <1>2, <1>3, <1>4 DEF w

\* Where the parts of a frame are.
LEMMA FramePlaces ==
    ASSUME NEW b \in Bodies
    PROVE  /\ framing = "JsonLines" =>
                 LET f == encode(b) IN
                 /\ f \in Seq(Nat) /\ Len(f) = Len(b) + 1 /\ f[Len(b) + 1] = LF
                 /\ \A j \in 1..Len(b) : f[j] = b[j]
           /\ framing = "LengthPrefixedBE" =>
                 LET f == encode(b) IN
                 /\ f \in Seq(Nat) /\ Len(f) = Len(b) + 4
                 /\ \A j \in 1..4 : f[j] = to_be_bytes(Len(b))[j]
                 /\ \A j \in 1..Len(b) : f[4 + j] = b[j]
           /\ framing = "ContentLength" =>
                 LET f == encode(b) IN
                 /\ f \in Seq(Nat) /\ Len(f) = Len(b) + 6
                 /\ f[1] = KEY /\ f[2] = Number(Len(b))
                 /\ f[3] = CR /\ f[4] = LF /\ f[5] = CR /\ f[6] = LF
                 /\ \A j \in 1..Len(b) : f[6 + j] = b[j]
           /\ LET f == ForeignLine(b) IN
              /\ f \in Seq(Nat) /\ Len(f) = Len(b) + 4
              /\ f[1] = CR /\ f[2] = LF /\ f[Len(b) + 3] = CR /\ f[Len(b) + 4] = LF
              /\ \A j \in 1..Len(b) : f[2 + j] = b[j]
<1>0. b \in Seq(Nat) /\ Len(b) \in Nat
  BY BodyBytes
<1>1. ASSUME framing = "JsonLines"
      PROVE  LET f == encode(b) IN
             /\ f \in Seq(Nat) /\ Len(f) = Len(b) + 1 /\ f[Len(b) + 1] = LF
             /\ \A j \in 1..Len(b) : f[j] = b[j]
  <2>1. encode(b) = b \o <<LF>>
    BY <1>1 DEF encode
  <2>2. <<LF>> \in Seq(Nat)
    BY DEF LF
  <2> QED
    BY <1>0, <2>1, <2>2
<1>2. ASSUME framing = "LengthPrefixedBE"
      PROVE  LET f == encode(b) IN
             /\ f \in Seq(Nat) /\ Len(f) = Len(b) + 4
             /\ \A j \in 1..4 : f[j] = to_be_bytes(Len(b))[j]
             /\ \A j \in 1..Len(b) : f[4 + j] = b[j]
  <2>1. PICK head : head = to_be_bytes(Len(b))
    OBVIOUS
  <2>2. encode(b) = head \o b
    BY <1>2, <2>1 DEF encode
  <2>3. head \in Seq(Nat) /\ Len(head) = 4
    <3>1. PICK n \in Nat : n = Len(b)
      BY <1>0
    <3>2. /\ n \div (256 * 256 * 256) \in Nat /\ (n \div (256 * 256)) % 256 \in Nat
          /\ (n \div 256) % 256 \in Nat /\ n % 256 \in Nat
      OBVIOUS
    <3> QED
      BY <2>1, <3>1, <3>2 DEF to_be_bytes
  <2>4. /\ head \o b \in Seq(Nat) /\ Len(head \o b) = Len(head) + Len(b)
        /\ \A j \in 1..Len(head) : (head \o b)[j] = head[j]
        /\ \A j \in 1..Len(b) : (head \o b)[Len(head) + j] = b[j]
    BY <1>0, <2>3, Joins
  <2> QED
    BY <1>0, <2>1, <2>2, <2>3, <2>4
<1>3. ASSUME framing = "ContentLength"
      PROVE  LET f == encode(b) IN
             /\ f \in Seq(Nat) /\ Len(f) = Len(b) + 6
             /\ f[1] = KEY /\ f[2] = Number(Len(b))
             /\ f[3] = CR /\ f[4] = LF /\ f[5] = CR /\ f[6] = LF
             /\ \A j \in 1..Len(b) : f[6 + j] = b[j]
  <2>1. PICK head : head = <<KEY, Number(Len(b)), CR, LF, CR, LF>>
    OBVIOUS
  <2>2. encode(b) = head \o b
    BY <1>3, <2>1 DEF encode
  <2>3. head \in Seq(Nat) /\ Len(head) = 6
    BY <1>0, <2>1 DEF KEY, Number, CR, LF
  <2>4. /\ head[1] = KEY /\ head[2] = Number(Len(b)) /\ head[3] = CR
        /\ head[4] = LF /\ head[5] = CR /\ head[6] = LF
    BY <2>1
  <2>5. /\ head \o b \in Seq(Nat) /\ Len(head \o b) = Len(head) + Len(b)
        /\ \A j \in 1..Len(head) : (head \o b)[j] = head[j]
        /\ \A j \in 1..Len(b) : (head \o b)[Len(head) + j] = b[j]
    BY <1>0, <2>3, Joins
  <2>6. \A j \in 1..6 : encode(b)[j] = head[j]
    BY <2>2, <2>3, <2>5
  <2>7. 1 \in 1..6 /\ 2 \in 1..6 /\ 3 \in 1..6 /\ 4 \in 1..6 /\ 5 \in 1..6 /\ 6 \in 1..6
    OBVIOUS
  <2>8. /\ encode(b)[1] = KEY /\ encode(b)[2] = Number(Len(b)) /\ encode(b)[3] = CR
        /\ encode(b)[4] = LF /\ encode(b)[5] = CR /\ encode(b)[6] = LF
    BY <2>4, <2>6, <2>7
  <2>9. encode(b) \in Seq(Nat) /\ Len(encode(b)) = 6 + Len(b)
    BY <2>2, <2>3, <2>5
  <2>10. \A j \in 1..Len(b) : encode(b)[6 + j] = b[j]
    BY <2>2, <2>3, <2>5
  <2> QED
    BY <1>0, <2>8, <2>9, <2>10
<1>4. LET f == ForeignLine(b) IN
      /\ f \in Seq(Nat) /\ Len(f) = Len(b) + 4
      /\ f[1] = CR /\ f[2] = LF /\ f[Len(b) + 3] = CR /\ f[Len(b) + 4] = LF
      /\ \A j \in 1..Len(b) : f[2 + j] = b[j]
  <2>1. PICK nl : nl = <<CR, LF>>
    OBVIOUS
  <2>2. nl \in Seq(Nat) /\ Len(nl) = 2 /\ nl[1] = CR /\ nl[2] = LF
    BY <2>1 DEF CR, LF
  <2>3. PICK g : g = nl \o b
    OBVIOUS
  <2>4. /\ g \in Seq(Nat) /\ Len(g) = Len(b) + 2 /\ g[1] = CR /\ g[2] = LF
        /\ \A j \in 1..Len(b) : g[2 + j] = b[j]
    <3>1. /\ g \in Seq(Nat) /\ Len(g) = Len(nl) + Len(b)
          /\ \A j \in 1..Len(nl) : g[j] = nl[j]
          /\ \A j \in 1..Len(b) : g[Len(nl) + j] = b[j]
      BY <1>0, <2>2, <2>3, Joins
    <3>2. 1 \in 1..Len(nl) /\ 2 \in 1..Len(nl)
      BY <2>2
    <3> QED
      BY <1>0, <2>2, <3>1, <3>2
  <2>5. ForeignLine(b) = g \o nl
    BY <2>1, <2>3 DEF ForeignLine
  <2>6. /\ g \o nl \in Seq(Nat) /\ Len(g \o nl) = Len(g) + Len(nl)
        /\ \A j \in 1..Len(g) : (g \o nl)[j] = g[j]
        /\ \A j \in 1..Len(nl) : (g \o nl)[Len(g) + j] = nl[j]
    BY <2>2, <2>4, Joins
  <2> DEFINE f == ForeignLine(b)
  <2>7. f \in Seq(Nat) /\ Len(f) = Len(b) + 4
    BY <1>0, <2>2, <2>4, <2>5, <2>6
  <2>8. 1 \in 1..Len(g) /\ 2 \in 1..Len(g) /\ 1 \in 1..Len(nl) /\ 2 \in 1..Len(nl)
    BY <1>0, <2>2, <2>4
  <2>9. f[1] = CR /\ f[2] = LF
    BY <2>4, <2>5, <2>6, <2>8
  <2>10. f[Len(g) + 1] = CR /\ f[Len(g) + 2] = LF
    BY <2>2, <2>5, <2>6, <2>8
  <2>11. Len(g) + 1 = Len(b) + 3 /\ Len(g) + 2 = Len(b) + 4
    BY <1>0, <2>4
  <2>12. ASSUME NEW j \in 1..Len(b) PROVE f[2 + j] = b[j]
    <3>1. 2 + j \in 1..Len(g)
      BY <1>0, <2>4
    <3> QED
      BY <2>4, <2>5, <2>6, <3>1
  <2> HIDE DEF f
  <2>13. f[Len(b) + 3] = CR /\ f[Len(b) + 4] = LF
    BY <2>10, <2>11
  <2> QED
    BY <2>7, <2>9, <2>12, <2>13 DEF f
<1> QED
  BY <1>1, <1>2, <1>3, <1>4

-----------------------------------------------------------------------------
(* One call of read_frame, at the beginning of a frame.                    *)

\* On a stream that begins with the frame f of b, read_frame returns b and
\* leaves the rest; on one that ends inside f, it reports an end or an error, or
\* a body that is b itself or no message.
Reads(s, f, b) ==
    LET r == read_frame(s) IN
    /\ Len(s) >= Len(f) => r = Frame("body", b, After(s, Len(f)))
    /\ Len(s) < Len(f) /\ closed =>
          /\ r.rest = <<>>
          /\ \/ r.kind = "body" /\ (from_slice(r.body) = b \/ from_slice(r.body) \notin Bodies)
             \/ /\ r.kind = "none"
                /\ \/ \A j \in 1..Len(s) : s[j] \in {CR, LF}
                   \/ framing = "LengthPrefixedBE" /\ Len(s) \in 1..3
             \/ r.kind = "error"

LEMMA ExactlyReads ==
    ASSUME NEW s \in Seq(Nat), NEW b \in Bodies, NEW k \in Nat,
           \A j \in 1..Len(b) : k + j <= Len(s) => s[k + j] = b[j]
    PROVE  /\ Len(s) >= k + Len(b) =>
                 Exactly(s, k, Len(b)) = Frame("body", b, After(s, k + Len(b)))
           /\ Len(s) < k + Len(b) /\ closed => Exactly(s, k, Len(b)) = Ended("error", <<>>)
<1>1. b \in Seq(Nat) /\ Len(b) \in Nat /\ Len(s) \in Nat
  BY BodyBytes
<1>2. ASSUME Len(s) >= k + Len(b)
      PROVE  SubSeq(s, k + 1, k + Len(b)) = b
  <2>1. k + Len(b) <= Len(s) /\ \A j \in 1..Len(b) : s[k + j] = b[j]
    BY <1>1, <1>2
  <2> QED
    BY <1>1, <2>1, SliceIs
<1>3. ASSUME Len(s) >= k + Len(b)
      PROVE  Exactly(s, k, Len(b)) = Frame("body", b, After(s, k + Len(b)))
  BY <1>2, <1>3 DEF Exactly
<1>4. ASSUME Len(s) < k + Len(b), closed
      PROVE  Exactly(s, k, Len(b)) = Ended("error", <<>>)
  <2>1. ~(Len(s) >= k + Len(b))
    BY <1>1, <1>4
  <2> QED
    BY <1>4, <2>1 DEF Exactly
<1> QED
  BY <1>3, <1>4

LEMMA ReadsLengthPrefixed ==
    ASSUME framing = "LengthPrefixedBE", NEW b \in Bodies, NEW s \in Seq(Nat),
           Agrees(s, encode(b))
    PROVE  Reads(s, encode(b), b)
<1>1. PICK f : f = encode(b)
  OBVIOUS
<1>2. /\ f \in Seq(Nat) /\ Len(f) = Len(b) + 4
      /\ \A j \in 1..4 : f[j] = to_be_bytes(Len(b))[j]
      /\ \A j \in 1..Len(b) : f[4 + j] = b[j]
  BY <1>1, FramePlaces
<1>3. b \in Seq(Nat) /\ Len(b) \in Nat /\ Len(s) \in Nat
  BY BodyBytes
<1>4. \A j \in 1..Len(s) : j <= Len(f) => s[j] = f[j]
  BY <1>1 DEF Agrees
<1>5. read_frame(s) = read_len_prefixed(s)
  BY DEF read_frame
<1>6. CASE Len(s) < 4
  <2>1. ~(Len(s) >= Len(f))
    BY <1>2, <1>3, <1>6
  <2>2. ASSUME closed PROVE read_frame(s) = Ended("none", <<>>)
    BY <1>5, <1>6, <2>2 DEF read_len_prefixed
  <2>3. Len(s) \in 1..3 \/ \A j \in 1..Len(s) : FALSE
    <3>1. PICK n \in Nat : n = Len(s)
      BY <1>3
    <3>2. n \in 1..3 \/ n = 0
      BY <1>6, <3>1
    <3>3. n = 0 => \A j \in 1..n : FALSE
      OBVIOUS
    <3> QED
      BY <3>1, <3>2, <3>3
  <2>4. Ended("none", <<>>).kind = "none" /\ Ended("none", <<>>).rest = <<>>
    BY DEF Ended, Frame
  <2> QED
    BY <1>1, <2>1, <2>2, <2>3, <2>4 DEF Reads
<1>7. CASE Len(s) >= 4
  <2>1. s[1] = f[1] /\ s[2] = f[2] /\ s[3] = f[3] /\ s[4] = f[4]
    <3>1. \A j \in 1..4 : j \in 1..Len(s) /\ j <= Len(f)
      BY <1>2, <1>3, <1>7
    <3>2. \A j \in 1..4 : s[j] = f[j]
      BY <1>4, <3>1
    <3>3. 1 \in 1..4 /\ 2 \in 1..4 /\ 3 \in 1..4 /\ 4 \in 1..4
      OBVIOUS
    <3> QED
      BY <3>2, <3>3
  <2>2. from_be_bytes(s) = from_be_bytes(to_be_bytes(Len(b)))
    BY <1>2, <2>1 DEF from_be_bytes
  <2>3. from_be_bytes(s) = Len(b)
    BY <1>3, <2>2, BodyBytes, BigEndian
  <2>4. read_frame(s) = Exactly(s, 4, Len(b))
    BY <1>3, <1>5, <1>7, <2>3 DEF read_len_prefixed
  <2>5. ASSUME NEW j \in 1..Len(b), 4 + j <= Len(s) PROVE s[4 + j] = b[j]
    <3>1. 4 + j \in 1..Len(s) /\ 4 + j <= Len(f)
      BY <1>2, <1>3, <2>5
    <3> QED
      BY <1>2, <1>4, <3>1
  <2> QED
    BY <1>1, <1>2, <1>3, <2>4, <2>5, ExactlyReads DEF Reads, Ended, Frame
<1> QED
  BY <1>3, <1>6, <1>7

LEMMA ReadsContentLength ==
    ASSUME framing = "ContentLength", NEW b \in Bodies, NEW s \in Seq(Nat),
           Agrees(s, encode(b))
    PROVE  Reads(s, encode(b), b)
<1> DEFINE crlf  == <<CR, LF, CR, LF>>
           blank == {k \in 4..Len(s) : SubSeq(s, k - 3, k) = crlf}
<1>1. PICK f : f = encode(b)
  OBVIOUS
<1>2. /\ f \in Seq(Nat) /\ Len(f) = Len(b) + 6
      /\ f[1] = KEY /\ f[2] = Number(Len(b))
      /\ f[3] = CR /\ f[4] = LF /\ f[5] = CR /\ f[6] = LF
      /\ \A j \in 1..Len(b) : f[6 + j] = b[j]
  BY <1>1, FramePlaces
<1>3. b \in Seq(Nat) /\ Len(b) \in Nat /\ Len(s) \in Nat
  BY BodyBytes
<1>3a. Len(f) = Len(b) + 6 /\ Len(f) \in Nat /\ Len(f) >= 6
  BY <1>2, <1>3
<1>4. \A j \in 1..Len(s) : j <= Len(f) => s[j] = f[j]
  BY <1>1 DEF Agrees
<1>5. read_frame(s) = read_content_length(s)
  BY DEF read_frame
<1>6. /\ crlf \in Seq(Nat) /\ Len(crlf) = 4
      /\ crlf[1] = CR /\ crlf[2] = LF /\ crlf[3] = CR /\ crlf[4] = LF
  BY DEF CR, LF
<1> HIDE DEF crlf
<1>7. ASSUME NEW k \in blank PROVE k >= 6
  <2>1. k \in 4..Len(s) /\ SubSeq(s, k - 3, k) = crlf
    OBVIOUS
  <2>2. k \in Nat /\ k - 3 \in Nat \ {0} /\ k <= Len(s)
    BY <1>3, <2>1
  <2>3. SubSeq(s, k - 3, k)[1] = s[k - 3]
    <3>1. \A j \in 1..(k - (k - 3) + 1) : SubSeq(s, k - 3, k)[j] = s[(k - 3) + j - 1]
      BY <1>3, <2>2, Slice
    <3>2. 1 \in 1..(k - (k - 3) + 1) /\ (k - 3) + 1 - 1 = k - 3
      BY <2>2
    <3> QED
      BY <3>1, <3>2
  <2>4. s[k - 3] = CR
    BY <1>6, <2>1, <2>3
  <2>5. k # 4
    <3> SUFFICES ASSUME k = 4 PROVE FALSE
      OBVIOUS
    <3>1. k - 3 = 1 /\ 1 \in 1..Len(s) /\ 1 <= Len(f)
      BY <1>3, <1>3a, <2>2
    <3>2. s[1] = KEY
      BY <1>2, <1>4, <3>1
    <3> QED
      BY <2>4, <3>1, <3>2 DEF KEY, CR
  <2>6. k # 5
    <3> SUFFICES ASSUME k = 5 PROVE FALSE
      OBVIOUS
    <3>1. k - 3 = 2 /\ 2 \in 1..Len(s) /\ 2 <= Len(f)
      BY <1>3, <1>3a, <2>2
    <3>2. s[2] = Number(Len(b))
      BY <1>2, <1>4, <3>1
    <3> QED
      BY <1>3, <2>4, <3>1, <3>2 DEF KEY, CR, Number
  <2> QED
    BY <2>1, <2>2, <2>5, <2>6
<1>8. CASE Len(s) < 6
  <2>1. blank = {}
    <3>1. ASSUME NEW k \in blank PROVE FALSE
      <4>1. k \in 4..Len(s)
        OBVIOUS
      <4>2. k >= 6
        BY <1>7
      <4> QED
        BY <1>3, <1>8, <4>1, <4>2
    <3> QED
      BY <3>1
  <2>2. ~(Len(s) >= Len(f))
    BY <1>2, <1>3, <1>8
  <2>3. ASSUME closed
        PROVE  read_frame(s) = IF s = <<>> THEN Ended("none", <<>>) ELSE Ended("body", <<>>)
    BY <1>5, <2>1, <2>3 DEF read_content_length, crlf
  <2>4. from_slice(<<>>) = <<>> /\ <<>> \notin Bodies
    <3>1. from_slice(<<>>) = <<>>
      BY DEF from_slice
    <3>2. Len(<<>>) = 0
      OBVIOUS
    <3> QED
      BY <3>1, <3>2, BodyBytes
  <2>5. /\ Ended("none", <<>>).kind = "none" /\ Ended("none", <<>>).rest = <<>>
        /\ Ended("body", <<>>).kind = "body" /\ Ended("body", <<>>).rest = <<>>
        /\ Ended("body", <<>>).body = <<>>
    BY DEF Ended, Frame
  <2>6. s = <<>> => \A j \in 1..Len(s) : FALSE
    OBVIOUS
  <2> QED
    BY <1>1, <2>2, <2>3, <2>4, <2>5, <2>6 DEF Reads
<1>9. CASE Len(s) >= 6
  <2>1. \A j \in 1..6 : s[j] = f[j]
    <3>1. \A j \in 1..6 : j \in 1..Len(s) /\ j <= Len(f)
      BY <1>3, <1>9, <1>3a
    <3> QED
      BY <1>4, <3>1
  <2>2. /\ s[1] = KEY /\ s[2] = Number(Len(b))
        /\ s[3] = CR /\ s[4] = LF /\ s[5] = CR /\ s[6] = LF
    <3>1. 1 \in 1..6 /\ 2 \in 1..6 /\ 3 \in 1..6 /\ 4 \in 1..6 /\ 5 \in 1..6 /\ 6 \in 1..6
      OBVIOUS
    <3> QED
      BY <1>2, <2>1, <3>1
  <2>3. 6 \in blank
    <3>1. \A j \in 1..4 : s[2 + j] = crlf[j]
      <4>1. s[2 + 1] = crlf[1] /\ s[2 + 2] = crlf[2] /\ s[2 + 3] = crlf[3] /\ s[2 + 4] = crlf[4]
        BY <1>6, <2>2
      <4>2. \A j \in 1..4 : j = 1 \/ j = 2 \/ j = 3 \/ j = 4
        OBVIOUS
      <4> QED
        BY <4>1, <4>2
    <3>2. SubSeq(s, 2 + 1, 2 + Len(crlf)) = crlf
      <4>1. 2 + Len(crlf) <= Len(s)
        BY <1>3, <1>6, <1>9
      <4> QED
        BY <1>6, <3>1, <4>1, SliceIs
    <3>3. 2 + 1 = 6 - 3 /\ 2 + Len(crlf) = 6 /\ 6 \in 4..Len(s)
      BY <1>3, <1>6, <1>9
    <3> QED
      BY <3>2, <3>3
  <2>4. Min(blank) = 6
    <3>1. blank \in SUBSET Int /\ \A k \in blank : 6 <= k
      BY <1>7
    <3> HIDE DEF blank
    <3> QED
      BY <2>3, <3>1, MinIs
  <2> DEFINE keys == {k \in 1..6 : s[k] = KEY}
  <2>5. keys = {1}
    <3>1. s[2] # KEY /\ s[3] # KEY /\ s[4] # KEY /\ s[5] # KEY /\ s[6] # KEY
      BY <1>3, <2>2 DEF KEY, CR, LF, Number
    <3>2. \A k \in 1..6 : k = 1 \/ k = 2 \/ k = 3 \/ k = 4 \/ k = 5 \/ k = 6
      OBVIOUS
    <3>3. \A k \in 1..6 : s[k] = KEY <=> k = 1
      BY <2>2, <3>1, <3>2
    <3>4. 1 \in 1..6
      OBVIOUS
    <3> QED
      BY <3>3, <3>4
  <2>6. Max(keys) = 1
    <3>1. {1} \in SUBSET Int /\ 1 \in {1} /\ \A k \in {1} : k <= 1
      OBVIOUS
    <3>2. Max({1}) = 1
      BY <3>1, MaxIs
    <3> QED
      BY <2>5, <3>2
  <2>7. s[1 + 1] - Number(0) = Len(b)
    BY <1>3, <2>2 DEF Number, KEY
  <2>8. read_content_length(s) = Exactly(s, 6, Len(b))
    <3>1. blank # {} /\ keys # {}
      BY <2>3, <2>5
    <3>2. read_content_length(s) =
            IF blank = {}
            THEN IF ~closed THEN Wait
                 ELSE IF s = <<>> THEN Ended("none", <<>>) ELSE Ended("body", <<>>)
            ELSE IF {k \in 1..Min(blank) : s[k] = KEY} = {}
                 THEN Frame("error", <<>>, After(s, Min(blank)))
            ELSE Exactly(s, Min(blank), s[Max({k \in 1..Min(blank) : s[k] = KEY}) + 1] - Number(0))
      BY DEF read_content_length, crlf
    <3>3. {k \in 1..Min(blank) : s[k] = KEY} = keys
      BY <2>4
    <3> HIDE DEF blank, keys
    <3> QED
      BY <2>4, <2>6, <2>7, <3>1, <3>2, <3>3
  <2>9. ASSUME NEW j \in 1..Len(b), 6 + j <= Len(s) PROVE s[6 + j] = b[j]
    <3>1. 6 + j \in 1..Len(s) /\ 6 + j <= Len(f)
      BY <1>3, <1>3a, <2>9
    <3> QED
      BY <1>2, <1>4, <3>1
  <2>10. 6 \in Nat /\ \A j \in 1..Len(b) : 6 + j <= Len(s) => s[6 + j] = b[j]
    BY <2>9
  <2>11. /\ Len(s) >= 6 + Len(b) =>
               read_frame(s) = Frame("body", b, After(s, 6 + Len(b)))
         /\ Len(s) < 6 + Len(b) /\ closed => read_frame(s) = Ended("error", <<>>)
    <3> HIDE DEF blank, keys
    <3> QED
      BY <1>5, <2>8, <2>10, ExactlyReads
  <2>12. 6 + Len(b) = Len(f)
    BY <1>2, <1>3
  <2>13. Ended("error", <<>>).kind = "error" /\ Ended("error", <<>>).rest = <<>>
    BY DEF Ended, Frame
  <2> QED
    BY <1>1, <2>11, <2>12, <2>13 DEF Reads
<1> QED
  BY <1>3, <1>8, <1>9

\* What from_slice leaves of a line.
LEMMA NoCR ==
    ASSUME NEW u \in Seq(Nat), Len(u) > 0 => u[Len(u)] # CR
    PROVE  from_slice(u) = u
<1>1. u # <<>> => Len(u) > 0
  OBVIOUS
<1>2. Last(u) = u[Len(u)]
  BY DEF Last
<1> QED
  BY <1>1, <1>2 DEF from_slice

LEMMA DropsCR ==
    ASSUME NEW u \in Seq(Nat), NEW b \in Seq(Nat), Len(u) = Len(b) + 1,
           u[Len(b) + 1] = CR, \A j \in 1..Len(b) : u[j] = b[j]
    PROVE  from_slice(u) = b
<1>1. Len(u) \in Nat /\ Len(b) \in Nat /\ Len(u) - 1 = 0 + Len(b) /\ Len(u) > 0
  OBVIOUS
<1>2. u # <<>> /\ Last(u) = CR
  BY <1>1 DEF Last
<1>3. Front(u) = SubSeq(u, 1, Len(u) - 1)
  BY DEF Front
<1>4. SubSeq(u, 0 + 1, 0 + Len(b)) = b
  <2>1. 0 \in Nat /\ 0 + Len(b) <= Len(u) /\ \A j \in 1..Len(b) : u[0 + j] = b[j]
    BY <1>1
  <2> QED
    BY <2>1, SliceIs
<1>5. Front(u) = b
  BY <1>1, <1>3, <1>4
<1> QED
  BY <1>2, <1>5 DEF from_slice

LEMMA LoneCR ==
    ASSUME NEW u \in Seq(Nat), Len(u) = 1, u[1] = CR
    PROVE  from_slice(u) = <<>>
<1>1. PICK e : e = <<>>
  OBVIOUS
<1>2. e \in Seq(Nat) /\ Len(e) = 0 /\ \A j \in 1..Len(e) : u[j] = e[j]
  BY <1>1
<1>3. Len(u) = Len(e) + 1 /\ u[Len(e) + 1] = CR
  BY <1>2
<1>4. from_slice(u) = e
  BY <1>2, <1>3, DropsCR
<1> QED
  BY <1>1, <1>4

\* The line between position m and the LF at k, and the line after the last LF.
LEMMA LineFrom ==
    ASSUME NEW s \in Seq(Nat), NEW m \in Nat, NEW k \in 1..Len(s), m < k,
           m > 0 => s[m] = LF, \A j \in (m + 1)..(k - 1) : s[j] # LF
    PROVE  Line(s, k) = from_slice(SubSeq(s, m + 1, k - 1))
<1> DEFINE from == {j \in 1..(k - 1) : s[j] = LF} \cup {0}
<1>1. from \in SUBSET Int /\ m \in from
  OBVIOUS
<1>2. ASSUME NEW j \in from PROVE j <= m
  OBVIOUS
<1>3. Line(s, k) = LET raw == SubSeq(s, Max(from) + 1, k - 1)
                   IN  IF raw # <<>> /\ Last(raw) = CR THEN Front(raw) ELSE raw
  BY DEF Line
<1> HIDE DEF from
<1>4. Max(from) = m
  BY <1>1, <1>2, MaxIs
<1> QED
  BY <1>3, <1>4 DEF from_slice

LEMMA TailFrom ==
    ASSUME NEW s \in Seq(Nat), NEW m \in Nat, m <= Len(s),
           m > 0 => s[m] = LF, \A j \in (m + 1)..Len(s) : s[j] # LF
    PROVE  Tail0(s) = After(s, m)
<1> DEFINE from == {j \in 1..Len(s) : s[j] = LF} \cup {0}
<1>1. from \in SUBSET Int /\ m \in from
  OBVIOUS
<1>2. ASSUME NEW j \in from PROVE j <= m
  OBVIOUS
<1>3. Tail0(s) = After(s, Max(from))
  BY DEF Tail0
<1> HIDE DEF from
<1>4. Max(from) = m
  BY <1>1, <1>2, MaxIs
<1> QED
  BY <1>3, <1>4

\* A line that the end of the stream cuts off is one the message ends in, or no
\* message.
LEMMA LastLine ==
    ASSUME NEW b \in Bodies, NEW u \in Seq(Nat), Len(u) <= Len(b) + 1,
           \A j \in 1..Len(u) : u[j] = IF j <= Len(b) THEN b[j] ELSE CR
    PROVE  from_slice(u) = b \/ from_slice(u) \notin Bodies
<1>1. b \in Seq(Nat) /\ Len(b) \in Nat /\ Len(u) \in Nat
  BY BodyBytes
<1>2. CASE Len(u) = Len(b) + 1
  <2>1. u[Len(b) + 1] = CR
    <3>1. Len(b) + 1 \in 1..Len(u) /\ ~(Len(b) + 1 <= Len(b))
      BY <1>1, <1>2
    <3> QED
      BY <3>1
  <2>2. ASSUME NEW j \in 1..Len(b) PROVE u[j] = b[j]
    <3>1. j \in 1..Len(u) /\ j <= Len(b)
      BY <1>1, <1>2
    <3> QED
      BY <3>1
  <2> QED
    BY <1>1, <1>2, <2>1, <2>2, DropsCR
<1>3. CASE Len(u) <= Len(b)
  <2>1. ASSUME NEW j \in 1..Len(u) PROVE u[j] = b[j] /\ j \in 1..Len(b)
    BY <1>1, <1>3
  <2>2. Len(u) > 0 => u[Len(u)] # CR
    <3> SUFFICES ASSUME Len(u) > 0 PROVE u[Len(u)] # CR
      OBVIOUS
    <3>1. Len(u) \in 1..Len(u)
      BY <1>1
    <3> QED
      BY <2>1, <3>1, BodyBytes
  <2>3. from_slice(u) = u
    BY <2>2, NoCR
  <2>4. u \in Bodies => u = b
    BY <1>3, <2>1, NoShorterBody
  <2> QED
    BY <2>3, <2>4
<1> QED
  BY <1>1, <1>2, <1>3

\* read_line with the first end of a line that is not blank at e, or without one.
LEMMA LineReads ==
    ASSUME NEW s \in Seq(Nat), NEW e \in Nat,
           \A k \in 1..Len(s) : k < e => ~(s[k] = LF /\ Line(s, k) # <<>>)
    PROVE  /\ e \in 1..Len(s) /\ s[e] = LF /\ Line(s, e) # <<>> =>
                 read_line(s) = Frame("body", Line(s, e), After(s, e))
           /\ Len(s) < e /\ closed =>
                 read_line(s) = IF Tail0(s) = <<>> THEN Ended("none", <<>>)
                                ELSE Ended("body", Tail0(s))
<1> DEFINE ends == {k \in 1..Len(s) : s[k] = LF /\ Line(s, k) # <<>>}
<1>1. read_line(s) = IF ends # {}
                     THEN Frame("body", Line(s, Min(ends)), After(s, Min(ends)))
                     ELSE IF ~closed THEN Wait
                     ELSE IF Tail0(s) = <<>> THEN Ended("none", <<>>)
                     ELSE Ended("body", Tail0(s))
  BY DEF read_line
<1>2. ends \in SUBSET Int /\ \A k \in ends : e <= k
  OBVIOUS
<1>3. ASSUME e \in 1..Len(s), s[e] = LF, Line(s, e) # <<>>
      PROVE  read_line(s) = Frame("body", Line(s, e), After(s, e))
  <2>1. e \in ends
    BY <1>3
  <2> HIDE DEF ends
  <2>2. Min(ends) = e
    BY <1>2, <2>1, MinIs
  <2> QED
    BY <1>1, <2>1, <2>2
<1>4. ASSUME Len(s) < e, closed
      PROVE  read_line(s) = IF Tail0(s) = <<>> THEN Ended("none", <<>>)
                            ELSE Ended("body", Tail0(s))
  <2>1. ends = {}
    BY <1>4
  <2> HIDE DEF ends
  <2> QED
    BY <1>1, <1>4, <2>1
<1> QED
  BY <1>3, <1>4

LEMMA ReadsOwnLine ==
    ASSUME framing = "JsonLines", NEW b \in Bodies, NEW s \in Seq(Nat),
           Agrees(s, encode(b))
    PROVE  Reads(s, encode(b), b)
<1>1. PICK f : f = encode(b)
  OBVIOUS
<1>2. /\ f \in Seq(Nat) /\ Len(f) = Len(b) + 1 /\ f[Len(b) + 1] = LF
      /\ \A j \in 1..Len(b) : f[j] = b[j]
  BY <1>1, FramePlaces
<1>3. b \in Seq(Nat) /\ Len(b) \in Nat \ {0} /\ Len(s) \in Nat
  BY BodyBytes
<1>4. \A j \in 1..Len(s) : j <= Len(f) => s[j] = f[j]
  BY <1>1 DEF Agrees
<1>5. read_frame(s) = read_line(s)
  BY DEF read_frame
<1>6. ASSUME NEW j \in 1..Len(s), j <= Len(b) PROVE s[j] = b[j] /\ s[j] # LF
  <2>1. j \in 1..Len(b) /\ j <= Len(f)
    BY <1>2, <1>3, <1>6
  <2>2. s[j] = b[j]
    BY <1>2, <1>4, <2>1
  <2> QED
    BY <2>1, <2>2, BodyBytes
<1>7. PICK e \in Nat : e = Len(b) + 1
  BY <1>3
<1>8. \A k \in 1..Len(s) : k < e => ~(s[k] = LF /\ Line(s, k) # <<>>)
  BY <1>3, <1>6, <1>7
<1>9. CASE Len(s) >= e
  <2>1. e \in 1..Len(s) /\ s[e] = LF
    BY <1>2, <1>3, <1>4, <1>7, <1>9
  <2>2. Line(s, e) = from_slice(SubSeq(s, 0 + 1, e - 1))
    <3>1. 0 \in Nat /\ 0 < e /\ ~(0 > 0) /\ \A j \in (0 + 1)..(e - 1) : s[j] # LF
      BY <1>3, <1>6, <1>7, <1>9
    <3> QED
      BY <2>1, <3>1, LineFrom
  <2>3. SubSeq(s, 0 + 1, 0 + Len(b)) = b
    <3>1. 0 \in Nat /\ 0 + Len(b) <= Len(s)
      BY <1>3, <1>7, <1>9
    <3>2. ASSUME NEW j \in 1..Len(b) PROVE s[0 + j] = b[j]
      <4>1. j \in 1..Len(s) /\ j <= Len(b) /\ 0 + j = j
        BY <1>3, <1>7, <1>9
      <4> QED
        BY <1>6, <4>1
    <3> QED
      BY <1>3, <3>1, <3>2, SliceIs
  <2>4. from_slice(b) = b
    <3>1. Len(b) \in 1..Len(b)
      BY <1>3
    <3>2. b[Len(b)] # CR
      BY <3>1, BodyBytes
    <3> QED
      BY <1>3, <3>2, NoCR
  <2>5. Line(s, e) = b /\ b # <<>>
    <3>1. e - 1 = 0 + Len(b)
      BY <1>3, <1>7
    <3>2. b # <<>>
      BY <1>3
    <3>3. SubSeq(s, 0 + 1, e - 1) = b
      BY <2>3, <3>1
    <3> QED
      BY <2>2, <2>4, <3>2, <3>3
  <2>6. read_frame(s) = Frame("body", b, After(s, e))
    BY <1>5, <1>8, <2>1, <2>5, LineReads
  <2>7. Len(f) = e /\ ~(Len(s) < Len(f))
    BY <1>2, <1>3, <1>7, <1>9
  <2> QED
    BY <1>1, <2>6, <2>7 DEF Reads
<1>10. CASE Len(s) < e
  <2>1. ASSUME closed
        PROVE  read_frame(s) = IF Tail0(s) = <<>> THEN Ended("none", <<>>)
                               ELSE Ended("body", Tail0(s))
    BY <1>5, <1>8, <1>10, <2>1, LineReads
  <2>2. Tail0(s) = After(s, 0)
    <3>1. 0 \in Nat /\ 0 <= Len(s) /\ ~(0 > 0) /\ \A j \in (0 + 1)..Len(s) : s[j] # LF
      BY <1>3, <1>6, <1>7, <1>10
    <3> QED
      BY <3>1, TailFrom
  <2>3. After(s, 0) = s
    BY DEF After
  <2>4. from_slice(s) = b \/ from_slice(s) \notin Bodies
    <3>1. Len(s) <= Len(b) + 1 /\ \A j \in 1..Len(s) : s[j] = IF j <= Len(b) THEN b[j] ELSE CR
      BY <1>3, <1>6, <1>7, <1>10
    <3> QED
      BY <3>1, LastLine
  <2>5. s = <<>> => \A j \in 1..Len(s) : FALSE
    OBVIOUS
  <2>6. /\ Ended("none", <<>>).kind = "none" /\ Ended("none", <<>>).rest = <<>>
        /\ Ended("body", s).kind = "body" /\ Ended("body", s).rest = <<>>
        /\ Ended("body", s).body = s
    BY DEF Ended, Frame
  <2>7. ~(Len(s) >= Len(f))
    BY <1>2, <1>3, <1>7, <1>10
  <2> QED
    BY <1>1, <2>1, <2>2, <2>3, <2>4, <2>5, <2>6, <2>7 DEF Reads
<1> QED
  BY <1>3, <1>7, <1>9, <1>10

LEMMA ReadsForeignLine ==
    ASSUME framing = "JsonLines", NEW b \in Bodies, NEW s \in Seq(Nat),
           Agrees(s, ForeignLine(b))
    PROVE  Reads(s, ForeignLine(b), b)
<1>1. PICK f : f = ForeignLine(b)
  OBVIOUS
<1>2. /\ f \in Seq(Nat) /\ Len(f) = Len(b) + 4
      /\ f[1] = CR /\ f[2] = LF /\ f[Len(b) + 3] = CR /\ f[Len(b) + 4] = LF
      /\ \A j \in 1..Len(b) : f[2 + j] = b[j]
  BY <1>1, FramePlaces
<1>3. b \in Seq(Nat) /\ Len(b) \in Nat \ {0} /\ Len(s) \in Nat
  BY BodyBytes
<1>4. \A j \in 1..Len(s) : j <= Len(f) => s[j] = f[j]
  BY <1>1 DEF Agrees
<1>5. read_frame(s) = read_line(s)
  BY DEF read_frame
<1>6. PICK e \in Nat : e = Len(b) + 4
  BY <1>3
<1>7. Len(f) = e /\ e >= 5
  BY <1>2, <1>3, <1>6
<1>8. ASSUME Len(s) >= 1 PROVE s[1] = CR /\ s[1] # LF
  <2>1. 1 \in 1..Len(s) /\ 1 <= Len(f)
    BY <1>3, <1>7, <1>8
  <2>2. s[1] = CR
    BY <1>2, <1>4, <2>1
  <2> QED
    BY <2>2 DEF CR, LF
<1>9. ASSUME Len(s) >= 2 PROVE s[2] = LF
  <2>1. 2 \in 1..Len(s) /\ 2 <= Len(f)
    BY <1>3, <1>7, <1>9
  <2> QED
    BY <1>2, <1>4, <2>1
<1>10. ASSUME NEW j \in 1..Len(b), 2 + j <= Len(s) PROVE s[2 + j] = b[j] /\ s[2 + j] # LF
  <2>1. 2 + j \in 1..Len(s) /\ 2 + j <= Len(f)
    BY <1>3, <1>6, <1>7, <1>10
  <2>2. s[2 + j] = b[j]
    BY <1>2, <1>4, <2>1
  <2> QED
    BY <2>2, BodyBytes
<1>11. ASSUME Len(s) >= Len(b) + 3 PROVE s[Len(b) + 3] = CR /\ s[Len(b) + 3] # LF
  <2>1. Len(b) + 3 \in 1..Len(s) /\ Len(b) + 3 <= Len(f)
    BY <1>3, <1>6, <1>7, <1>11
  <2>2. s[Len(b) + 3] = CR
    BY <1>2, <1>4, <2>1
  <2> QED
    BY <2>2 DEF CR, LF
<1>12. ASSUME NEW k \in 3..Len(s), k < e PROVE s[k] # LF
  <2>1. k = Len(b) + 3 \/ (k - 2 \in 1..Len(b) /\ 2 + (k - 2) = k)
    BY <1>3, <1>6, <1>12
  <2>2. CASE k = Len(b) + 3
    <3>1. Len(s) >= Len(b) + 3
      BY <1>3, <2>2
    <3> QED
      BY <1>11, <2>2, <3>1
  <2>3. CASE k - 2 \in 1..Len(b) /\ 2 + (k - 2) = k
    <3>1. PICK j \in 1..Len(b) : 2 + j = k
      BY <2>3
    <3>2. 2 + j <= Len(s)
      BY <1>3, <3>1
    <3> QED
      BY <1>10, <3>1, <3>2
  <2> QED
    BY <2>1, <2>2, <2>3
<1>13. ASSUME Len(s) >= 2 PROVE Line(s, 2) = <<>>
  <2>1. Line(s, 2) = from_slice(SubSeq(s, 0 + 1, 2 - 1))
    <3>1. 0 \in Nat /\ 2 \in 1..Len(s) /\ 0 < 2 /\ ~(0 > 0)
      BY <1>3, <1>13
    <3>2. \A j \in (0 + 1)..(2 - 1) : s[j] # LF
      <4>1. s[1] # LF
        BY <1>3, <1>8, <1>13
      <4> QED
        BY <4>1
    <3> QED
      BY <3>1, <3>2, LineFrom
  <2>2. PICK u : u = SubSeq(s, 0 + 1, 2 - 1)
    OBVIOUS
  <2>3. u \in Seq(Nat) /\ Len(u) = 1 /\ u[1] = s[1]
    BY <1>3, <1>13, <2>2
  <2>4. u[1] = CR
    BY <1>3, <1>8, <1>13, <2>3
  <2> QED
    BY <2>1, <2>2, <2>3, <2>4, LoneCR
<1>14. ASSUME NEW k \in 1..Len(s), k < e PROVE ~(s[k] = LF /\ Line(s, k) # <<>>)
  <2>1. k = 1 \/ k = 2 \/ k \in 3..Len(s)
    BY <1>3
  <2>2. k = 1 => s[k] # LF
    BY <1>3, <1>8
  <2>3. k = 2 => Line(s, k) = <<>>
    BY <1>3, <1>13
  <2> QED
    BY <1>12, <1>14, <2>1, <2>2, <2>3
<1>15. CASE Len(s) >= e
  <2>1. e \in 1..Len(s) /\ s[e] = LF
    <3>1. e \in 1..Len(s) /\ e <= Len(f)
      BY <1>3, <1>7, <1>15
    <3> QED
      BY <1>2, <1>4, <1>6, <3>1
  <2>2. Line(s, e) = from_slice(SubSeq(s, 2 + 1, e - 1))
    <3>1. 2 \in Nat /\ 2 < e /\ s[2] = LF
      BY <1>3, <1>7, <1>9, <1>15
    <3>2. ASSUME NEW j \in (2 + 1)..(e - 1) PROVE s[j] # LF
      <4>1. j \in 3..Len(s) /\ j < e
        BY <1>3, <1>15
      <4> QED
        BY <1>12, <4>1
    <3> QED
      BY <2>1, <3>1, <3>2, LineFrom
  <2>3. PICK u : u = SubSeq(s, 2 + 1, e - 1)
    OBVIOUS
  <2>4. /\ u \in Seq(Nat) /\ Len(u) = (e - 1) - (2 + 1) + 1
        /\ \A k \in 1..((e - 1) - (2 + 1) + 1) : u[k] = s[(2 + 1) + k - 1]
    <3>1. 2 + 1 \in Nat \ {0} /\ e - 1 \in Nat /\ e - 1 <= Len(s) /\ 2 + 1 <= (e - 1) + 1
      BY <1>3, <1>7, <1>15
    <3> QED
      BY <2>3, <3>1, Slice
  <2>5. Len(u) = Len(b) + 1
    BY <1>3, <1>6, <2>4
  <2>6. u[Len(b) + 1] = CR
    <3>1. /\ Len(b) + 1 \in 1..((e - 1) - (2 + 1) + 1)
          /\ (2 + 1) + (Len(b) + 1) - 1 = Len(b) + 3 /\ Len(s) >= Len(b) + 3
      BY <1>3, <1>6, <1>15
    <3> QED
      BY <1>11, <2>4, <3>1
  <2>7. ASSUME NEW j \in 1..Len(b) PROVE u[j] = b[j]
    <3>1. j \in 1..((e - 1) - (2 + 1) + 1) /\ (2 + 1) + j - 1 = 2 + j /\ 2 + j <= Len(s)
      BY <1>3, <1>6, <1>15
    <3> QED
      BY <1>10, <2>4, <3>1
  <2>8. from_slice(u) = b
    BY <1>3, <2>4, <2>5, <2>6, <2>7, DropsCR
  <2>9. Line(s, e) = b
    BY <2>2, <2>3, <2>8
  <2>10. b # <<>>
    BY <1>3
  <2>11. read_frame(s) = Frame("body", b, After(s, e))
    BY <1>5, <1>14, <2>1, <2>9, <2>10, LineReads
  <2>12. ~(Len(s) < Len(f))
    BY <1>3, <1>7, <1>15
  <2> QED
    BY <1>1, <1>7, <2>11, <2>12 DEF Reads
<1>16. CASE Len(s) < e
  <2>1. ASSUME closed
        PROVE  read_frame(s) = IF Tail0(s) = <<>> THEN Ended("none", <<>>)
                               ELSE Ended("body", Tail0(s))
    BY <1>5, <1>14, <1>16, <2>1, LineReads
  <2>2. /\ Tail0(s) = <<>> => \A j \in 1..Len(s) : s[j] \in {CR, LF}
        /\ from_slice(Tail0(s)) = b \/ from_slice(Tail0(s)) \notin Bodies
    <3>1. CASE Len(s) < 2
      <4>1. Tail0(s) = After(s, 0)
        <5>1. 0 \in Nat /\ 0 <= Len(s) /\ ~(0 > 0)
          BY <1>3
        <5>2. ASSUME NEW j \in (0 + 1)..Len(s) PROVE s[j] # LF
          <6>1. j = 1 /\ Len(s) >= 1
            BY <1>3, <3>1
          <6> QED
            BY <1>8, <6>1
        <5> QED
          BY <5>1, <5>2, TailFrom
      <4>2. After(s, 0) = s
        BY DEF After
      <4>3. CASE s = <<>>
        <5>1. from_slice(<<>>) = <<>>
          BY DEF from_slice
        <5>2. <<>> \notin Bodies
          <6>1. Len(<<>>) = 0
            OBVIOUS
          <6> QED
            BY <6>1, BodyBytes
        <5>3. \A j \in 1..Len(s) : FALSE
          BY <4>3
        <5> QED
          BY <4>1, <4>2, <4>3, <5>1, <5>2, <5>3
      <4>4. CASE s # <<>>
        <5>1. Len(s) = 1
          <6>1. PICK n \in Nat : n = Len(s)
            BY <1>3
          <6>2. n # 0
            BY <4>4, <6>1, EmptySeq
          <6>3. n = 1
            BY <3>1, <6>1, <6>2
          <6> QED
            BY <6>1, <6>3
        <5>2. s[1] = CR
          BY <1>3, <1>8, <5>1
        <5>3. from_slice(s) = <<>>
          BY <5>1, <5>2, LoneCR
        <5>4. <<>> \notin Bodies
          <6>1. Len(<<>>) = 0
            OBVIOUS
          <6> QED
            BY <6>1, BodyBytes
        <5> QED
          BY <4>1, <4>2, <4>4, <5>3, <5>4
      <4> QED
        BY <4>3, <4>4
    <3>2. CASE Len(s) >= 2
      <4>1. PICK u : u = After(s, 2)
        OBVIOUS
      <4>2. /\ u \in Seq(Nat) /\ Len(u) = Len(s) - 2
            /\ \A j \in 1..(Len(s) - 2) : u[j] = s[2 + j]
        BY <1>3, <3>2, <4>1, AfterIs
      <4>3. Tail0(s) = u
        <5>1. 2 \in Nat /\ 2 <= Len(s) /\ s[2] = LF
          BY <1>3, <1>9, <3>2
        <5>2. ASSUME NEW j \in (2 + 1)..Len(s) PROVE s[j] # LF
          <6>1. j \in 3..Len(s) /\ j < e
            BY <1>3, <1>16
          <6> QED
            BY <1>12, <6>1
        <5> QED
          BY <4>1, <5>1, <5>2, TailFrom
      <4>4. Len(u) <= Len(b) + 1
        BY <1>3, <1>6, <1>16, <4>2
      <4>5. ASSUME NEW j \in 1..Len(u) PROVE u[j] = IF j <= Len(b) THEN b[j] ELSE CR
        <5>1. u[j] = s[2 + j] /\ 2 + j <= Len(s)
          BY <1>3, <4>2
        <5>2. CASE j <= Len(b)
          BY <1>3, <1>10, <5>1, <5>2
        <5>3. CASE ~(j <= Len(b))
          <6>1. 2 + j = Len(b) + 3 /\ Len(s) >= Len(b) + 3
            BY <1>3, <4>2, <4>4, <5>3
          <6> QED
            BY <1>11, <5>1, <5>3, <6>1
        <5> QED
          BY <5>2, <5>3
      <4>6. from_slice(u) = b \/ from_slice(u) \notin Bodies
        BY <4>2, <4>4, <4>5, LastLine
      <4>7. ASSUME u = <<>> PROVE \A j \in 1..Len(s) : s[j] \in {CR, LF}
        <5>1. Len(s) = 2
          <6>1. Len(u) = 0
            BY <4>7
          <6> QED
            BY <1>3, <4>2, <6>1
        <5>2. s[1] = CR /\ s[2] = LF
          BY <1>8, <1>9, <5>1
        <5>3. \A j \in 1..Len(s) : j = 1 \/ j = 2
          BY <5>1
        <5> QED
          BY <5>2, <5>3
      <4> QED
        BY <4>3, <4>6, <4>7
    <3> QED
      BY <1>3, <3>1, <3>2
  <2>3. PICK u : u = Tail0(s)
    OBVIOUS
  <2>4. /\ Ended("none", <<>>).kind = "none" /\ Ended("none", <<>>).rest = <<>>
        /\ Ended("body", u).kind = "body" /\ Ended("body", u).rest = <<>>
        /\ Ended("body", u).body = u
    BY DEF Ended, Frame
  <2>5. ~(Len(s) >= Len(f))
    BY <1>3, <1>7, <1>16
  <2> QED
    BY <1>1, <2>1, <2>2, <2>3, <2>4, <2>5 DEF Reads
<1> QED
  BY <1>3, <1>15, <1>16

-----------------------------------------------------------------------------
(* The invariant is kept by every step.                                    *)

LEMMA FramesAre ==
    ASSUME framing \in Framings, NEW b \in Bodies, NEW f \in FramesOf(b)
    PROVE  f \in Seq(Nat) /\ Len(f) \in Nat \ {0}
<1>1. f = encode(b) \/ f = ForeignLine(b)
  BY DEF FramesOf
<1>2. Len(b) \in Nat
  BY BodyBytes
<1>3. encode(b) \in Seq(Nat) /\ Len(encode(b)) \in Nat \ {0}
  BY <1>2, FramePlaces DEF Framings
<1>4. ForeignLine(b) \in Seq(Nat) /\ Len(ForeignLine(b)) \in Nat \ {0}
  BY <1>2, FramePlaces
<1> QED
  BY <1>1, <1>3, <1>4

LEMMA FrameReads ==
    ASSUME framing \in Framings, NEW b \in Bodies, NEW f \in FramesOf(b),
           NEW s \in Seq(Nat), Agrees(s, f)
    PROVE  Reads(s, f, b)
<1>1. f = encode(b) \/ (framing = "JsonLines" /\ f = ForeignLine(b))
  BY DEF FramesOf
<1>2. framing = "JsonLines" \/ framing = "LengthPrefixedBE" \/ framing = "ContentLength"
  BY DEF Framings
<1> QED
  BY <1>1, <1>2, ReadsOwnLine, ReadsForeignLine, ReadsLengthPrefixed, ReadsContentLength

LEMMA NothingRead ==
    ASSUME framing \in Framings
    PROVE  read_frame(<<>>) = IF closed THEN Ended("none", <<>>) ELSE Wait
<1>1. Len(<<>>) = 0 /\ (\A k \in 1..Len(<<>>) : FALSE) /\ (\A k \in 4..Len(<<>>) : FALSE)
  OBVIOUS
<1>2. framing = "JsonLines" \/ framing = "LengthPrefixedBE" \/ framing = "ContentLength"
  BY DEF Framings
<1>3. ASSUME framing = "LengthPrefixedBE"
      PROVE  read_frame(<<>>) = IF closed THEN Ended("none", <<>>) ELSE Wait
  BY <1>1, <1>3 DEF read_frame, read_len_prefixed
<1>4. ASSUME framing = "ContentLength"
      PROVE  read_frame(<<>>) = IF closed THEN Ended("none", <<>>) ELSE Wait
  <2>1. {k \in 4..Len(<<>>) : SubSeq(<<>>, k - 3, k) = <<CR, LF, CR, LF>>} = {}
    BY <1>1
  <2>2. read_frame(<<>>) = read_content_length(<<>>)
    BY <1>4 DEF read_frame
  <2> QED
    BY <2>1, <2>2 DEF read_content_length
<1>5. ASSUME framing = "JsonLines"
      PROVE  read_frame(<<>>) = IF closed THEN Ended("none", <<>>) ELSE Wait
  <2>1. {k \in 1..Len(<<>>) : <<>>[k] = LF /\ Line(<<>>, k) # <<>>} = {}
    BY <1>1
  <2>2. read_frame(<<>>) = read_line(<<>>)
    BY <1>5 DEF read_frame
  <2>3. Tail0(<<>>) = <<>>
    <3>1. PICK e : e = <<>>
      OBVIOUS
    <3>2. e \in Seq(Nat) /\ Len(e) = 0 /\ After(e, 0) = e
      BY <3>1 DEF After
    <3>3. 0 \in Nat /\ 0 <= Len(e) /\ ~(0 > 0) /\ \A j \in (0 + 1)..Len(e) : e[j] # LF
      BY <3>2
    <3>4. Tail0(e) = After(e, 0)
      BY <3>2, <3>3, TailFrom
    <3> QED
      BY <3>1, <3>2, <3>4
  <2> QED
    BY <2>1, <2>2, <2>3 DEF read_line
<1> QED
  BY <1>2, <1>3, <1>4, <1>5

\* A message that is on the tape stays where it is when the tape grows.
LEMMA StaysOnTape ==
    ASSUME TapeInv, framing' = framing, NEW k \in 1..Len(sent),
           sent'[k] = sent[k], cuts'[k] = cuts[k], cuts'[k + 1] = cuts[k + 1],
           \A j \in 1..Len(tape) : tape'[j] = tape[j]
    PROVE  OnTape(k)'
<1>0. /\ framing \in Framings /\ sent \in Seq(Bodies) /\ tape \in Seq(Nat)
      /\ cuts \in Seq(Nat) /\ Len(cuts) = Len(sent) + 1
      /\ \A i \in 1..Len(cuts) : cuts[i] <= Len(tape)
  BY DEF TapeInv
<1>1. /\ sent[k] \in Bodies /\ k \in 1..Len(cuts) /\ k + 1 \in 1..Len(cuts)
      /\ Len(tape) \in Nat
  BY <1>0
<1>2. cuts[k] \in Nat /\ cuts[k + 1] \in Nat /\ cuts[k + 1] <= Len(tape)
  BY <1>0, <1>1
<1>3. PICK f \in FramesOf(sent[k]) :
         /\ cuts[k + 1] = cuts[k] + Len(f)
         /\ \A j \in 1..Len(f) : tape[cuts[k] + j] = f[j]
  BY DEF TapeInv, OnTape
<1>4. f \in FramesOf(sent[k])'
  BY <1>3 DEF FramesOf, encode
<1>5. Len(f) \in Nat
  BY <1>0, <1>1, <1>3, FramesAre
<1>6. ASSUME NEW j \in 1..Len(f) PROVE tape'[cuts'[k] + j] = f[j]
  <2>1. cuts[k] + j \in 1..Len(tape)
    BY <1>1, <1>2, <1>3, <1>5
  <2> QED
    BY <1>3, <2>1
<1> QED
  BY <1>3, <1>4, <1>6 DEF OnTape

LEMMA WrittenStep ==
    ASSUME FramingInv, NEW b \in Bodies, NEW f \in FramesOf(b), Written(b, f)
    PROVE  FramingInv'
<1>1. /\ framing \in Framings /\ closed \in BOOLEAN
      /\ sent \in Seq(Bodies) /\ got \in Seq(Bodies)
      /\ tape \in Seq(Nat) /\ stream \in Seq(Nat) /\ cuts \in Seq(Nat)
      /\ Len(cuts) = Len(sent) + 1 /\ cuts[Len(cuts)] = Len(tape)
      /\ \A k \in 1..Len(cuts) : cuts[k] <= Len(tape)
  BY DEF FramingInv, TapeInv
<1>2. /\ Len(got) \in Nat /\ Len(sent) \in Nat /\ Len(tape) \in Nat
      /\ Len(stream) \in Nat /\ Len(cuts) \in Nat
  BY <1>1
<1>3. f \in Seq(Nat) /\ Len(f) \in Nat
  BY <1>1, FramesAre
<1>4. /\ ~closed /\ stream' = stream \o f /\ sent' = Append(sent, b) /\ tape' = tape \o f
      /\ cuts' = Append(cuts, Len(tape \o f)) /\ framing' = framing /\ closed' = closed
      /\ lost' = lost /\ got' = got /\ reader' = reader
  BY DEF Written
<1>5. lost = <<>> /\ Len(lost) = 0 /\ lost \in Seq(Nat)
  BY <1>4 DEF FramingInv, TapeInv
<1>6. /\ tape' \in Seq(Nat) /\ Len(tape') = Len(tape) + Len(f)
      /\ \A j \in 1..Len(tape) : tape'[j] = tape[j]
      /\ \A j \in 1..Len(f) : tape'[Len(tape) + j] = f[j]
  BY <1>1, <1>3, <1>4, Joins
<1>7. /\ stream' \in Seq(Nat) /\ Len(stream') = Len(stream) + Len(f)
      /\ \A j \in 1..Len(stream) : stream'[j] = stream[j]
      /\ \A j \in 1..Len(f) : stream'[Len(stream) + j] = f[j]
  BY <1>1, <1>3, <1>4, Joins
<1>8. /\ sent' \in Seq(Bodies) /\ Len(sent') = Len(sent) + 1 /\ sent'[Len(sent) + 1] = b
      /\ \A k \in 1..Len(sent) : sent'[k] = sent[k]
  BY <1>1, <1>4
<1>9. /\ cuts' \in Seq(Nat) /\ Len(cuts') = Len(cuts) + 1
      /\ cuts'[Len(cuts) + 1] = Len(tape) + Len(f)
      /\ \A k \in 1..Len(cuts) : cuts'[k] = cuts[k]
  <2>1. Len(tape \o f) = Len(tape) + Len(f) /\ Len(tape) + Len(f) \in Nat
    BY <1>2, <1>3, <1>4, <1>6
  <2> QED
    BY <1>1, <1>4, <2>1
<1>10. ASSUME NEW k \in 1..Len(sent') PROVE OnTape(k)'
  <2>1. CASE k \in 1..Len(sent)
    <3>1. k \in 1..Len(cuts) /\ k + 1 \in 1..Len(cuts)
      BY <1>1, <1>2, <2>1
    <3>2. sent'[k] = sent[k] /\ cuts'[k] = cuts[k] /\ cuts'[k + 1] = cuts[k + 1]
      BY <1>8, <1>9, <2>1, <3>1
    <3> QED
      BY <1>4, <1>6, <2>1, <3>2, StaysOnTape DEF FramingInv
  <2>2. CASE k = Len(sent) + 1
    <3>1. k = Len(cuts) /\ k \in 1..Len(cuts)
      BY <1>1, <1>2, <2>2
    <3>2. cuts'[k] = Len(tape) /\ cuts'[k + 1] = Len(tape) + Len(f)
      BY <1>1, <1>9, <3>1
    <3>3. f \in FramesOf(sent[k])'
      BY <1>4, <1>8, <2>2 DEF FramesOf, encode
    <3> QED
      BY <1>6, <3>2, <3>3 DEF OnTape
  <2> QED
    BY <1>2, <1>8, <2>1, <2>2
<1>11. TapeInv'
  <2>1. ASSUME NEW k \in 1..Len(cuts') PROVE cuts'[k] <= Len(tape')
    <3>1. CASE k \in 1..Len(cuts)
      <4>1. cuts[k] <= Len(tape) /\ cuts[k] \in Nat
        BY <1>1, <3>1
      <4> QED
        BY <1>2, <1>3, <1>6, <1>9, <3>1, <4>1
    <3>2. CASE k = Len(cuts) + 1
      BY <1>2, <1>3, <1>6, <1>9, <3>2
    <3> QED
      BY <1>2, <1>9, <3>1, <3>2
  <2>2. Len(cuts') = Len(sent') + 1 /\ cuts'[Len(cuts')] = Len(tape')
    BY <1>1, <1>2, <1>6, <1>8, <1>9
  <2>3. Len(lost') <= Len(tape') /\ lost' = <<>> /\ lost' \in Seq(Nat)
    BY <1>2, <1>3, <1>4, <1>5, <1>6
  <2>4. framing' \in Framings /\ closed' \in BOOLEAN /\ got' \in Seq(Bodies)
    BY <1>1, <1>4
  <2> QED
    BY <1>6, <1>7, <1>8, <1>9, <1>10, <2>1, <2>2, <2>3, <2>4 DEF TapeInv
<1>12. GotInv'
  <2>1. Len(got) <= Len(sent) /\ \A k \in 1..Len(got) : got[k] = sent[k]
    BY DEF FramingInv, GotInv
  <2>2. ASSUME NEW k \in 1..Len(got) PROVE got'[k] = sent'[k]
    <3>1. k \in 1..Len(sent)
      BY <1>2, <2>1
    <3> QED
      BY <1>4, <1>8, <2>1, <3>1
  <2> QED
    BY <1>2, <1>4, <1>8, <2>1, <2>2 DEF GotInv
<1>13. ReaderInv'
  <2>1. reader = "open" /\ Aligned
    BY <1>4 DEF FramingInv, ReaderInv, Drained
  <2>2. Len(got) + 1 \in 1..Len(cuts)
    BY <1>1, <1>2 DEF FramingInv, GotInv
  <2>3. PICK first \in Nat : first = cuts[Len(got) + 1]
    BY <1>1, <2>2
  <2>4. first <= Len(tape) /\ cuts'[Len(got') + 1] = first
    BY <1>1, <1>4, <1>9, <2>2, <2>3
  <2>5. /\ Len(stream) = Len(tape) - first
        /\ \A j \in 1..Len(stream) : stream[j] = tape[first + j]
    BY <1>2, <1>5, <2>1, <2>3 DEF Aligned, Arrived
  <2>6. Len(stream') = Arrived' - first
    BY <1>2, <1>3, <1>4, <1>5, <1>6, <1>7, <2>5 DEF Arrived
  <2>7. ASSUME NEW j \in 1..Len(stream') PROVE stream'[j] = tape'[first + j]
    <3>1. CASE j \in 1..Len(stream)
      <4>1. first + j \in 1..Len(tape)
        BY <1>2, <2>4, <2>5, <3>1
      <4> QED
        BY <1>6, <1>7, <2>5, <3>1, <4>1
    <3>2. CASE j > Len(stream)
      <4>1. PICK i \in 1..Len(f) : j = Len(stream) + i
        <5>1. j - Len(stream) \in 1..Len(f) /\ j = Len(stream) + (j - Len(stream))
          BY <1>2, <1>3, <1>7, <3>2
        <5> QED
          BY <5>1
      <4>2. first + j = Len(tape) + i
        BY <1>2, <2>5, <4>1
      <4> QED
        BY <1>6, <1>7, <4>1, <4>2
    <3> QED
      BY <1>2, <3>1, <3>2
  <2>8. Aligned'
    BY <2>4, <2>6, <2>7 DEF Aligned
  <2> QED
    BY <1>4, <2>1, <2>8 DEF ReaderInv
<1> QED
  BY <1>11, <1>12, <1>13 DEF FramingInv

LEMMA CloseStep ==
    ASSUME FramingInv, NEW k \in 0..Len(stream), Close(k)
    PROVE  FramingInv'
<1>1. /\ cuts \in Seq(Nat) /\ tape \in Seq(Nat) /\ stream \in Seq(Nat)
      /\ Len(cuts) = Len(sent) + 1 /\ sent \in Seq(Bodies) /\ got \in Seq(Bodies)
      /\ (~closed => lost = <<>>) /\ \A i \in 1..Len(cuts) : cuts[i] <= Len(tape)
  BY DEF FramingInv, TapeInv
<1>2. /\ ~closed /\ closed' = TRUE
      /\ stream' = SubSeq(stream, 1, Len(stream) - k)
      /\ lost' = After(stream, Len(stream) - k)
      /\ framing' = framing /\ sent' = sent /\ got' = got /\ reader' = reader
      /\ tape' = tape /\ cuts' = cuts
  BY DEF Close
<1>3. /\ Len(got) \in Nat /\ Len(sent) \in Nat /\ Len(tape) \in Nat /\ Len(stream) \in Nat
      /\ k \in Nat /\ k <= Len(stream) /\ Len(stream) - k \in Nat
  BY <1>1
<1>4. lost' \in Seq(Nat) /\ Len(lost') = k
  <2>1. /\ After(stream, Len(stream) - k) \in Seq(Nat)
        /\ Len(After(stream, Len(stream) - k)) = Len(stream) - (Len(stream) - k)
    <3>1. Len(stream) - k <= Len(stream)
      BY <1>3
    <3> QED
      BY <1>1, <1>3, <3>1, AfterIs
  <2> QED
    BY <1>2, <1>3, <2>1
<1>5. /\ stream' \in Seq(Nat) /\ Len(stream') = Len(stream) - k
      /\ \A j \in 1..(Len(stream) - k) : stream'[j] = stream[j]
  <2>1. PICK n \in Nat : n = Len(stream) - k
    BY <1>3
  <2>2. 1 \in Nat \ {0} /\ n <= Len(stream) /\ 1 <= n + 1 /\ n - 1 + 1 = n
    BY <1>3, <2>1
  <2>3. /\ SubSeq(stream, 1, n) \in Seq(Nat) /\ Len(SubSeq(stream, 1, n)) = n
        /\ \A j \in 1..n : SubSeq(stream, 1, n)[j] = stream[1 + j - 1]
    BY <1>1, <2>2, Slice
  <2>4. \A j \in 1..n : 1 + j - 1 = j
    OBVIOUS
  <2> QED
    BY <1>2, <2>1, <2>3, <2>4
<1>6. reader = "open" /\ Aligned
  BY <1>2 DEF FramingInv, ReaderInv, Drained
<1>7. Len(got) + 1 \in 1..Len(cuts)
  <2>1. Len(got) <= Len(sent)
    BY DEF FramingInv, GotInv
  <2> QED
    BY <1>1, <1>3, <2>1
<1>8. PICK first \in Nat : first = cuts[Len(got) + 1]
  BY <1>1, <1>7
<1>9. /\ Len(stream) = Len(tape) - first
      /\ \A j \in 1..Len(stream) : stream[j] = tape[first + j]
  <2>1. Len(lost) = 0
    BY <1>1, <1>2
  <2> QED
    BY <1>3, <1>6, <1>8, <2>1 DEF Aligned, Arrived
<1>10. TapeInv'
  <2>1. Len(lost') <= Len(tape')
    BY <1>2, <1>3, <1>4, <1>8, <1>9
  <2>2. ASSUME NEW i \in 1..Len(sent') PROVE OnTape(i)'
    BY <1>2, StaysOnTape DEF FramingInv
  <2>3. /\ framing \in Framings /\ cuts[Len(cuts)] = Len(tape)
    BY DEF FramingInv, TapeInv
  <2> QED
    BY <1>1, <1>2, <1>4, <1>5, <2>1, <2>2, <2>3 DEF TapeInv
<1>11. GotInv'
  BY <1>2 DEF FramingInv, GotInv
<1>12. Aligned'
  <2>1. Len(stream') = Arrived' - first
    <3>1. Arrived' = Len(tape) - k
      BY <1>2, <1>4 DEF Arrived
    <3> QED
      BY <1>3, <1>5, <1>8, <1>9, <3>1
  <2>2. ASSUME NEW j \in 1..Len(stream') PROVE stream'[j] = tape'[first + j]
    <3>1. j \in 1..(Len(stream) - k) /\ j \in 1..Len(stream)
      BY <1>3, <1>5
    <3> QED
      BY <1>2, <1>5, <1>9, <3>1
  <2> QED
    BY <1>2, <1>8, <2>1, <2>2 DEF Aligned
<1> QED
  BY <1>2, <1>6, <1>10, <1>11, <1>12 DEF FramingInv, ReaderInv

\* What a read leaves alone.
LEMMA TapeUntouched ==
    ASSUME TapeInv, UNCHANGED <<framing, closed, lost, sent, tape, cuts>>,
           stream' \in Seq(Nat), got' \in Seq(Bodies)
    PROVE  TapeInv'
<1>1. ASSUME NEW i \in 1..Len(sent') PROVE OnTape(i)'
  BY StaysOnTape
<1> QED
  BY <1>1 DEF TapeInv

\* The reader stops: got and the tape stay as they are.
LEMMA StopsHonestly ==
    ASSUME FramingInv, read_message, closed, got' = got, stream' = <<>>,
           NEW first \in Nat, first = cuts[Len(got) + 1],
           \/ /\ reader' = "eof"
              /\ \/ \A k \in (first + 1)..Arrived : tape[k] \in {CR, LF}
                 \/ framing = "LengthPrefixedBE" /\ Arrived - first \in 1..3
           \/ reader' = "error" /\ lost # <<>>
    PROVE  FramingInv'
<1>1. UNCHANGED <<framing, closed, lost, sent, tape, cuts>>
  BY DEF read_message
<1>2. TapeInv'
  <2>1. stream' \in Seq(Nat) /\ got' \in Seq(Bodies)
    BY DEF FramingInv, TapeInv
  <2> QED
    BY <1>1, <2>1, TapeUntouched DEF FramingInv
<1>3. GotInv'
  BY <1>1 DEF FramingInv, GotInv
<1>4. EndIsHonest'
  BY <1>1 DEF EndIsHonest, Arrived
<1> QED
  BY <1>1, <1>2, <1>3, <1>4 DEF FramingInv, ReaderInv

\* The reader takes the next message, and stands at the one after it or, if the
\* end of its line was lost, at the end of the stream.
LEMMA TakesNext ==
    ASSUME FramingInv, read_message, Len(got) < Len(sent),
           got' = Append(got, sent[Len(got) + 1]), reader' = "open",
           stream' \in Seq(Nat), Aligned' \/ Drained'
    PROVE  FramingInv'
<1>1. UNCHANGED <<framing, closed, lost, sent, tape, cuts>>
  BY DEF read_message
<1>2. sent \in Seq(Bodies) /\ got \in Seq(Bodies)
  BY DEF FramingInv, TapeInv
<1>3. PICK n \in Nat : n = Len(got)
  BY <1>2
<1>4. n + 1 \in 1..Len(sent)
  BY <1>2, <1>3
<1>5. /\ got' \in Seq(Bodies) /\ Len(got') = n + 1 /\ got'[n + 1] = sent[n + 1]
      /\ \A k \in 1..n : got'[k] = got[k]
  <2>1. PICK b \in Bodies : b = sent[n + 1]
    BY <1>2, <1>4
  <2>2. got' = Append(got, b)
    BY <1>3, <2>1
  <2> QED
    BY <1>2, <1>3, <2>1, <2>2, AppendProperties
<1>6. TapeInv'
  BY <1>1, <1>5, TapeUntouched DEF FramingInv
<1>7. GotInv'
  <2>1. \A k \in 1..n : got[k] = sent[k]
    BY <1>3 DEF FramingInv, GotInv
  <2>2. \A k \in 1..(n + 1) : got'[k] = sent[k]
    BY <1>5, <2>1
  <2>3. n + 1 <= Len(sent)
    BY <1>2, <1>4
  <2> QED
    BY <1>1, <1>5, <2>2, <2>3 DEF GotInv
<1> QED
  BY <1>6, <1>7 DEF FramingInv, ReaderInv

LEMMA ReadStep ==
    ASSUME FramingInv, read_message
    PROVE  FramingInv'
<1> DEFINE r == read_frame(stream)
<1>1. /\ framing \in Framings /\ cuts \in Seq(Nat) /\ tape \in Seq(Nat) /\ stream \in Seq(Nat)
      /\ lost \in Seq(Nat) /\ Len(cuts) = Len(sent) + 1 /\ cuts[Len(cuts)] = Len(tape)
      /\ sent \in Seq(Bodies) /\ got \in Seq(Bodies) /\ closed \in BOOLEAN
      /\ (~closed => lost = <<>>) /\ \A i \in 1..Len(cuts) : cuts[i] <= Len(tape)
  BY DEF FramingInv, TapeInv
<1>2. /\ reader = "open" /\ r.kind # "wait" /\ stream' = r.rest
      /\ IF r.kind = "body" /\ from_slice(r.body) \in Bodies
         THEN got' = Append(got, from_slice(r.body)) /\ reader' = "open"
         ELSE got' = got /\ reader' = IF r.kind = "none" THEN "eof" ELSE "error"
      /\ UNCHANGED <<framing, closed, lost, sent, tape, cuts>>
  BY DEF read_message
<1>3. /\ Len(got) \in Nat /\ Len(sent) \in Nat /\ Len(tape) \in Nat /\ Len(stream) \in Nat
      /\ Len(lost) \in Nat /\ Len(got) <= Len(sent)
  <2>1. Len(got) <= Len(sent)
    BY DEF FramingInv, GotInv
  <2> QED
    BY <1>1, <2>1
<1>4. PICK n \in Nat : n = Len(got)
  BY <1>3
<1>5. n + 1 \in 1..Len(cuts)
  BY <1>1, <1>3, <1>4
<1>6. PICK first \in Nat : first = cuts[n + 1]
  BY <1>1, <1>5
<1>7. PICK arrived \in Int : arrived = Arrived /\ arrived = Len(tape) - Len(lost)
  <2>1. Arrived = Len(tape) - Len(lost) /\ Len(tape) - Len(lost) \in Int
    BY <1>3 DEF Arrived
  <2> QED
    BY <2>1
<1>8. ASSUME stream = <<>>, arrived <= first PROVE FramingInv'
  <2>1. r = IF closed THEN Ended("none", <<>>) ELSE Wait
    BY <1>1, <1>8, NothingRead
  <2>2. /\ Wait.kind = "wait" /\ Ended("none", <<>>).kind = "none"
        /\ Ended("none", <<>>).rest = <<>>
    BY DEF Wait, Ended, Frame
  <2> HIDE DEF r
  <2>3. closed /\ r.kind = "none" /\ r.rest = <<>>
    BY <1>2, <2>1, <2>2
  <2>4. got' = got /\ stream' = <<>> /\ reader' = "eof"
    BY <1>2, <2>3
  <2>5. \A k \in (first + 1)..arrived : tape[k] \in {CR, LF}
    BY <1>6, <1>7, <1>8
  <2> QED
    BY <1>4, <1>6, <1>7, <2>3, <2>4, <2>5, StopsHonestly
<1>9. CASE Drained
  <2>1. stream = <<>> /\ arrived < first
    BY <1>4, <1>6, <1>7, <1>9 DEF Drained
  <2> QED
    BY <1>6, <1>7, <1>8, <2>1
<1>10. CASE Aligned
  <2>1. Len(stream) = arrived - first /\ \A j \in 1..Len(stream) : stream[j] = tape[first + j]
    BY <1>4, <1>6, <1>7, <1>10 DEF Aligned
  <2>2. CASE n = Len(sent)
    <3>1. first = Len(tape)
      BY <1>1, <1>6, <2>2
    <3>2. Len(stream) = 0 /\ arrived <= first
      BY <1>3, <1>7, <2>1, <3>1
    <3>3. stream = <<>>
      BY <1>1, <3>2, EmptySeq
    <3> QED
      BY <1>8, <3>2, <3>3
  <2>3. CASE n < Len(sent)
    <3>1. PICK b \in Bodies : b = sent[n + 1] /\ n + 1 \in 1..Len(sent)
      BY <1>1, <1>3, <2>3
    <3>2. PICK f \in FramesOf(b) :
             cuts[n + 2] = first + Len(f) /\ \A j \in 1..Len(f) : tape[first + j] = f[j]
      <4>1. OnTape(n + 1)
        BY <3>1 DEF FramingInv, TapeInv
      <4>2. (n + 1) + 1 = n + 2
        OBVIOUS
      <4> QED
        BY <1>6, <3>1, <4>1, <4>2 DEF OnTape
    <3>3. f \in Seq(Nat) /\ Len(f) \in Nat \ {0}
      BY <1>1, FramesAre
    <3>4. first + Len(f) <= Len(tape)
      <4>1. n + 2 \in 1..Len(cuts)
        BY <1>1, <1>3, <2>3
      <4> QED
        BY <1>1, <3>2, <4>1
    <3>5. Reads(stream, f, b)
      <4>1. Agrees(stream, f)
        <5>1. ASSUME NEW j \in 1..Len(stream), j <= Len(f) PROVE stream[j] = f[j]
          <6>1. j \in 1..Len(f)
            BY <1>3, <3>3, <5>1
          <6> QED
            BY <2>1, <3>2, <6>1
        <5> QED
          BY <5>1 DEF Agrees
      <4> QED
        BY <1>1, <4>1, FrameReads
    <3>6. CASE Len(stream) >= Len(f)
      <4>1. r = Frame("body", b, After(stream, Len(f)))
        BY <3>5, <3>6 DEF Reads
      <4>2. r.kind = "body" /\ r.body = b /\ r.rest = After(stream, Len(f))
        <5> HIDE DEF r
        <5> QED
          BY <4>1 DEF Frame
      <4>3. from_slice(b) = b
        <5>1. b \in Seq(Nat) /\ Len(b) \in 1..Len(b)
          BY BodyBytes
        <5>2. b[Len(b)] # CR
          BY <5>1, BodyBytes
        <5> QED
          BY <5>1, <5>2, NoCR
      <4>4. /\ stream' \in Seq(Nat) /\ Len(stream') = Len(stream) - Len(f)
            /\ \A j \in 1..(Len(stream) - Len(f)) : stream'[j] = stream[Len(f) + j]
        <5>1. Len(f) \in Nat /\ Len(f) <= Len(stream) /\ stream' = After(stream, Len(f))
          BY <1>2, <1>3, <3>3, <3>6, <4>2
        <5> QED
          BY <1>1, <5>1, AfterIs
      <4>5. got' = Append(got, b) /\ reader' = "open"
        <5> HIDE DEF r
        <5> QED
          BY <1>2, <4>2, <4>3
      <4>6. Len(got') + 1 = n + 2
        BY <1>1, <1>4, <4>5
      <4>7. Aligned'
        <5>1. cuts'[Len(got') + 1] = first + Len(f)
          BY <1>2, <3>2, <4>6
        <5>2. Arrived' = arrived
          BY <1>2, <1>7 DEF Arrived
        <5>3. Len(stream') = arrived - (first + Len(f))
          BY <1>3, <2>1, <3>3, <4>4
        <5>4. ASSUME NEW j \in 1..Len(stream') PROVE stream'[j] = tape'[(first + Len(f)) + j]
          <6>1. /\ j \in 1..(Len(stream) - Len(f)) /\ Len(f) + j \in 1..Len(stream)
                /\ first + (Len(f) + j) = (first + Len(f)) + j
            BY <1>3, <3>3, <3>6, <4>4
          <6> QED
            BY <1>2, <2>1, <4>4, <6>1
        <5> QED
          BY <5>1, <5>2, <5>3, <5>4 DEF Aligned
      <4> QED
        BY <1>4, <2>3, <3>1, <4>4, <4>5, <4>7, TakesNext
    <3>7. CASE Len(stream) < Len(f)
      <4>1. /\ arrived < first + Len(f) /\ lost # <<>> /\ closed
        <5>1. arrived < first + Len(f)
          BY <1>3, <2>1, <3>3, <3>7
        <5>2. Len(lost) > 0
          BY <1>3, <1>7, <3>3, <3>4, <5>1
        <5>3. lost # <<>>
          BY <5>2
        <5> QED
          BY <1>1, <5>1, <5>3
      <4>2. /\ r.rest = <<>>
            /\ \/ r.kind = "body" /\ (from_slice(r.body) = b \/ from_slice(r.body) \notin Bodies)
               \/ /\ r.kind = "none"
                  /\ \/ \A j \in 1..Len(stream) : stream[j] \in {CR, LF}
                     \/ framing = "LengthPrefixedBE" /\ Len(stream) \in 1..3
               \/ r.kind = "error"
        BY <3>5, <3>7, <4>1 DEF Reads
      <4> HIDE DEF r
      <4>3. CASE r.kind = "body" /\ from_slice(r.body) = b
        <5>1. got' = Append(got, b) /\ reader' = "open" /\ stream' = <<>>
          BY <1>2, <4>2, <4>3
        <5>2. Len(got') + 1 = n + 2
          BY <1>1, <1>4, <5>1
        <5>3. Arrived' = arrived
          BY <1>2, <1>7 DEF Arrived
        <5>4. Drained'
          BY <1>2, <3>2, <4>1, <5>1, <5>2, <5>3 DEF Drained
        <5>5. stream' \in Seq(Nat)
          BY <5>1
        <5> QED
          BY <1>4, <2>3, <3>1, <5>1, <5>4, <5>5, TakesNext
      <4>4. CASE r.kind = "error" \/ (r.kind = "body" /\ from_slice(r.body) \notin Bodies)
        <5>1. got' = got /\ stream' = <<>> /\ reader' = "error"
          BY <1>2, <4>2, <4>4
        <5> QED
          BY <1>4, <1>6, <4>1, <5>1, StopsHonestly
      <4>5. CASE /\ r.kind = "none"
                 /\ \/ \A j \in 1..Len(stream) : stream[j] \in {CR, LF}
                    \/ framing = "LengthPrefixedBE" /\ Len(stream) \in 1..3
        <5>1. got' = got /\ stream' = <<>> /\ reader' = "eof"
          BY <1>2, <4>2, <4>5
        <5>2. ASSUME \A j \in 1..Len(stream) : stream[j] \in {CR, LF},
                     NEW k \in (first + 1)..Arrived
              PROVE  tape[k] \in {CR, LF}
          <6>1. PICK j \in 1..Len(stream) : k = first + j
            <7>1. k - first \in 1..Len(stream) /\ k = first + (k - first)
              BY <1>3, <1>7, <2>1
            <7> QED
              BY <7>1
          <6> QED
            BY <2>1, <5>2, <6>1
        <5>3. \/ \A k \in (first + 1)..Arrived : tape[k] \in {CR, LF}
              \/ framing = "LengthPrefixedBE" /\ Arrived - first \in 1..3
          BY <1>7, <2>1, <4>5, <5>2
        <5> QED
          BY <1>4, <1>6, <4>1, <5>1, <5>3, StopsHonestly
      <4> QED
        BY <4>2, <4>3, <4>4, <4>5
    <3> QED
      BY <1>3, <3>3, <3>6, <3>7
  <2> QED
    BY <1>3, <1>4, <2>2, <2>3
<1> QED
  BY <1>2, <1>9, <1>10 DEF FramingInv, ReaderInv

-----------------------------------------------------------------------------
(* The theorems about the framing.                                         *)

LEMMA FramingInvHolds == FramingSpec => []FramingInv
<1>1. FramingInit => FramingInv
  <2> SUFFICES ASSUME FramingInit
               PROVE  FramingInv
    OBVIOUS
  <2>1. /\ framing \in Framings /\ stream = <<>> /\ closed = FALSE /\ lost = <<>>
        /\ sent = <<>> /\ got = <<>> /\ reader = "open" /\ tape = <<>> /\ cuts = <<0>>
    BY DEF FramingInit
  <2>2. /\ <<>> \in Seq(Nat) /\ <<>> \in Seq(Bodies) /\ Len(<<>>) = 0
        /\ <<0>> \in Seq(Nat) /\ Len(<<0>>) = 1 /\ <<0>>[1] = 0
    OBVIOUS
  <2>3. \A k \in 1..1 : <<0>>[k] <= 0
    OBVIOUS
  <2>4. \A k \in 1..0 : FALSE
    OBVIOUS
  <2>5. TapeInv
    <3>1. Len(cuts) = 1 /\ Len(sent) = 0 /\ Len(tape) = 0 /\ Len(lost) = 0
      BY <2>1, <2>2
    <3>2. /\ Len(cuts) = Len(sent) + 1 /\ cuts[Len(cuts)] = Len(tape) /\ Len(lost) <= Len(tape)
          /\ \A k \in 1..Len(cuts) : cuts[k] <= Len(tape)
      BY <2>1, <2>2, <2>3, <3>1
    <3>3. \A k \in 1..Len(sent) : OnTape(k)
      BY <2>4, <3>1
    <3> QED
      BY <2>1, <2>2, <3>2, <3>3 DEF TapeInv
  <2>6. GotInv
    BY <2>1, <2>2, <2>4 DEF GotInv
  <2>7. Aligned
    <3>1. cuts[Len(got) + 1] = 0 /\ Arrived = 0 /\ Len(stream) = 0
      BY <2>1, <2>2 DEF Arrived
    <3> QED
      BY <2>4, <3>1 DEF Aligned
  <2> QED
    BY <2>1, <2>5, <2>6, <2>7 DEF FramingInv, ReaderInv
<1>2. FramingInv /\ [FramingNext]_framed => FramingInv'
  <2> SUFFICES ASSUME FramingInv, [FramingNext]_framed
               PROVE  FramingInv'
    OBVIOUS
  <2>1. ASSUME NEW b \in Bodies, write_message(b)
        PROVE  FramingInv'
    <3>1. encode(b) \in FramesOf(b)
      BY DEF FramesOf
    <3> QED
      BY <2>1, <3>1, WrittenStep DEF write_message
  <2>2. ASSUME NEW b \in Bodies, WriteForeignLine(b)
        PROVE  FramingInv'
    <3>1. ForeignLine(b) \in FramesOf(b)
      BY <2>2 DEF FramesOf, WriteForeignLine
    <3> QED
      BY <2>2, <3>1, WrittenStep DEF WriteForeignLine
  <2>3. CASE UNCHANGED framed
    <3>1. /\ framing' = framing /\ stream' = stream /\ closed' = closed /\ lost' = lost
          /\ sent' = sent /\ got' = got /\ reader' = reader /\ tape' = tape /\ cuts' = cuts
      BY <2>3 DEF framed
    <3>2. TapeInv'
      <4>1. stream' \in Seq(Nat) /\ got' \in Seq(Bodies)
        BY <3>1 DEF FramingInv, TapeInv
      <4> QED
        BY <3>1, <4>1, TapeUntouched DEF FramingInv
    <3>3. GotInv'
      BY <3>1 DEF FramingInv, GotInv
    <3>4. ReaderInv'
      BY <3>1 DEF FramingInv, ReaderInv, Aligned, Drained, Arrived, EndIsHonest
    <3> QED
      BY <3>2, <3>3, <3>4 DEF FramingInv
  <2> QED
    BY <2>1, <2>2, <2>3, CloseStep, ReadStep DEF FramingNext
<1> QED
  BY <1>1, <1>2, PTL DEF FramingSpec

\* For any set of messages, any number of them and each of the three framings,
\* read_message returns the messages that were written, in their order, none
\* twice and none made up, wherever the stream ends.
THEOREM ReadsPrefixSafe == FramingSpec => []ReadsPrefix
<1>1. FramingInv => ReadsPrefix
  <2> SUFFICES ASSUME FramingInv
               PROVE  ReadsPrefix
    OBVIOUS
  <2>1. got \in Seq(Bodies) /\ sent \in Seq(Bodies)
    BY DEF FramingInv, TapeInv
  <2>2. Len(got) <= Len(sent) /\ \A k \in 1..Len(got) : got[k] = sent[k]
    BY DEF FramingInv, GotInv
  <2>3. SubSeq(got, 1, Len(got)) = SubSeq(sent, 1, Len(got))
    BY <2>1, <2>2
  <2> QED
    BY <2>2, <2>3 DEF ReadsPrefix, IsPrefix
<1> QED
  BY <1>1, FramingInvHolds, PTL

\* The reader calls the end clean only where no message was begun, or, in the
\* length-prefixed framing, within the four length bytes, and reports an error
\* only if symbols were lost.
THEOREM EndIsHonestSafe == FramingSpec => []EndIsHonest
<1>1. FramingInv => EndIsHonest
  <2>1. reader = "open" => EndIsHonest
    BY DEF EndIsHonest
  <2> QED
    BY <2>1 DEF FramingInv, ReaderInv
<1> QED
  BY <1>1, FramingInvHolds, PTL

=============================================================================
