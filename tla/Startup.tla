------------------------------- MODULE Startup -------------------------------
(***************************************************************************)
(* What a starting process reads from and writes to disk: its identity     *)
(* (identity.rs load_or_generate, or cluster_dir.rs load_or_init), the     *)
(* certificates of trusted/ (cluster_dir.rs) and the shared directory of   *)
(* the development bootstrap (pair-node trust.rs), in the order of main.   *)
(*                                                                         *)
(* Both identity loaders write one file after the other and read them in   *)
(* the same order, one certificate-first and the other key-first: files 1  *)
(* and 2 stand for either.  fs::write truncates and then writes, so a file *)
(* is absent, cut off or whole; a process may be killed between any two    *)
(* steps and started again.                                                *)
(***************************************************************************)
EXTENDS Naturals, FiniteSets

CONSTANTS
    Nobody,       \* no identity
    Procs,        \* the programs that are started
    DirOf,        \* the data or cluster directory each is given
    ClusterDir,   \* those whose directory is OPENPAIR_CLUSTER_DIR
    DevTrust,     \* those with OPENPAIR_TRUST_DIR set
    Ids,          \* identities: a key, its certificate, the uuid in it
    MaxKills      \* bound on kills

Dirs == {DirOf[p] : p \in Procs}

ASSUME StartupAssumption ==
    /\ DOMAIN DirOf = Procs
    /\ Nobody \notin Ids /\ MaxKills \in Nat
    /\ DevTrust \subseteq Procs /\ ClusterDir \subseteq Procs

VARIABLES
    file,       \* file[d][k]: identity file k of directory d
    trusted,    \* trusted[d][m]: trusted/<m>.crt
    shared,     \* shared[m]: <m>.pem in the development directory
    pc, id,     \* where each process is, and the identity it runs with
    todo,       \* directory entries it has still to read
    pins,       \* its SharedPins
    adding,     \* the peer whose certificate it is writing, or Nobody
    kills,
    \* history: every identity ever minted, the one a directory first ran with,
    \* the peers some pairing there was completed with, and those whose last
    \* pairing there has begun to write its certificate and not finished
    minted, first, paired, unfinished

disk    == <<file, trusted, shared>>
memory  == <<pc, id, todo, pins, adding>>
history == <<minted, first, paired, unfinished>>
svars   == <<disk, memory, kills, history>>

Absent   == [st |-> "absent", of |-> Nobody]
Cut      == [st |-> "cut", of |-> Nobody]
Whole(i) == [st |-> "whole", of |-> i]
NoIdentity == [first |-> Nobody, second |-> Nobody]

\* Takes the bytes of a cut file for a certificate.
pem_cert_to_der_lenient(f) == IF f.st = "absent" THEN {} ELSE {f.of}

\* The certificate a PEM file yields, if any: pem_to_der and base64_decode
\* give nothing, or bytes X509Certificate::from_der refuses, for a cut one.
pem_cert_to_der(f) == IF f.st = "whole" THEN {f.of} ELSE {}

\* from_pem of two files: each must parse, nothing compares key and certificate.
from_pem(f1, f2) ==
    {[first |-> a, second |-> b] : a \in pem_cert_to_der(f1), b \in pem_cert_to_der(f2)}

-----------------------------------------------------------------------------
StartupInit ==
    /\ file = [d \in Dirs |-> [k \in {1, 2} |-> Absent]]
    /\ trusted = [d \in Dirs |-> [m \in Ids |-> Absent]]
    /\ shared = [m \in Ids |-> Absent]
    /\ pc = [p \in Procs |-> "off"]
    /\ id = [p \in Procs |-> NoIdentity]
    /\ todo = [p \in Procs |-> {}]
    /\ pins = [p \in Procs |-> {}]
    /\ adding = [p \in Procs |-> Nobody]
    /\ kills = 0
    /\ minted = {}
    /\ first = [d \in Dirs |-> Nobody]
    /\ paired = [d \in Dirs |-> {}]
    /\ unfinished = [d \in Dirs |-> {}]

Goto(p, l) == pc' = [pc EXCEPT ![p] = l]

-----------------------------------------------------------------------------
(* The identity.                                                           *)

\* The two exists() and, unless both are there, a freshly minted identity.
Open(p) ==
    /\ pc[p] = "off"
    /\ IF \A k \in {1, 2} : file[DirOf[p]][k] # Absent
       THEN /\ Goto(p, "read1")
            /\ UNCHANGED <<id, minted>>
       ELSE \E i \in Ids \ minted :
            /\ minted' = minted \cup {i}
            /\ id' = [id EXCEPT ![p] = [first |-> i, second |-> i]]
            /\ Goto(p, "create1")
    /\ UNCHANGED <<disk, todo, pins, adding, kills, first, paired, unfinished>>

\* The two reads; the second is followed by from_pem.
ReadFirst(p) ==
    /\ pc[p] = "read1"
    /\ \/ /\ pem_cert_to_der(file[DirOf[p]][1]) = {}
          /\ id' = id
       \/ \E i \in pem_cert_to_der(file[DirOf[p]][1]) :
             id' = [id EXCEPT ![p] = [NoIdentity EXCEPT !.first = i]]
    /\ Goto(p, "read2")
    /\ UNCHANGED <<disk, todo, pins, adding, kills, history>>

ReadSecond(p) ==
    LET f1 == IF id[p].first = Nobody THEN Cut ELSE Whole(id[p].first)
        loaded == from_pem(f1, file[DirOf[p]][2])
    IN
    /\ pc[p] = "read2"
    /\ \/ loaded = {} /\ Goto(p, "failed") /\ UNCHANGED id
       \/ \E i \in loaded : id' = [id EXCEPT ![p] = i] /\ Goto(p, "trust")
    /\ UNCHANGED <<disk, todo, pins, adding, kills, history>>

\* Both files are created before either is written.
Create_both(p, k) ==
    /\ pc[p] = "create1" /\ k = 1
    /\ file' = [file EXCEPT ![DirOf[p]] = [j \in {1, 2} |-> Cut]]
    /\ Goto(p, "write1")
    /\ UNCHANGED <<trusted, shared, id, todo, pins, adding, kills, history>>

\* fs::write of identity file k: created or truncated, then filled.
Create(p, k) ==
    /\ pc[p] = <<"create1", "create2">>[k]
    /\ file' = [file EXCEPT ![DirOf[p]][k] = Cut]
    /\ Goto(p, <<"write1", "write2">>[k])
    /\ UNCHANGED <<trusted, shared, id, todo, pins, adding, kills, history>>

\* The failure to write the second file is ignored.
Write_ignores_error(p, k) ==
    /\ pc[p] = <<"write1", "write2">>[k]
    /\ file' = [file EXCEPT ![DirOf[p]][k] = IF k = 1 THEN Whole(id[p].first) ELSE Absent]
    /\ Goto(p, <<"create2", "trust">>[k])
    /\ UNCHANGED <<trusted, shared, id, todo, pins, adding, kills, history>>

Write(p, k) ==
    /\ pc[p] = <<"write1", "write2">>[k]
    /\ file' = [file EXCEPT ![DirOf[p]][k] = Whole(id[p].first)]
    /\ Goto(p, <<"create2", "trust">>[k])
    /\ UNCHANGED <<trusted, shared, id, todo, pins, adding, kills, history>>

-----------------------------------------------------------------------------
(* Trust.                                                                  *)

\* Gives up at the first file it cannot read.
load_trusted_into_strict(d) ==
    IF \E m \in Ids : trusted[d][m].st = "cut" THEN {}
    ELSE UNION {pem_cert_to_der(trusted[d][m]) : m \in Ids}

\* Every certificate of trusted/ that reads; the others are skipped.
load_trusted_into(d) == UNION {pem_cert_to_der(trusted[d][m]) : m \in Ids}

\* load_identity_pins: a data directory holds no trust.
LoadTrusted(p) ==
    /\ pc[p] = "trust"
    /\ pins' = [pins EXCEPT
          ![p] = IF p \in ClusterDir THEN load_trusted_into(DirOf[p]) ELSE {}]
    /\ first' = [first EXCEPT ![DirOf[p]] = IF @ = Nobody THEN id[p].second ELSE @]
    /\ Goto(p, IF p \in DevTrust THEN "publish" ELSE "up")
    /\ UNCHANGED <<disk, id, todo, adding, kills, minted, paired, unfinished>>

\* Reads the directory first and publishes afterwards.
Publish_after_listing(p) ==
    \/ /\ pc[p] = "publish"
       /\ todo' = [todo EXCEPT ![p] = {m \in Ids \ {id[p].second} : shared[m] # Absent}]
       /\ Goto(p, "publishing")
       /\ UNCHANGED <<disk, id, pins, adding, kills, history>>
    \/ /\ pc[p] = "publishing"
       /\ shared' = [shared EXCEPT ![id[p].second] = Whole(id[p].second)]
       /\ Goto(p, "scan")
       /\ UNCHANGED <<file, trusted, id, todo, pins, adding, kills, history>>

\* bootstrap_dev_trust: our own certificate is written, then the directory is
\* listed.
Publish(p) ==
    \/ /\ pc[p] = "publish"
       /\ shared' = [shared EXCEPT ![id[p].second] = Cut]
       /\ Goto(p, "publishing")
       /\ UNCHANGED <<file, trusted, id, todo, pins, adding, kills, history>>
    \/ /\ pc[p] = "publishing"
       /\ shared' = [shared EXCEPT ![id[p].second] = Whole(id[p].second)]
       /\ Goto(p, "list")
       /\ UNCHANGED <<file, trusted, id, todo, pins, adding, kills, history>>
    \/ /\ pc[p] = "list"
       /\ todo' = [todo EXCEPT ![p] = {m \in Ids \ {id[p].second} : shared[m] # Absent}]
       /\ Goto(p, "scan")
       /\ UNCHANGED <<disk, id, pins, adding, kills, history>>

\* ... and every other file read, one by one, in the order of read_dir.
Scan(p) ==
    /\ pc[p] = "scan"
    /\ \/ /\ todo[p] = {}
          /\ Goto(p, "up")
          /\ UNCHANGED <<todo, pins>>
       \/ \E m \in todo[p] :
          /\ todo' = [todo EXCEPT ![p] = @ \ {m}]
          /\ pins' = [pins EXCEPT ![p] = @ \cup pem_cert_to_der(shared[m])]
          /\ UNCHANGED pc
    /\ UNCHANGED <<disk, id, adding, kills, history>>

\* add_trusted_peer of a running process, for a peer it has just paired with,
\* again or for the first time: pinned, then written over what was there.
AddTrusted(p, m) ==
    /\ p \in ClusterDir /\ pc[p] = "up" /\ adding[p] = Nobody
    /\ m \in minted \ {id[p].second}
    /\ pins' = [pins EXCEPT ![p] = @ \cup {m}]
    /\ trusted' = [trusted EXCEPT ![DirOf[p]][m] = Cut]
    /\ adding' = [adding EXCEPT ![p] = m]
    /\ unfinished' = [unfinished EXCEPT ![DirOf[p]] = @ \cup {m}]
    /\ UNCHANGED <<file, shared, pc, id, todo, kills, minted, first, paired>>

AddedTrusted(p) ==
    /\ adding[p] # Nobody
    /\ trusted' = [trusted EXCEPT ![DirOf[p]][adding[p]] = Whole(adding[p])]
    /\ paired' = [paired EXCEPT ![DirOf[p]] = @ \cup {adding[p]}]
    /\ unfinished' = [unfinished EXCEPT ![DirOf[p]] = @ \ {adding[p]}]
    /\ adding' = [adding EXCEPT ![p] = Nobody]
    /\ UNCHANGED <<file, shared, pc, id, todo, pins, kills, minted, first>>

-----------------------------------------------------------------------------
\* A process is killed, or one that failed is given up, and may start again.
Kill(p) ==
    /\ pc[p] # "off" /\ kills < MaxKills
    /\ kills' = kills + 1
    /\ Goto(p, "off")
    /\ id' = [id EXCEPT ![p] = NoIdentity]
    /\ todo' = [todo EXCEPT ![p] = {}]
    /\ pins' = [pins EXCEPT ![p] = {}]
    /\ adding' = [adding EXCEPT ![p] = Nobody]
    /\ UNCHANGED <<disk, history>>

StartupNext ==
    \E p \in Procs :
        \/ Open(p) \/ ReadFirst(p) \/ ReadSecond(p)
        \/ \E k \in {1, 2} : Create(p, k) \/ Write(p, k)
        \/ LoadTrusted(p) \/ Publish(p) \/ Scan(p)
        \/ \E m \in Ids : AddTrusted(p, m)
        \/ AddedTrusted(p)
        \/ Kill(p)

StartupSpec == StartupInit /\ [][StartupNext]_svars

-----------------------------------------------------------------------------
(* Properties.                                                             *)

File == {Absent, Cut} \cup {Whole(i) : i \in Ids}

\* Every variable stays in its type.
StartupTypeOK ==
    /\ file \in [Dirs -> [{1, 2} -> File]]
    /\ trusted \in [Dirs -> [Ids -> File]] /\ shared \in [Ids -> File]
    /\ pc \in [Procs -> {"off", "read1", "read2", "create1", "write1", "create2",
                         "write2", "trust", "publish", "publishing", "list",
                         "scan", "up", "failed"}]
    /\ id \in [Procs -> [first : Ids \cup {Nobody}, second : Ids \cup {Nobody}]]
    /\ todo \in [Procs -> SUBSET Ids] /\ pins \in [Procs -> SUBSET Ids]
    /\ adding \in [Procs -> Ids \cup {Nobody}]
    /\ kills \in 0..MaxKills /\ minted \subseteq Ids
    /\ first \in [Dirs -> Ids \cup {Nobody}] /\ paired \in [Dirs -> SUBSET Ids]
    /\ unfinished \in [Dirs -> SUBSET Ids]

Alone(p) == \A q \in Procs \ {p} : DirOf[q] # DirOf[p]
Loaded(p) == pc[p] \in {"trust", "publish", "publishing", "list", "scan", "up"}

\* A directory used by one process at a time keeps one identity for good: what
\* a start loads, or mints, is a key with its own certificate and the identity
\* of every earlier run, wherever those runs were killed.
OneIdentity ==
    \A p \in Procs : Alone(p) /\ Loaded(p) =>
        /\ id[p].first = id[p].second
        /\ first[DirOf[p]] \in {Nobody, id[p].second}

\* A kill anywhere in the first start is healed by the next one, except inside
\* the second write: nothing else can make a start fail.
FailsOnlyTorn ==
    \A p \in Procs : Alone(p) /\ pc[p] = "failed" =>
        /\ file[DirOf[p]][1].st = "whole" /\ file[DirOf[p]][2].st = "cut"
        /\ first[DirOf[p]] = Nobody

\* A peer a pairing was completed with is pinned by every later run, whatever
\* other files of trusted/ a kill left cut off and however often, unless the
\* last pairing with this very peer was cut off, or is under way.  In that case
\* the peer is lost, against "written to `trusted/` so trust survives a restart"
\* (pairing.rs:7): pairing again truncates the file it is trusted by before the
\* new one is written (cluster_dir.rs:77).
TrustLasts ==
    \A p \in Procs : Alone(p) /\ pc[p] = "up" =>
        paired[DirOf[p]] \ unfinished[DirOf[p]] \subseteq pins[p]

\* Two nodes that went through the development bootstrap, however their writes
\* and scans overlapped and however often they were killed, are not strangers:
\* one of them has pinned the other (the second one to publish finds the
\* first).  Each has a directory of its own: two processes with one identity
\* would truncate each other's file.
DevTrustMeets ==
    \A p, q \in DevTrust :
        p # q /\ Alone(p) /\ Alone(q) /\ pc[p] = "up" /\ pc[q] = "up" =>
            id[p].second \in pins[q] \/ id[q].second \in pins[p]
=============================================================================
