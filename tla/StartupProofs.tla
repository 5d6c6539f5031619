---------------------------- MODULE StartupProofs ----------------------------
(***************************************************************************)
(* What holds of Startup for any number of processes, directories,         *)
(* identities and kills.                                                   *)
(***************************************************************************)
EXTENDS Startup, TLAPS

Creating == {"create1", "write1", "create2", "write2"}
LoadedStates == {"trust", "publish", "publishing", "list", "scan", "up"}

\* A process that has chosen or loaded an identity has one.
HasIdentity(p) ==
    pc[p] \in Creating \cup LoadedStates => id[p].first \in Ids /\ id[p].second \in Ids

\* The identity files of a directory one process uses, at each of its steps:
\* the second file never exists without the first, and both come from one run.
FilesOf(p) ==
    LET d == DirOf[p]
        f == file[d]
    IN  /\ f[2] # Absent => \E i \in Ids : f[1] = Whole(i) /\ f[2] \in {Cut, Whole(i)}
        /\ first[d] # Nobody => f[1] = Whole(first[d]) /\ f[2] = Whole(first[d])
        /\ pc[p] \in {"create1", "write1", "create2"} => f[2] = Absent
        /\ pc[p] \in Creating => id[p].first = id[p].second /\ first[d] = Nobody
        /\ pc[p] \in {"create2", "write2"} => f[1] = Whole(id[p].first)
        /\ pc[p] = "write2" => f[2] = Cut
        /\ pc[p] \in {"read1", "read2"} => f[2] # Absent
        /\ pc[p] = "read2" => id[p].first \in Ids /\ f[1] = Whole(id[p].first)
        /\ pc[p] \in LoadedStates => f[1] = Whole(id[p].first) /\ f[2] = Whole(id[p].second)
        /\ pc[p] = "failed" => f[2] = Cut


TypeInv == StartupTypeOK /\ \A p \in Procs : HasIdentity(p)
IdentityInv == \A p \in Procs : Alone(p) => FilesOf(p)

-----------------------------------------------------------------------------
(* Types.                                                                  *)

\* What a file yields.
LEMMA FileFacts ==
    ASSUME NEW f \in File
    PROVE  /\ pem_cert_to_der(f) \subseteq Ids
           /\ \A i \in pem_cert_to_der(f) : f = Whole(i)
           /\ f \notin {Absent, Cut} => pem_cert_to_der(f) # {}
           /\ f \in {Absent, Cut} => pem_cert_to_der(f) = {}
  BY DEF File, pem_cert_to_der, Absent, Cut, Whole

LEMMA FilesAre ==
    /\ Absent \in File /\ Cut \in File
    /\ \A i \in Ids : Whole(i) \in File
    /\ Absent # Cut
    /\ \A i : Whole(i) # Cut /\ Whole(i) # Absent
    /\ \A i, j : Whole(i) = Whole(j) => i = j
  BY DEF File, Absent, Cut, Whole

LEMMA DirIs ==
    ASSUME NEW p \in Procs
    PROVE  DirOf[p] \in Dirs
  BY DEF Dirs

LEMMA InitTyped == StartupInit => TypeInv
<1> SUFFICES ASSUME StartupInit PROVE TypeInv
  OBVIOUS
<1>1. MaxKills \in Nat
  BY StartupAssumption
<1> QED
  BY <1>1, FilesAre DEF StartupInit, TypeInv, StartupTypeOK, HasIdentity, NoIdentity, Creating,
     LoadedStates

\* Each step keeps the types.
LEMMA NextTyped ==
    ASSUME TypeInv, [StartupNext]_svars
    PROVE  TypeInv'
<1> USE DEF TypeInv, StartupTypeOK, HasIdentity, Creating, LoadedStates, Goto
<1>1. CASE UNCHANGED svars
  BY <1>1 DEF svars, disk, memory, history
<1>2. ASSUME NEW p \in Procs, Open(p)
      PROVE  TypeInv'
  <2>1. CASE id' = id /\ minted' = minted /\ pc' = [pc EXCEPT ![p] = "read1"]
    BY <1>2, <2>1 DEF Open, disk
  <2>2. ASSUME NEW i \in Ids, minted' = minted \cup {i},
               id' = [id EXCEPT ![p] = [first |-> i, second |-> i]],
               pc' = [pc EXCEPT ![p] = "create1"]
        PROVE  TypeInv'
    BY <1>2, <2>2 DEF Open, disk
  <2> QED
    BY <1>2, <2>1, <2>2 DEF Open
<1>3. ASSUME NEW p \in Procs, ReadFirst(p)
      PROVE  TypeInv'
  <2>1. file[DirOf[p]][1] \in File
    BY DirIs
  <2>2. PICK i \in Ids \cup {Nobody} :
          id' = [id EXCEPT ![p] = [NoIdentity EXCEPT !.first = i]] \/ id' = id
    BY <1>3, <2>1, FileFacts DEF ReadFirst
  <2>3. id' \in [Procs -> [first : Ids \cup {Nobody}, second : Ids \cup {Nobody}]]
    <3>1. [NoIdentity EXCEPT !.first = i] = [first |-> i, second |-> Nobody]
      BY DEF NoIdentity
    <3>2. [first |-> i, second |-> Nobody]
            \in [first : Ids \cup {Nobody}, second : Ids \cup {Nobody}]
      OBVIOUS
    <3>3. CASE id' = id
      BY <3>3
    <3>4. CASE id' = [id EXCEPT ![p] = [first |-> i, second |-> Nobody]]
      BY <3>2, <3>4
    <3> QED
      BY <2>2, <3>1, <3>3, <3>4
  <2>4. \A q \in Procs : q # p => id'[q] = id[q]
    BY <2>2
  <2> QED
    BY <1>3, <2>3, <2>4 DEF ReadFirst, disk, history
<1>4. ASSUME NEW p \in Procs, ReadSecond(p)
      PROVE  TypeInv'
  <2> DEFINE f1 == IF id[p].first = Nobody THEN Cut ELSE Whole(id[p].first)
             f2 == file[DirOf[p]][2]
  <2>1. f1 \in File /\ f2 \in File
    BY DirIs, FilesAre
  <2>2. \A i \in from_pem(f1, f2) : i \in [first : Ids, second : Ids]
    BY <2>1, FileFacts DEF from_pem
  <2>3. \/ id' = id /\ pc' = [pc EXCEPT ![p] = "failed"]
        \/ \E i \in [first : Ids, second : Ids] :
              id' = [id EXCEPT ![p] = i] /\ pc' = [pc EXCEPT ![p] = "trust"]
    BY <1>4, <2>2 DEF ReadSecond
  <2>4. CASE id' = id /\ pc' = [pc EXCEPT ![p] = "failed"]
    BY <1>4, <2>4 DEF ReadSecond, disk, history
  <2>5. ASSUME NEW i \in [first : Ids, second : Ids],
               id' = [id EXCEPT ![p] = i], pc' = [pc EXCEPT ![p] = "trust"]
        PROVE  TypeInv'
    <3>1. i.first \in Ids /\ i.second \in Ids
          /\ i \in [first : Ids \cup {Nobody}, second : Ids \cup {Nobody}]
      OBVIOUS
    <3> QED
      BY <1>4, <2>5, <3>1 DEF ReadSecond, disk, history
  <2> QED
    BY <2>3, <2>4, <2>5
<1>5. ASSUME NEW p \in Procs, NEW k \in {1, 2}, Create(p, k)
      PROVE  TypeInv'
  <2>1. \/ k = 1 /\ pc[p] = "create1" /\ pc' = [pc EXCEPT ![p] = "write1"]
        \/ k = 2 /\ pc[p] = "create2" /\ pc' = [pc EXCEPT ![p] = "write2"]
    <3>1. CASE k = 1
      BY <1>5, <3>1 DEF Create
    <3>2. CASE k = 2
      BY <1>5, <3>2 DEF Create
    <3> QED
      BY <3>1, <3>2
  <2>2. file' \in [Dirs -> [{1, 2} -> File]]
    BY <1>5, DirIs, FilesAre DEF Create
  <2> QED
    BY <1>5, <2>1, <2>2 DEF Create, history
<1>6. ASSUME NEW p \in Procs, NEW k \in {1, 2}, Write(p, k)
      PROVE  TypeInv'
  <2>1. \/ k = 1 /\ pc[p] = "write1" /\ pc' = [pc EXCEPT ![p] = "create2"]
        \/ k = 2 /\ pc[p] = "write2" /\ pc' = [pc EXCEPT ![p] = "trust"]
    <3>1. CASE k = 1
      BY <1>6, <3>1 DEF Write
    <3>2. CASE k = 2
      BY <1>6, <3>2 DEF Write
    <3> QED
      BY <3>1, <3>2
  <2>2. Whole(id[p].first) \in File
    BY <2>1, FilesAre
  <2>3. file' \in [Dirs -> [{1, 2} -> File]]
    BY <1>6, <2>2, DirIs DEF Write
  <2> QED
    BY <1>6, <2>1, <2>3 DEF Write, history
<1>7. ASSUME NEW p \in Procs, LoadTrusted(p)
      PROVE  TypeInv'
  <2>1. load_trusted_into(DirOf[p]) \subseteq Ids
    BY DirIs, FileFacts DEF load_trusted_into
  <2>2. DirOf[p] \in Dirs /\ id[p].second \in Ids
    BY <1>7, DirIs DEF LoadTrusted
  <2> QED
    BY <1>7, <2>1, <2>2 DEF LoadTrusted, disk
<1>8. ASSUME NEW p \in Procs, Publish(p)
      PROVE  TypeInv'
  <2>1. id[p].second \in Ids
    BY <1>8 DEF Publish
  <2> QED
    <3>1. CASE pc[p] = "publish"
      <4>1. shared' \in [Ids -> File]
        <5>1. shared' = [shared EXCEPT ![id[p].second] = Cut]
          BY <1>8, <3>1 DEF Publish
        <5> QED
          BY <2>1, <5>1, FilesAre
      <4>2. pc' = [pc EXCEPT ![p] = "publishing"]
        BY <1>8, <3>1 DEF Publish
      <4> QED
        BY <1>8, <3>1, <4>1, <4>2 DEF Publish, history
    <3>2. CASE pc[p] = "publishing"
      <4>1. shared' \in [Ids -> File]
        <5>1. shared' = [shared EXCEPT ![id[p].second] = Whole(id[p].second)]
          BY <1>8, <3>2 DEF Publish
        <5> QED
          BY <2>1, <5>1, FilesAre
      <4>2. pc' = [pc EXCEPT ![p] = "list"]
        BY <1>8, <3>2 DEF Publish
      <4> QED
        BY <1>8, <3>2, <4>1, <4>2 DEF Publish, history
    <3>3. CASE pc[p] = "list"
      <4> DEFINE found == {m \in Ids \ {id[p].second} : shared[m] # Absent}
      <4>1. todo' = [todo EXCEPT ![p] = found] /\ pc' = [pc EXCEPT ![p] = "scan"]
        BY <1>8, <3>3 DEF Publish
      <4>2. found \subseteq Ids
        OBVIOUS
      <4> HIDE DEF found
      <4>3. todo' \in [Procs -> SUBSET Ids]
        BY <4>1, <4>2
      <4> QED
        BY <1>8, <3>3, <4>1, <4>3 DEF Publish, disk, history
    <3> QED
      BY <1>8, <3>1, <3>2, <3>3 DEF Publish
<1>9. ASSUME NEW p \in Procs, Scan(p)
      PROVE  TypeInv'
  <2>1. \A m \in todo[p] : pem_cert_to_der(shared[m]) \subseteq Ids
    BY FileFacts
  <2> QED
    <3>1. CASE todo[p] = {} /\ pc' = [pc EXCEPT ![p] = "up"] /\ UNCHANGED <<todo, pins>>
      BY <1>9, <3>1 DEF Scan, disk, history
    <3>2. ASSUME NEW m \in todo[p],
                 todo' = [todo EXCEPT ![p] = @ \ {m}],
                 pins' = [pins EXCEPT ![p] = @ \cup pem_cert_to_der(shared[m])],
                 pc' = pc
          PROVE  TypeInv'
      <4>1. pins' \in [Procs -> SUBSET Ids] /\ todo' \in [Procs -> SUBSET Ids]
        BY <2>1, <3>2
      <4> QED
        BY <1>9, <3>2, <4>1 DEF Scan, disk, history
    <3> QED
      BY <1>9, <3>1, <3>2 DEF Scan
<1>10. ASSUME NEW p \in Procs, NEW m \in Ids, AddTrusted(p, m)
       PROVE  TypeInv'
  BY <1>10, DirIs, FilesAre DEF AddTrusted
<1>11. ASSUME NEW p \in Procs, AddedTrusted(p)
       PROVE  TypeInv'
  BY <1>11, DirIs, FilesAre DEF AddedTrusted
<1>12. ASSUME NEW p \in Procs, Kill(p)
       PROVE  TypeInv'
  <2>1. kills' \in 0..MaxKills
    BY <1>12, StartupAssumption DEF Kill
  <2> QED
    BY <1>12, <2>1 DEF Kill, disk, history, NoIdentity
<1> QED
  BY <1>1, <1>2, <1>3, <1>4, <1>5, <1>6, <1>7, <1>8, <1>9, <1>10, <1>11, <1>12 DEF StartupNext

\* Every variable keeps its type, for any processes, directories and kills.
THEOREM StartupTyped == StartupSpec => []StartupTypeOK
<1>1. StartupInit => TypeInv
  BY InitTyped
<1>2. TypeInv /\ [StartupNext]_svars => TypeInv'
  BY NextTyped
<1>3. TypeInv => StartupTypeOK
  BY DEF TypeInv
<1> QED
  BY <1>1, <1>2, <1>3, PTL DEF StartupSpec

-----------------------------------------------------------------------------
(* One directory, one identity.                                            *)

\* A step that leaves p's directory and p alone keeps FilesOf(p).
LEMMA FilesFrame ==
    ASSUME NEW p \in Procs, FilesOf(p),
           file'[DirOf[p]] = file[DirOf[p]], first'[DirOf[p]] = first[DirOf[p]],
           pc'[p] = pc[p], id'[p] = id[p]
    PROVE  FilesOf(p)'
  BY DEF FilesOf

StepOf(p) ==
    \/ Open(p) \/ ReadFirst(p) \/ ReadSecond(p)
    \/ \E k \in {1, 2} : Create(p, k) \/ Write(p, k)
    \/ LoadTrusted(p) \/ Publish(p) \/ Scan(p)
    \/ \E m \in Ids : AddTrusted(p, m)
    \/ AddedTrusted(p) \/ Kill(p)

\* Only q and its directory change.
Own(q) ==
    /\ \A p \in Procs \ {q} : /\ pc'[p] = pc[p] /\ id'[p] = id[p]
                              /\ pins'[p] = pins[p] /\ adding'[p] = adding[p]
                              /\ todo'[p] = todo[p]
    /\ \A d \in Dirs \ {DirOf[q]} : /\ file'[d] = file[d] /\ first'[d] = first[d]
                                    /\ paired'[d] = paired[d]
                                    /\ unfinished'[d] = unfinished[d]

\* What a process does leaves the others and their directories alone.
LEMMA StepIsOwn ==
    ASSUME TypeInv, NEW q \in Procs,
           StepOf(q)
    PROVE  Own(q)
<1> USE DEF Own, TypeInv, StartupTypeOK, Goto
<1>1. CASE Open(q)
  BY <1>1 DEF Open, disk
<1>2. CASE ReadFirst(q)
  BY <1>2 DEF ReadFirst, disk, history
<1>3. CASE ReadSecond(q)
  BY <1>3 DEF ReadSecond, disk, history
<1>4. ASSUME NEW k \in {1, 2}, Create(q, k) \/ Write(q, k)
      PROVE  Own(q)
  BY <1>4 DEF Create, Write, history
<1>5. CASE LoadTrusted(q)
  BY <1>5 DEF LoadTrusted, disk
<1>6. CASE Publish(q)
  BY <1>6 DEF Publish, disk, history
<1>7. CASE Scan(q)
  BY <1>7 DEF Scan, disk, history
<1>8. ASSUME NEW m \in Ids, AddTrusted(q, m)
      PROVE  Own(q)
  BY <1>8 DEF AddTrusted
<1>9. CASE AddedTrusted(q)
  BY <1>9 DEF AddedTrusted
<1>10. CASE Kill(q)
  BY <1>10 DEF Kill, disk, history
<1> QED
  BY <1>1, <1>2, <1>3, <1>4, <1>5, <1>6, <1>7, <1>8, <1>9, <1>10 DEF StepOf

\* What each step of p does to its own files.
LEMMA OwnFiles ==
    ASSUME TypeInv, NEW p \in Procs, FilesOf(p),
           StepOf(p)
    PROVE  FilesOf(p)'
<1> DEFINE d == DirOf[p]
<1>1. /\ d \in Dirs /\ file \in [Dirs -> [{1, 2} -> File]]
      /\ DOMAIN pc = Procs /\ first \in [Dirs -> Ids \cup {Nobody}]
      /\ id \in [Procs -> [first : Ids \cup {Nobody}, second : Ids \cup {Nobody}]]
      /\ HasIdentity(p)
  BY DirIs DEF TypeInv, StartupTypeOK
<1>2. file[d] \in [{1, 2} -> File] /\ Nobody \notin Ids
  BY <1>1, StartupAssumption
<1> USE DEF FilesOf, Creating, LoadedStates, Goto
<1>3. CASE Open(p)
  <2>1. CASE \A k \in {1, 2} : file[d][k] # Absent
    BY <1>1, <1>3, <2>1 DEF Open, disk
  <2>2. CASE ~(\A k \in {1, 2} : file[d][k] # Absent)
    <3>1. PICK i \in Ids : /\ id' = [id EXCEPT ![p] = [first |-> i, second |-> i]]
                           /\ pc' = [pc EXCEPT ![p] = "create1"]
      BY <1>3, <2>2 DEF Open
    <3>2. file' = file /\ first' = first
      BY <1>3 DEF Open, disk
    <3>3. file[d][2] = Absent
      BY <1>1, <2>2, FilesAre
    <3>4. first[d] = Nobody
      BY <3>3, FilesAre
    <3>5. id'[p].first = id'[p].second /\ pc'[p] = "create1"
      BY <1>1, <3>1
    <3> QED
      BY <3>2, <3>3, <3>4, <3>5
  <2> QED
    BY <2>1, <2>2
<1>4. CASE ReadFirst(p)
  <2>1. PICK i \in Ids : file[d][1] = Whole(i)
    BY <1>4 DEF ReadFirst
  <2>2. pem_cert_to_der(file[d][1]) = {i}
    BY <2>1 DEF pem_cert_to_der, Whole
  <2>3. id' = [id EXCEPT ![p] = [NoIdentity EXCEPT !.first = i]]
    BY <1>4, <2>2 DEF ReadFirst
  <2>4. id'[p].first = i /\ pc'[p] = "read2"
    BY <1>1, <1>4, <2>3 DEF ReadFirst, NoIdentity
  <2>5. file' = file /\ first' = first /\ pc[p] = "read1"
    BY <1>4 DEF ReadFirst, disk, history
  <2> QED
    BY <2>1, <2>4, <2>5
<1>5. CASE ReadSecond(p)
  <2>1. file' = file /\ first' = first /\ pc[p] = "read2"
    BY <1>5 DEF ReadSecond, disk, history
  <2>2. id[p].first \in Ids /\ file[d][1] = Whole(id[p].first)
    BY <2>1
  <2>3. id[p].first # Nobody
    BY <1>2, <2>2
  <2> DEFINE loaded == from_pem(Whole(id[p].first), file[d][2])
  <2>4. \/ loaded = {} /\ pc' = [pc EXCEPT ![p] = "failed"] /\ id' = id
        \/ \E i \in loaded : id' = [id EXCEPT ![p] = i] /\ pc' = [pc EXCEPT ![p] = "trust"]
    BY <1>5, <2>3 DEF ReadSecond
  <2>5. file[d][2] \in {Cut, Whole(id[p].first)}
    BY <2>1, <2>2, FilesAre
  <2>6. CASE file[d][2] = Cut
    <3>1. loaded = {}
      BY <2>6 DEF from_pem, pem_cert_to_der, Cut
    <3>2. pc'[p] = "failed" /\ id' = id
      BY <1>1, <2>4, <3>1
    <3> QED
      BY <2>1, <2>6, <3>2
  <2>7. CASE file[d][2] = Whole(id[p].first)
    <3>1. loaded = {[first |-> id[p].first, second |-> id[p].first]}
      BY <2>7 DEF from_pem, pem_cert_to_der, Whole
    <3>2. id' = [id EXCEPT ![p] = [first |-> id[p].first, second |-> id[p].first]]
          /\ pc'[p] = "trust"
      BY <1>1, <2>4, <3>1
    <3>3. id'[p].first = id[p].first /\ id'[p].second = id[p].first
      BY <1>1, <3>2
    <3> QED
      BY <2>1, <2>2, <2>7, <3>2, <3>3
  <2> QED
    BY <2>5, <2>6, <2>7
<1>6. ASSUME Create(p, 1)
      PROVE  FilesOf(p)'
  <2>1. /\ pc[p] = "create1" /\ pc'[p] = "write1" /\ id' = id /\ first' = first
        /\ file'[d] = [file[d] EXCEPT ![1] = Cut]
    BY <1>1, <1>6 DEF Create, history
  <2>2. file'[d][2] = file[d][2]
    BY <1>2, <2>1
  <2> QED
    BY <2>1, <2>2
<1>7. ASSUME Write(p, 1)
      PROVE  FilesOf(p)'
  <2>1. /\ pc[p] = "write1" /\ pc'[p] = "create2" /\ id' = id /\ first' = first
        /\ file'[d] = [file[d] EXCEPT ![1] = Whole(id[p].first)]
    BY <1>1, <1>7 DEF Write, history
  <2>2. file'[d][2] = file[d][2] /\ file'[d][1] = Whole(id[p].first)
    BY <1>2, <2>1
  <2> QED
    BY <2>1, <2>2
<1>8. ASSUME Create(p, 2)
      PROVE  FilesOf(p)'
  <2>1. /\ pc[p] = "create2" /\ pc'[p] = "write2" /\ id' = id /\ first' = first
        /\ file'[d] = [file[d] EXCEPT ![2] = Cut]
    BY <1>1, <1>8 DEF Create, history
  <2>2. file'[d][2] = Cut /\ file'[d][1] = file[d][1] /\ id[p].first \in Ids
    BY <1>1, <1>2, <2>1 DEF HasIdentity
  <2> QED
    BY <2>1, <2>2
<1>9. ASSUME Write(p, 2)
      PROVE  FilesOf(p)'
  <2>1. /\ pc[p] = "write2" /\ pc'[p] = "trust" /\ id' = id /\ first' = first
        /\ file'[d] = [file[d] EXCEPT ![2] = Whole(id[p].first)]
    BY <1>1, <1>9 DEF Write, history
  <2>2. /\ file'[d][2] = Whole(id[p].first) /\ file'[d][1] = file[d][1]
        /\ id[p].first \in Ids
    BY <1>1, <1>2, <2>1 DEF HasIdentity
  <2> QED
    BY <2>1, <2>2
<1>10. CASE LoadTrusted(p)
  <2>1. file' = file /\ id' = id /\ pc[p] = "trust" /\ pc'[p] \in {"publish", "up"}
    BY <1>1, <1>10 DEF LoadTrusted, disk
  <2>2. first'[d] = IF first[d] = Nobody THEN id[p].second ELSE first[d]
    BY <1>1, <1>10 DEF LoadTrusted
  <2>3. /\ id[p].first = id[p].second /\ id[p].second \in Ids
        /\ file[d][1] = Whole(id[p].first) /\ file[d][2] = Whole(id[p].second)
    BY <1>1, <2>1, FilesAre DEF HasIdentity
  <2> QED
    BY <2>1, <2>2, <2>3
<1>11. CASE Publish(p) \/ Scan(p)
  <2>1. /\ file' = file /\ first' = first /\ id' = id
        /\ pc[p] \in {"publish", "publishing", "list", "scan"}
        /\ pc'[p] \in {"publishing", "list", "scan", "up"}
    BY <1>1, <1>11 DEF Publish, Scan, disk, history
  <2> QED
    BY <2>1
<1>12. ASSUME NEW m \in Ids, AddTrusted(p, m)
       PROVE  FilesOf(p)'
  BY <1>12, FilesFrame DEF AddTrusted
<1>13. CASE Kill(p)
  <2>1. file' = file /\ first' = first /\ pc'[p] = "off"
    BY <1>1, <1>13 DEF Kill, disk, history
  <2> QED
    BY <2>1
<1>14. ASSUME NEW k \in {1, 2}, Create(p, k) \/ Write(p, k)
       PROVE  FilesOf(p)'
  BY <1>6, <1>7, <1>8, <1>9, <1>14
<1>15. CASE AddedTrusted(p)
  BY <1>15, FilesFrame DEF AddedTrusted
<1> QED
  BY <1>3, <1>4, <1>5, <1>10, <1>11, <1>12, <1>13, <1>14, <1>15 DEF StepOf

LEMMA NextIdentity ==
    ASSUME TypeInv, IdentityInv, [StartupNext]_svars
    PROVE  IdentityInv'
<1> SUFFICES ASSUME NEW p \in Procs, Alone(p)
             PROVE  FilesOf(p)'
  BY DEF IdentityInv, Alone
<1>1. FilesOf(p)
  BY DEF IdentityInv
<1>2. CASE UNCHANGED svars
  BY <1>1, <1>2, FilesFrame DEF svars, disk, memory, history
<1>3. CASE StartupNext
  <2>1. PICK q \in Procs : StepOf(q)
    BY <1>3 DEF StartupNext, StepOf
  <2>2. CASE q = p
    BY <1>1, <2>1, <2>2, OwnFiles
  <2>3. CASE q # p
    <3>1. DirOf[p] \in Dirs \ {DirOf[q]}
      BY <2>3, DirIs DEF Alone
    <3> QED
      BY <1>1, <2>1, <2>3, <3>1, StepIsOwn, FilesFrame DEF Own
  <2> QED
    BY <2>2, <2>3
<1> QED
  BY <1>2, <1>3

\* Both follow from IdentityInv.
LEMMA IdentityHolds == StartupSpec => [](OneIdentity /\ FailsOnlyTorn)
<1>1. StartupInit => IdentityInv
  <2> SUFFICES ASSUME StartupInit, NEW p \in Procs
               PROVE  FilesOf(p)
    BY DEF IdentityInv
  <2>1. /\ file[DirOf[p]][2] = Absent /\ first[DirOf[p]] = Nobody /\ pc[p] = "off"
    BY DirIs DEF StartupInit
  <2> QED
    BY <2>1 DEF FilesOf, Creating, LoadedStates
<1>2. TypeInv /\ IdentityInv /\ [StartupNext]_svars => IdentityInv'
  BY NextIdentity
<1>3. TypeInv /\ IdentityInv => OneIdentity /\ FailsOnlyTorn
  <2> SUFFICES ASSUME TypeInv, NEW p \in Procs, FilesOf(p), Alone(p)
               PROVE  /\ Loaded(p) => /\ id[p].first = id[p].second
                                      /\ first[DirOf[p]] \in {Nobody, id[p].second}
                      /\ pc[p] = "failed" =>
                            /\ file[DirOf[p]][1].st = "whole"
                            /\ file[DirOf[p]][2].st = "cut"
                            /\ first[DirOf[p]] = Nobody
    BY DEF IdentityInv, OneIdentity, FailsOnlyTorn
  <2>1. CASE Loaded(p)
    <3>1. /\ file[DirOf[p]][1] = Whole(id[p].first)
          /\ file[DirOf[p]][2] = Whole(id[p].second)
      BY <2>1 DEF FilesOf, Loaded, LoadedStates
    <3>2. id[p].first = id[p].second
      BY <3>1, FilesAre DEF FilesOf
    <3>3. first[DirOf[p]] \in {Nobody, id[p].second}
      BY <3>1, FilesAre DEF FilesOf
    <3> QED
      BY <2>1, <3>2, <3>3 DEF Loaded
  <2>2. CASE pc[p] = "failed"
    <3>1. file[DirOf[p]][2] = Cut
      BY <2>2 DEF FilesOf
    <3>2. \E i \in Ids : file[DirOf[p]][1] = Whole(i)
      BY <3>1, FilesAre DEF FilesOf
    <3>3. first[DirOf[p]] = Nobody
      BY <3>1, FilesAre DEF FilesOf
    <3> QED
      BY <2>2, <3>1, <3>2, <3>3 DEF Whole, Cut, Loaded
  <2> QED
    BY <2>1, <2>2
<1> QED
  BY <1>1, <1>2, <1>3, InitTyped, NextTyped, PTL DEF StartupSpec

\* A directory used by one process keeps one identity for good, wherever its
\* starts are killed (identity.rs:134, cluster_dir.rs:19): for any number of
\* processes, directories and kills.
THEOREM IdentityIsOne == StartupSpec => []OneIdentity
  BY IdentityHolds, PTL

\* No kill makes a start fail except one inside the very first write of the
\* second file (identity.rs:130, cluster_dir.rs:33).
THEOREM StartsHeal == StartupSpec => []FailsOnlyTorn
  BY IdentityHolds, PTL

-----------------------------------------------------------------------------
(* Trust that was written lasts.                                           *)

\* A peer whose pairing was completed has its whole certificate in trusted/.
TrustWritten ==
    \A d \in Dirs : \A m \in paired[d] \ unfinished[d] : trusted[d][m] = Whole(m)

\* A process past load_trusted_into has pinned all of them, and the one it is
\* writing.
TrustOf(p) ==
    /\ pc[p] \in LoadedStates \ {"trust"} =>
          paired[DirOf[p]] \ unfinished[DirOf[p]] \subseteq pins[p]
    /\ p \notin ClusterDir => paired[DirOf[p]] = {}
    /\ adding[p] # Nobody => p \in ClusterDir /\ pc[p] = "up" /\ adding[p] \in pins[p]

TrustInv ==
    /\ TrustWritten
    /\ \A p \in Procs : Alone(p) => TrustOf(p)

\* Only the two steps of add_trusted_peer touch trusted/.
LEMMA WrittenStays ==
    ASSUME TypeInv, TrustWritten, NEW p \in Procs, StepOf(p)
    PROVE  TrustWritten'
<1> DEFINE e == DirOf[p]
<1>1. /\ e \in Dirs /\ trusted \in [Dirs -> [Ids -> File]]
      /\ paired \in [Dirs -> SUBSET Ids] /\ adding[p] \in Ids \cup {Nobody}
      /\ unfinished \in [Dirs -> SUBSET Ids]
  BY DirIs DEF TypeInv, StartupTypeOK
<1>2. CASE trusted' = trusted /\ paired' = paired /\ unfinished' = unfinished
  BY <1>2 DEF TrustWritten
<1>3. ASSUME NEW m \in Ids, AddTrusted(p, m)
      PROVE  TrustWritten'
  <2>1. /\ trusted' = [trusted EXCEPT ![e][m] = Cut]
        /\ unfinished' = [unfinished EXCEPT ![e] = @ \cup {m}] /\ paired' = paired
    BY <1>3 DEF AddTrusted
  <2> QED
    BY <1>1, <2>1 DEF TrustWritten
<1>4. CASE AddedTrusted(p)
  <2>1. /\ trusted' = [trusted EXCEPT ![e][adding[p]] = Whole(adding[p])]
        /\ paired' = [paired EXCEPT ![e] = @ \cup {adding[p]}]
        /\ unfinished' = [unfinished EXCEPT ![e] = @ \ {adding[p]}]
        /\ adding[p] \in Ids
    BY <1>1, <1>4 DEF AddedTrusted
  <2> QED
    BY <1>1, <2>1 DEF TrustWritten
<1>5. \/ trusted' = trusted /\ paired' = paired /\ unfinished' = unfinished
      \/ \E m \in Ids : AddTrusted(p, m)
      \/ AddedTrusted(p)
  BY DEF StepOf, Open, ReadFirst, ReadSecond, Create, Write, LoadTrusted, Publish,
     Scan, Kill, disk, history
<1> QED
  BY <1>2, <1>3, <1>4, <1>5

\* The steps of p that load or add trust.
LEMMA OwnTrust ==
    ASSUME TypeInv, TrustWritten, NEW p \in Procs, TrustOf(p), StepOf(p)
    PROVE  TrustOf(p)'
<1> DEFINE d == DirOf[p]
<1>1. /\ d \in Dirs /\ pins \in [Procs -> SUBSET Ids] /\ DOMAIN pc = Procs
      /\ DOMAIN adding = Procs /\ paired \in [Dirs -> SUBSET Ids]
      /\ unfinished \in [Dirs -> SUBSET Ids]
  BY DirIs DEF TypeInv, StartupTypeOK
<1> USE DEF TrustOf, LoadedStates, Goto
<1>2. ASSUME pins' = pins, adding' = adding, paired' = paired, unfinished' = unfinished,
             pc[p] \notin LoadedStates, pc'[p] \in {"read1", "read2", "create1",
                "write1", "create2", "write2", "trust", "failed"}
      PROVE  TrustOf(p)'
  BY <1>2
<1>3. CASE Open(p) \/ ReadFirst(p) \/ ReadSecond(p)
  BY <1>1, <1>2, <1>3 DEF Open, ReadFirst, ReadSecond, history
<1>4. ASSUME NEW k \in {1, 2}, Create(p, k) \/ Write(p, k)
      PROVE  TrustOf(p)'
  <2>1. CASE k = 1
    BY <1>1, <1>2, <1>4, <2>1 DEF Create, Write, history
  <2>2. CASE k = 2
    BY <1>1, <1>2, <1>4, <2>2 DEF Create, Write, history
  <2> QED
    BY <2>1, <2>2
<1>5. CASE LoadTrusted(p)
  <2>1. paired[d] \ unfinished[d] \subseteq load_trusted_into(d)
    <3> SUFFICES ASSUME NEW m \in paired[d] \ unfinished[d]
                 PROVE  m \in load_trusted_into(d)
      OBVIOUS
    <3>1. m \in Ids /\ trusted[d][m] = Whole(m)
      BY <1>1 DEF TrustWritten
    <3>2. m \in pem_cert_to_der(trusted[d][m])
      BY <3>1 DEF pem_cert_to_der, Whole
    <3> QED
      BY <3>1, <3>2 DEF load_trusted_into
  <2>2. /\ adding' = adding /\ paired' = paired /\ pc[p] = "trust"
        /\ unfinished' = unfinished
        /\ pins'[p] = IF p \in ClusterDir THEN load_trusted_into(d) ELSE {}
    BY <1>1, <1>5 DEF LoadTrusted
  <2> QED
    BY <2>1, <2>2
<1>6. CASE Publish(p)
  BY <1>1, <1>6 DEF Publish, history
<1>7. CASE Scan(p)
  <2>1. pins[p] \subseteq pins'[p]
    BY <1>1, <1>7 DEF Scan
  <2>2. /\ adding' = adding /\ paired' = paired /\ pc[p] = "scan"
        /\ unfinished' = unfinished
    BY <1>7 DEF Scan, history
  <2> QED
    BY <2>1, <2>2
<1>8. ASSUME NEW m \in Ids, AddTrusted(p, m)
      PROVE  TrustOf(p)'
  <2>1. /\ pins'[p] = pins[p] \cup {m} /\ adding'[p] = m /\ pc' = pc /\ pc[p] = "up"
        /\ paired' = paired /\ unfinished'[d] = unfinished[d] \cup {m} /\ p \in ClusterDir
    BY <1>1, <1>8 DEF AddTrusted
  <2> QED
    BY <2>1
<1>9. CASE AddedTrusted(p)
  <2>1. /\ pins' = pins /\ adding'[p] = Nobody /\ pc' = pc /\ adding[p] # Nobody
        /\ paired'[d] = paired[d] \cup {adding[p]}
        /\ unfinished'[d] = unfinished[d] \ {adding[p]}
    BY <1>1, <1>9 DEF AddedTrusted
  <2> QED
    BY <2>1
<1>10. CASE Kill(p)
  <2>1. pc'[p] = "off" /\ adding'[p] = Nobody /\ paired' = paired
    BY <1>1, <1>10 DEF Kill, history
  <2> QED
    BY <2>1
<1> QED
  BY <1>3, <1>4, <1>5, <1>6, <1>7, <1>8, <1>9, <1>10 DEF StepOf

LEMMA NextTrust ==
    ASSUME TypeInv, TrustInv, [StartupNext]_svars
    PROVE  TrustInv'
<1>1. CASE UNCHANGED svars
  BY <1>1 DEF svars, disk, memory, history, TrustInv, TrustWritten, TrustOf, Alone
<1>2. ASSUME NEW q \in Procs, StepOf(q)
      PROVE  TrustInv'
  <2>1. TrustWritten'
    BY <1>2, WrittenStays DEF TrustInv
  <2>2. ASSUME NEW p \in Procs, Alone(p)
        PROVE  TrustOf(p)'
    <3>1. TrustOf(p)
      BY <2>2 DEF TrustInv
    <3>2. CASE p = q
      BY <1>2, <3>1, <3>2, OwnTrust DEF TrustInv
    <3>3. CASE p # q
      <4>1. DirOf[p] \in Dirs \ {DirOf[q]}
        BY <2>2, <3>3, DirIs DEF Alone
      <4>2. /\ pc'[p] = pc[p] /\ pins'[p] = pins[p] /\ adding'[p] = adding[p]
            /\ paired'[DirOf[p]] = paired[DirOf[p]]
            /\ unfinished'[DirOf[p]] = unfinished[DirOf[p]]
        BY <1>2, <3>3, <4>1, StepIsOwn DEF Own
      <4> QED
        BY <3>1, <4>2 DEF TrustOf
    <3> QED
      BY <3>2, <3>3
  <2> QED
    BY <2>1, <2>2 DEF TrustInv, Alone
<1> QED
  BY <1>1, <1>2 DEF StartupNext, StepOf

\* A peer a pairing was completed with is pinned by every later run of the one
\* process that uses the directory (cluster_dir.rs:45, pairing.rs:7), whatever
\* else a kill left there, unless the last pairing with this very peer was not
\* finished (cluster_dir.rs:77): for any number of kills.
THEOREM TrustIsKept == StartupSpec => []TrustLasts
<1>1. StartupInit => TrustInv
  <2> SUFFICES ASSUME StartupInit
               PROVE  TrustInv
    OBVIOUS
  <2>1. \A d \in Dirs : paired[d] = {}
    BY DEF StartupInit
  <2>2. \A p \in Procs : /\ pc[p] = "off" /\ adding[p] = Nobody
                         /\ paired[DirOf[p]] = {}
    BY <2>1, DirIs DEF StartupInit
  <2> QED
    BY <2>1, <2>2 DEF TrustInv, TrustWritten, TrustOf, LoadedStates
<1>2. TypeInv /\ TrustInv /\ [StartupNext]_svars => TrustInv'
  BY NextTrust
<1>3. TrustInv => TrustLasts
  BY DEF TrustInv, TrustOf, TrustLasts, LoadedStates
<1> QED
  BY <1>1, <1>2, <1>3, InitTyped, NextTyped, PTL DEF StartupSpec

-----------------------------------------------------------------------------
(* The development bootstrap.                                              *)

\* Identity i is in a file of directory d, or a process that uses d runs with it.
Holds(d, i) ==
    \/ \E k \in {1, 2} : file[d][k] = Whole(i)
    \/ \E p \in Procs : DirOf[p] = d /\ (id[p].first = i \/ id[p].second = i)

\* No identity is in two directories.
Apart ==
    \A i \in Ids : /\ \A d \in Dirs : Holds(d, i) => i \in minted
                   /\ \A d, e \in Dirs : Holds(d, i) /\ Holds(e, i) => d = e

\* A process that has published finds its own file whole.
Published(p) ==
    pc[p] \in {"list", "scan", "up"} => shared[id[p].second] = Whole(id[p].second)

\* p has read the directory since it started, and has pinned q or is about to.
Listed(p) == pc[p] \in {"scan", "up"}
Knows(p, i) == i \in pins[p] \/ (pc[p] = "scan" /\ i \in todo[p])
Acquainted(p, q) ==
    Listed(p) /\ Listed(q) => Knows(p, id[q].second) \/ Knows(q, id[p].second)

MeetInv ==
    /\ Apart
    /\ \A p \in DevTrust : Alone(p) => Published(p)
    /\ \A p, q \in DevTrust : p # q /\ Alone(p) /\ Alone(q) => Acquainted(p, q)

\* A step brings into its directory only what was there, or a fresh identity.
LEMMA HoldsStep ==
    ASSUME TypeInv, NEW q \in Procs, StepOf(q), NEW i \in Ids
    PROVE  /\ Holds(DirOf[q], i)' => Holds(DirOf[q], i) \/ (i \notin minted /\ i \in minted')
           /\ \A d \in Dirs \ {DirOf[q]} : Holds(d, i)' => Holds(d, i)
           /\ minted \subseteq minted'
<1> DEFINE e == DirOf[q]
<1>1. /\ e \in Dirs /\ file \in [Dirs -> [{1, 2} -> File]]
      /\ id \in [Procs -> [first : Ids \cup {Nobody}, second : Ids \cup {Nobody}]]
      /\ HasIdentity(q) /\ Nobody \notin Ids /\ i # Nobody
  BY DirIs, StartupAssumption DEF TypeInv, StartupTypeOK
<1>2. Own(q)
  BY StepIsOwn
<1>3. ASSUME NEW d \in Dirs \ {e}, Holds(d, i)'
      PROVE  Holds(d, i)
  BY <1>2, <1>3 DEF Holds, Own
<1>4. CASE file' = file /\ id' = id /\ minted' = minted
  BY <1>3, <1>4 DEF Holds
<1>5. ASSUME NEW r, id' = [id EXCEPT ![q] = r], file' = file,
             minted \subseteq minted',
             \A j \in {r.first, r.second} :
                 j = i => Holds(e, i) \/ (i \notin minted /\ i \in minted')
      PROVE  Holds(e, i)' => Holds(e, i) \/ (i \notin minted /\ i \in minted')
  BY <1>1, <1>5 DEF Holds
<1>6. CASE Open(q)
  <2>1. CASE \A k \in {1, 2} : file[e][k] # Absent
    BY <1>4, <1>6, <2>1 DEF Open, disk
  <2>2. CASE ~(\A k \in {1, 2} : file[e][k] # Absent)
    <3>1. PICK j \in Ids \ minted :
              /\ id' = [id EXCEPT ![q] = [first |-> j, second |-> j]]
              /\ minted' = minted \cup {j} /\ file' = file
      BY <1>6, <2>2 DEF Open, disk
    <3> QED
      BY <1>3, <1>5, <3>1
  <2> QED
    BY <2>1, <2>2
<1>7. CASE ReadFirst(q)
  <2>1. file' = file /\ minted' = minted
    BY <1>7 DEF ReadFirst, disk, history
  <2>2. CASE id' = id
    BY <1>4, <2>1, <2>2
  <2>3. ASSUME NEW j \in pem_cert_to_der(file[e][1]),
               id' = [id EXCEPT ![q] = [NoIdentity EXCEPT !.first = j]]
        PROVE  Holds(e, i)' => Holds(e, i)
    <3>1. file[e][1] = Whole(j)
      BY <1>1, <2>3, FileFacts
    <3>2. [NoIdentity EXCEPT !.first = j] = [first |-> j, second |-> Nobody]
      BY DEF NoIdentity
    <3> QED
      BY <1>1, <1>5, <2>1, <2>3, <3>1, <3>2 DEF Holds
  <2> QED
    BY <1>3, <1>7, <2>1, <2>2, <2>3 DEF ReadFirst
<1>8. CASE ReadSecond(q)
  <2>1. file' = file /\ minted' = minted
    BY <1>8 DEF ReadSecond, disk, history
  <2> DEFINE f1 == IF id[q].first = Nobody THEN Cut ELSE Whole(id[q].first)
  <2>2. CASE id' = id
    BY <1>4, <2>1, <2>2
  <2>3. ASSUME NEW r \in from_pem(f1, file[e][2]), id' = [id EXCEPT ![q] = r]
        PROVE  Holds(e, i)' => Holds(e, i)
    <3>1. PICK a \in pem_cert_to_der(f1), b \in pem_cert_to_der(file[e][2]) :
              r = [first |-> a, second |-> b]
      BY <2>3 DEF from_pem
    <3>2. a = id[q].first
      BY <3>1, FilesAre DEF pem_cert_to_der, Cut, Whole
    <3>3. file[e][2] = Whole(b)
      BY <1>1, <3>1, FileFacts
    <3> QED
      BY <1>1, <1>5, <2>1, <2>3, <3>1, <3>2, <3>3 DEF Holds
  <2> QED
    BY <1>3, <1>8, <2>1, <2>2, <2>3 DEF ReadSecond
<1>9. ASSUME NEW k \in {1, 2}, Create(q, k) \/ Write(q, k)
      PROVE  Holds(e, i)' => Holds(e, i)
  <2>1. id' = id
    BY <1>9 DEF Create, Write
  <2>2. PICK f \in {Cut, Whole(id[q].first)} : file' = [file EXCEPT ![e][k] = f]
    BY <1>9 DEF Create, Write
  <2>3. \A j \in {1, 2} : file'[e][j] = file[e][j] \/ file'[e][j] = f
    BY <1>1, <2>2
  <2> QED
    BY <2>1, <2>2, <2>3, FilesAre DEF Holds
<1>10. CASE Kill(q)
  <2>1. file' = file /\ minted' = minted /\ id' = [id EXCEPT ![q] = NoIdentity]
    BY <1>10 DEF Kill, disk, history
  <2> QED
    BY <1>1, <1>3, <1>5, <2>1 DEF NoIdentity
<1>11. CASE \/ LoadTrusted(q) \/ Publish(q) \/ Scan(q) \/ AddedTrusted(q)
            \/ \E m \in Ids : AddTrusted(q, m)
  BY <1>4, <1>11 DEF LoadTrusted, Publish, Scan, AddedTrusted, AddTrusted, disk, history
<1>12. ASSUME NEW k \in {1, 2}, Create(q, k) \/ Write(q, k)
       PROVE  minted' = minted
  BY <1>12 DEF Create, Write, history
<1> QED
  BY <1>3, <1>6, <1>7, <1>8, <1>9, <1>10, <1>11, <1>12 DEF StepOf

\* A step writes only the file of its own identity in the shared directory.
LEMMA SharedStep ==
    ASSUME TypeInv, NEW q \in Procs, StepOf(q), NEW i \in Ids
    PROVE  \/ shared'[i] = shared[i]
           \/ pc[q] \in {"publish", "publishing"} /\ id[q].second = i
<1>1. shared \in [Ids -> File]
  BY DEF TypeInv, StartupTypeOK
<1>2. CASE Publish(q)
  BY <1>1, <1>2 DEF Publish, disk
<1>3. ASSUME NEW k \in {1, 2}, Create(q, k) \/ Write(q, k)
      PROVE  shared' = shared
  BY <1>3 DEF Create, Write
<1>4. CASE \/ Open(q) \/ ReadFirst(q) \/ ReadSecond(q) \/ LoadTrusted(q) \/ Scan(q)
           \/ AddedTrusted(q) \/ Kill(q) \/ \E m \in Ids : AddTrusted(q, m)
  BY <1>4 DEF Open, ReadFirst, ReadSecond, LoadTrusted, Scan, AddedTrusted, Kill,
              AddTrusted, disk
<1> QED
  BY <1>2, <1>3, <1>4 DEF StepOf

\* A process that uses the bootstrap is past it only through its own writes
\* and its listing.
LEMMA OwnBootstrap ==
    ASSUME TypeInv, NEW p \in DevTrust, StepOf(p), Published(p)
    PROVE  /\ Published(p)'
           /\ Listed(p)' => id'[p] = id[p]
           /\ \A i \in Ids \ {id[p].second} :
                 Listed(p)' /\ shared[i] = Whole(i) /\ (Listed(p) => Knows(p, i))
                    => Knows(p, i)'
<1>1. /\ p \in Procs /\ shared \in [Ids -> File] /\ HasIdentity(p)
      /\ DOMAIN pc = Procs /\ pins \in [Procs -> SUBSET Ids] /\ todo \in [Procs -> SUBSET Ids]
      /\ DOMAIN id = Procs
  BY StartupAssumption DEF TypeInv, StartupTypeOK
<1> USE DEF Published, Listed, Knows, Goto
<1>2. CASE pc'[p] \notin {"list", "scan", "up"}
  BY <1>2
<1>3. CASE Publish(p)
  <2>1. id[p].second \in Ids
    BY <1>1, <1>3 DEF Publish, HasIdentity, LoadedStates
  <2> QED
    BY <1>1, <1>3, <2>1, FilesAre DEF Publish, disk
<1>4. CASE Scan(p)
  <2>1. shared' = shared /\ id' = id /\ pc[p] = "scan"
    BY <1>4 DEF Scan, disk
  <2>2. \A i \in Ids : shared[i] = Whole(i) => pem_cert_to_der(shared[i]) = {i}
    BY DEF pem_cert_to_der, Whole
  <2>3. CASE todo[p] = {} /\ pc' = [pc EXCEPT ![p] = "up"] /\ UNCHANGED <<todo, pins>>
    BY <1>1, <2>1, <2>3
  <2>4. ASSUME NEW m \in todo[p],
               todo' = [todo EXCEPT ![p] = @ \ {m}],
               pins' = [pins EXCEPT ![p] = @ \cup pem_cert_to_der(shared[m])],
               pc' = pc
        PROVE  \A i \in Ids : shared[i] = Whole(i) /\ Knows(p, i) => Knows(p, i)'
    BY <1>1, <2>1, <2>2, <2>4
  <2> QED
    BY <1>4, <2>1, <2>3, <2>4 DEF Scan
<1>5. CASE AddedTrusted(p) \/ \E m \in Ids : AddTrusted(p, m)
  BY <1>1, <1>5 DEF AddedTrusted, AddTrusted
<1>6. CASE \/ Open(p) \/ ReadFirst(p) \/ ReadSecond(p) \/ LoadTrusted(p) \/ Kill(p)
  BY <1>1, <1>2, <1>6 DEF Open, ReadFirst, ReadSecond, LoadTrusted, Kill
<1>7. ASSUME NEW k \in {1, 2}, Create(p, k) \/ Write(p, k)
      PROVE  pc'[p] \notin {"list", "scan", "up"}
  BY <1>1, <1>7 DEF Create, Write
<1> QED
  BY <1>2, <1>3, <1>4, <1>5, <1>6, <1>7 DEF StepOf

\* Every step keeps the acquaintance of any two nodes.
LEMMA NextMeet ==
    ASSUME TypeInv, MeetInv, [StartupNext]_svars
    PROVE  MeetInv'
<1>1. CASE UNCHANGED svars
  BY <1>1 DEF svars, disk, memory, history, MeetInv, Apart, Holds, Published, Acquainted,
              Listed, Knows, Alone
<1>2. ASSUME NEW q \in Procs, StepOf(q)
      PROVE  MeetInv'
  <2>1. Own(q)
    BY <1>2, StepIsOwn
  <2>2. DirOf[q] \in Dirs /\ DevTrust \subseteq Procs
    BY DirIs, StartupAssumption
  <2>3. Apart'
    BY <1>2, <2>2, HoldsStep DEF MeetInv, Apart
  <2>4. ASSUME NEW p \in DevTrust \ {q}, Alone(p), pc[p] \in {"list", "scan", "up"}
        PROVE  /\ shared'[id[p].second] = Whole(id[p].second)
               /\ shared[id[p].second] = Whole(id[p].second)
               /\ id[p].second \in Ids
    <3>1. id[p].second \in Ids /\ DirOf[p] \in Dirs /\ DirOf[p] # DirOf[q]
      BY <2>2, <2>4, DirIs DEF TypeInv, HasIdentity, LoadedStates, Alone
    <3>2. Holds(DirOf[p], id[p].second)
      BY <2>2 DEF Holds
    <3>3. id[q].second = id[p].second => Holds(DirOf[q], id[p].second)
      BY DEF Holds
    <3>4. id[q].second # id[p].second
      BY <2>2, <3>1, <3>2, <3>3 DEF MeetInv, Apart
    <3> QED
      BY <1>2, <2>4, <3>1, <3>4, SharedStep DEF MeetInv, Published
  <2>5. ASSUME NEW p \in DevTrust, Alone(p)
        PROVE  Published(p)'
    <3>1. CASE p = q
      BY <1>2, <2>5, <3>1, OwnBootstrap DEF MeetInv
    <3>2. CASE p # q
      BY <2>1, <2>2, <2>4, <2>5, <3>2 DEF Own, Published
    <3> QED
      BY <3>1, <3>2
  <2>6. ASSUME NEW p \in DevTrust, q \in DevTrust, p # q, Alone(p), Alone(q)
        PROVE  Acquainted(p, q)'
    <3> SUFFICES ASSUME Listed(p)', Listed(q)'
                 PROVE  Knows(p, id[q].second)' \/ Knows(q, id[p].second)'
      BY DEF Acquainted
    <3>1. /\ pc'[p] = pc[p] /\ id'[p] = id[p] /\ pins'[p] = pins[p] /\ todo'[p] = todo[p]
      BY <2>1, <2>2, <2>6 DEF Own
    <3>2. Listed(p) /\ shared[id[p].second] = Whole(id[p].second) /\ id[p].second \in Ids
      BY <2>4, <2>6, <3>1 DEF Listed
    <3>3. id'[q] = id[q]
      BY <1>2, <2>6, OwnBootstrap DEF MeetInv
    <3>4. CASE Listed(q) /\ Knows(p, id[q].second)
      BY <3>1, <3>3, <3>4 DEF Knows
    <3>5. CASE Listed(q) => Knows(q, id[p].second)
      <4>1. id[p].second # id[q].second
        <5>1. DirOf[p] # DirOf[q] /\ DirOf[p] \in Dirs
          BY <2>2, <2>6, DirIs DEF Alone
        <5>2. Holds(DirOf[p], id[p].second) /\ Holds(DirOf[q], id[q].second)
          BY <2>2 DEF Holds
        <5> QED
          BY <2>2, <3>2, <5>1, <5>2 DEF MeetInv, Apart
      <4>2. PICK i \in Ids : i = id[p].second
        BY <3>2
      <4>3. Knows(q, i)'
        BY <1>2, <2>6, <3>2, <3>5, <4>1, <4>2, OwnBootstrap DEF MeetInv
      <4> QED
        BY <3>1, <4>2, <4>3 DEF Knows
    <3> QED
      BY <2>6, <3>2, <3>4, <3>5 DEF MeetInv, Acquainted
  <2>7. ASSUME NEW p \in DevTrust, NEW r \in DevTrust, p # r, Alone(p), Alone(r)
        PROVE  Acquainted(p, r)'
    <3>1. CASE r = q
      BY <2>6, <2>7, <3>1
    <3>2. CASE p = q
      <4>1. Acquainted(r, q)'
        BY <2>6, <2>7, <3>2
      <4> QED
        BY <3>2, <4>1 DEF Acquainted
    <3>3. CASE p # q /\ r # q
      BY <2>1, <2>2, <2>7, <3>3 DEF MeetInv, Acquainted, Listed, Knows, Own
    <3> QED
      BY <3>1, <3>2, <3>3
  <2> QED
    BY <2>3, <2>5, <2>7 DEF MeetInv, Alone
<1> QED
  BY <1>1, <1>2 DEF StartupNext, StepOf

\* Nodes that went through the development bootstrap in directories of their
\* own are not strangers, however their writes, listings and kills overlapped
\* (pair-node/src/trust.rs: publish first, then list).
THEOREM BootstrapMeets == StartupSpec => []DevTrustMeets
<1>1. StartupInit => MeetInv
  <2> SUFFICES ASSUME StartupInit
               PROVE  MeetInv
    OBVIOUS
  <2>1. \A i \in Ids, d \in Dirs : ~Holds(d, i)
    <3>1. Nobody \notin Ids
      BY StartupAssumption
    <3>2. \A p \in Procs : id[p].first = Nobody /\ id[p].second = Nobody
      BY DEF StartupInit, NoIdentity
    <3>3. \A d \in Dirs, k \in {1, 2} : file[d][k] = Absent
      BY DEF StartupInit
    <3> QED
      BY <3>1, <3>2, <3>3, FilesAre DEF Holds
  <2>2. \A p \in DevTrust : pc[p] = "off"
    BY StartupAssumption DEF StartupInit
  <2> QED
    BY <2>1, <2>2 DEF MeetInv, Apart, Published, Acquainted, Listed
<1>2. TypeInv /\ MeetInv /\ [StartupNext]_svars => TypeInv' /\ MeetInv'
  BY NextTyped, NextMeet
<1>3. MeetInv => DevTrustMeets
  BY DEF MeetInv, DevTrustMeets, Acquainted, Listed, Knows
<1> QED
  BY <1>1, <1>2, <1>3, InitTyped, PTL DEF StartupSpec

=============================================================================
