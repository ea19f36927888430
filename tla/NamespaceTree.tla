--------------------------- MODULE NamespaceTree ---------------------------
(***************************************************************************)
(* In ordinary use, for any number of inodes, names and records: the       *)
(* inodes in use form a tree between commands, no error is left behind,    *)
(* and every step implements the abstract tree of module Tree.  In any     *)
(* use, fsck brings what is lost back into the tree, and nothing falls out *)
(* of it that was not to be removed.                                       *)
(***************************************************************************)
EXTENDS NamespaceProofs, MCNamespace, FiniteSetTheorems

Plain(n) == n \notin {"", Dot, DotDot}

\* The places of the ordinary records, and what is there.
Spots == {q \in Inodes \X (1 .. MaxItems) : q[2] \in Ordinary(dir[q[1]])}
At(q) == dir[q[1]][q[2]]

\* The records of a directory: itself, its parent, items and free records.
Shaped(i, d) ==
    /\ Len(d) >= 2
    /\ d[1] = Item(Dot, i)
    /\ d[2].name = DotDot /\ d[2].id \in Inodes
    /\ \A k \in 3 .. Len(d) : d[k] = EmptyItem \/ Plain(d[k].name)

\* Directories have records, below a directory, and nothing else has.
Directories ==
    /\ itype[RootId] = "dirc" /\ dir[RootId][2].id = RootId
    /\ itype[cwd] = "dirc"
    /\ \A i \in Inodes :
         /\ ibm[i] <=> itype[i] = "free"
         /\ IF itype[i] = "dirc" THEN Shaped(i, dir[i]) /\ itype[dir[i][2].id] = "dirc"
                                ELSE dir[i] = <<>>

\* An ordinary record names an item in use, and a directory it names has its
\* ".." back.
RecordsKnown ==
    \A q \in Spots :
        /\ At(q).id \in InUse \ {RootId}
        /\ itype[At(q).id] = "dirc" => dir[At(q).id][2].id = q[1]

\* No item has two records but the one mv is moving.
Once ==
    \A q, r \in Spots :
        q # r /\ At(q).id = At(r).id => op.at = "unlink" /\ op.child = At(q).id

\* The item that is made has no record yet, and the one that is freed none any
\* more.
Pending == IF op.at \in {"add", "free"} THEN {op.child} ELSE {}

\* S holds what hangs below the root and, with a directory, what hangs below it.
ClosedBelow(S) == \A q \in Spots : q[1] \in S \union {RootId} => At(q).id \in S

\* Every item hangs below the root.
Rooted ==
    \A S \in SUBSET Inodes :
        ClosedBelow(S) => InUse \ ({RootId} \union Pending) \subseteq S

\* What the command in progress holds.
Making ==
    /\ op.cmd \in {"mkdir", "cp", "incp"}
    /\ Plain(op.name) /\ ~Has(dir[op.par], op.name)
    /\ op.par # op.child /\ itype[op.par] = "dirc"
    /\ IF op.cmd = "mkdir" THEN itype[op.child] = "dirc" /\ dir[op.child][2].id = op.par
                           ELSE itype[op.child] = "file"
PendingKnown ==
    /\ op.child \in Inodes \ {RootId, cwd} /\ itype[op.child] # "free"
    /\ \A q \in Spots : q[1] # op.child /\ At(q).id # op.child
Moving ==
    /\ itype[op.child] = "file" /\ op.child \in Inodes
    /\ \E q, r \in Spots :
         /\ {s \in Spots : At(s).id = op.child} = {q, r}
         /\ q[1] = op.par /\ At(q) = Item(op.name, op.child)
         /\ r[1] # op.par \/ At(r).name # op.name

OpKnown ==
    /\ op.at \in {"idle", "add", "free", "unlink"}
    /\ op.at = "add" => Making /\ PendingKnown
    /\ op.at = "free" => PendingKnown
    /\ op.at = "unlink" => Moving

Whole == IInv /\ ~err /\ Directories /\ RecordsKnown /\ Once /\ Rooted /\ OpKnown

------------------------------------------------------------------------------
(* Places of records                                                       *)

LEMMA DirShape ==
    ASSUME IInv, NEW i \in Inodes
    PROVE  /\ dir[i] \in Seq(Records) /\ Len(dir[i]) \in Nat /\ Len(dir[i]) \in 0 .. MaxItems
           /\ DOMAIN dir[i] = 1 .. Len(dir[i])
           /\ \A k \in DOMAIN dir[i] : dir[i][k] \in Records
  <1>1. dir[i] \in Seq(Records) /\ Len(dir[i]) <= MaxItems
    BY DEF IInv, Dirs
  <1>2. Len(dir[i]) \in Nat /\ DOMAIN dir[i] = 1 .. Len(dir[i]) /\ MaxItems \in Nat
    BY <1>1, LenProperties, NamespaceAssumption
  <1>3. ASSUME NEW k \in DOMAIN dir[i] PROVE dir[i][k] \in Records
    BY <1>1, <1>2, <1>3, ElementOfSeq
  <1> QED
    BY <1>1, <1>2, <1>3

LEMMA OrdinaryIsNumber ==
    ASSUME IInv, NEW i \in Inodes, NEW k \in Ordinary(dir[i])
    PROVE  k \in 1 .. MaxItems /\ k \in Nat /\ k \in 1 .. Len(dir[i])
  <1>1. DOMAIN dir[i] = 1 .. Len(dir[i]) /\ Len(dir[i]) \in 0 .. MaxItems /\ MaxItems \in Nat
    BY DirShape, NamespaceAssumption
  <1>2. k \in DOMAIN dir[i]
    BY DEF Ordinary
  <1> QED
    BY <1>1, <1>2

LEMMA SpotShape ==
    ASSUME IInv, NEW q
    PROVE  q \in Spots <=> /\ \E i \in Inodes, k \in Nat : q = <<i, k>>
                           /\ q[1] \in Inodes /\ q[2] \in Ordinary(dir[q[1]])
  BY OrdinaryIsNumber DEF Spots

LEMMA ReceivedShape ==
    ASSUME NEW d \in Seq(Records), NEW e \in Seq(Records), NEW p \in Nat, NEW r,
           NEW i \in Inodes, Shaped(i, d), Receives(d, e, p, r), Plain(r.name),
           \A k \in Ordinary(d) : d[k].id # NoInode
    PROVE  /\ Shaped(i, e) /\ e[2] = d[2]
           /\ p \notin Ordinary(d) /\ Ordinary(e) = Ordinary(d) \union {p}
           /\ e[p] = r /\ \A k \in Ordinary(d) : e[k] = d[k]
  <1>1. /\ DOMAIN d = 1 .. Len(d) /\ Len(d) \in Nat
        /\ DOMAIN e = 1 .. Len(e) /\ Len(e) \in Nat
    BY LenProperties
  <1>2. Len(d) >= 2 /\ 1 \in DOMAIN d /\ 2 \in DOMAIN d /\ 1 \in DOMAIN e /\ 2 \in DOMAIN e
    BY <1>1 DEF Shaped, Receives
  <1>3. NoInode \notin Inodes
    BY RootIsInode
  <1>4. p # 1 /\ p # 2 /\ p \in 3 .. Len(e)
    <2>1. d[1].id = i /\ d[2].id \in Inodes
      BY DEF Shaped, Item
    <2> QED
      BY <1>1, <1>2, <1>3, <2>1 DEF Receives
  <1>5. e[1] = d[1] /\ e[2] = d[2]
    BY <1>2, <1>4 DEF Receives
  <1>6. ASSUME NEW k \in 3 .. Len(e) PROVE e[k] = EmptyItem \/ Plain(e[k].name)
    <2>1. k \in DOMAIN e /\ (k \in DOMAIN d => k \in 3 .. Len(d))
      BY <1>1
    <2>2. CASE k = p
      BY <2>2 DEF Receives
    <2>3. CASE k # p /\ k \in DOMAIN d
      BY <2>1, <2>3 DEF Receives, Shaped
    <2>4. CASE k # p /\ k \notin DOMAIN d
      BY <2>1, <2>4 DEF Receives
    <2> QED
      BY <2>2, <2>3, <2>4
  <1>7. Shaped(i, e)
    <2>1. Len(e) >= 2
      BY <1>1, <1>2
    <2>2. e[1] = Item(Dot, i) /\ e[2].name = DotDot /\ e[2].id \in Inodes
      BY <1>5 DEF Shaped
    <2> QED
      BY <1>6, <2>1, <2>2 DEF Shaped
  <1>8. p \notin Ordinary(d) /\ p \in Ordinary(e)
    BY DEF Receives, Plain, Ordinary
  <1>9. ASSUME NEW k, k # p PROVE k \in Ordinary(e) <=> k \in Ordinary(d)
    <2>1. EmptyItem.name = ""
      BY DEF EmptyItem
    <2> QED
      BY <1>9, <2>1 DEF Receives, Ordinary
  <1>10. \A k \in Ordinary(d) : e[k] = d[k]
    BY <1>8 DEF Receives, Ordinary
  <1> QED
    BY <1>5, <1>7, <1>8, <1>9, <1>10 DEF Receives

LEMMA DeletedShape ==
    ASSUME NEW d \in Seq(Records), NEW i \in Inodes, Shaped(i, d), NEW r, NEW k,
           Plain(r.name), Matches(d, r) = {k}
    PROVE  /\ Shaped(i, Deleted(d, r)) /\ Deleted(d, r)[2] = d[2]
           /\ k \in Ordinary(d) /\ Ordinary(Deleted(d, r)) = Ordinary(d) \ {k}
           /\ \A m \in Ordinary(d) \ {k} : Deleted(d, r)[m] = d[m]
  <1> DEFINE e == [d EXCEPT ![k] = EmptyItem]
  <1>1. DOMAIN d = 1 .. Len(d) /\ Len(d) \in Nat
    BY LenProperties
  <1>2. k \in DOMAIN d /\ d[k] = r /\ k \in Nat
    BY <1>1 DEF Matches
  <1>3. Min(Matches(d, r)) = k
    BY <1>2, MinIsLeast
  <1>4. Deleted(d, r) = e
    BY <1>3 DEF Deleted
  <1>5. e \in Seq(Records) /\ Len(e) = Len(d) /\ DOMAIN e = DOMAIN d
    BY <1>1, <1>2, ExceptSeq, EmptyItemIsRecord, LenProperties
  <1>6. e[k] = EmptyItem /\ \A m \in DOMAIN d \ {k} : e[m] = d[m]
    BY <1>2
  <1> HIDE DEF e
  <1>7. k # 1 /\ k # 2 /\ k \in Ordinary(d)
    <2>1. d[1].name = Dot /\ d[2].name = DotDot
      BY DEF Shaped, Item
    <2> QED
      BY <1>2, <2>1 DEF Plain, Ordinary
  <1>8. Len(d) >= 2 /\ 1 \in DOMAIN d /\ 2 \in DOMAIN d
    BY <1>1 DEF Shaped
  <1>9. e[1] = d[1] /\ e[2] = d[2]
    BY <1>6, <1>7, <1>8
  <1>10. \A m \in 3 .. Len(e) : e[m] = EmptyItem \/ Plain(e[m].name)
    BY <1>1, <1>5, <1>6 DEF Shaped
  <1>11. Shaped(i, e)
    <2>1. Len(e) >= 2 /\ e[1] = Item(Dot, i) /\ e[2].name = DotDot /\ e[2].id \in Inodes
      BY <1>5, <1>8, <1>9 DEF Shaped
    <2> QED
      BY <1>10, <2>1 DEF Shaped
  <1>12. Ordinary(e) = Ordinary(d) \ {k}
    <2>1. EmptyItem.name = ""
      BY DEF EmptyItem
    <2> QED
      BY <1>5, <1>6, <2>1 DEF Ordinary
  <1>13. \A m \in Ordinary(d) \ {k} : e[m] = d[m]
    BY <1>6 DEF Ordinary
  <1> QED
    BY <1>4, <1>7, <1>9, <1>11, <1>12, <1>13

------------------------------------------------------------------------------
(* What a step does to the records: one more, one less, or nothing         *)

\* The record r is new at q, and every other is as it was.
GainsAt(q, r) ==
    /\ q \notin Spots /\ Spots' = Spots \union {q}
    /\ At(q)' = r /\ \A s \in Spots : At(s)' = At(s)

\* The record at q is gone, and every other is as it was.
LosesAt(q) ==
    /\ q \in Spots /\ Spots' = Spots \ {q}
    /\ \A s \in Spots \ {q} : At(s)' = At(s)

SameRecords == Spots' = Spots /\ \A s \in Spots : At(s)' = At(s)

\* Directories keep their heads.
SameHeads ==
    \A i \in Inodes : itype[i] = "dirc" =>
        Shaped(i, dir'[i]) /\ dir'[i][2] = dir[i][2]

LEMMA ReceivedGains ==
    ASSUME IInv, IInv', Directories, RecordsKnown, NEW p \in Inodes, itype[p] = "dirc",
           NEW r, Plain(r.name), NEW k \in Nat, NEW e, Receives(dir[p], e, k, r),
           dir' = [dir EXCEPT ![p] = e]
    PROVE  /\ GainsAt(<<p, k>>, r) /\ SameHeads
           /\ \A i \in Inodes \ {p} : dir'[i] = dir[i]
  <1>1. dir'[p] = e /\ \A i \in Inodes \ {p} : dir'[i] = dir[i]
    BY DEF IInv
  <1>2. dir[p] \in Seq(Records) /\ e \in Seq(Records)
    <2>1. dir'[p] \in Dirs /\ dir[p] \in Dirs
      BY DEF IInv
    <2> QED
      BY <1>1, <2>1 DEF Dirs
  <1>3. Shaped(p, dir[p])
    BY DEF Directories
  <1>4. \A m \in Ordinary(dir[p]) : dir[p][m].id # NoInode
    <2> SUFFICES ASSUME NEW m \in Ordinary(dir[p]) PROVE dir[p][m].id # NoInode
      OBVIOUS
    <2>1. m \in Nat
      BY OrdinaryIsNumber
    <2>2. <<p, m>> \in Spots
      BY <2>1, SpotShape
    <2>3. At(<<p, m>>).id \in Inodes
      BY <2>2 DEF RecordsKnown, InUse
    <2> QED
      BY <2>3, RootIsInode DEF At
  <1>5. /\ Shaped(p, e) /\ e[2] = dir[p][2]
        /\ k \notin Ordinary(dir[p]) /\ Ordinary(e) = Ordinary(dir[p]) \union {k}
        /\ e[k] = r /\ \A m \in Ordinary(dir[p]) : e[m] = dir[p][m]
    BY <1>2, <1>3, <1>4, ReceivedShape
  <1>6. \A q : q \in Spots' <=> /\ \E i \in Inodes, m \in Nat : q = <<i, m>>
                                /\ q[1] \in Inodes /\ q[2] \in Ordinary(dir'[q[1]])
    <2>1. ASSUME NEW i \in Inodes, NEW m \in Ordinary(dir'[i]) PROVE m \in 1 .. MaxItems /\ m \in Nat
      <3>1. dir'[i] \in Seq(Records) /\ Len(dir'[i]) <= MaxItems
        BY DEF IInv, Dirs
      <3>2. DOMAIN dir'[i] = 1 .. Len(dir'[i]) /\ Len(dir'[i]) \in Nat /\ MaxItems \in Nat
        BY <3>1, LenProperties, NamespaceAssumption
      <3>3. m \in DOMAIN dir'[i]
        BY DEF Ordinary
      <3> QED
        BY <3>1, <3>2, <3>3
    <2> QED
      BY <2>1 DEF Spots
  <1>7. <<p, k>> \notin Spots
    BY <1>5, SpotShape
  <1>8. Spots' = Spots \union {<<p, k>>}
    <2>1. ASSUME NEW q, q \in Spots' PROVE q \in Spots \union {<<p, k>>}
      <3>1. PICK i \in Inodes, m \in Nat : q = <<i, m>> /\ m \in Ordinary(dir'[i])
        BY <1>6, <2>1
      <3>2. CASE i = p
        BY <1>1, <1>5, <3>1, <3>2, SpotShape
      <3>3. CASE i # p
        BY <1>1, <3>1, <3>3, SpotShape
      <3> QED
        BY <3>2, <3>3
    <2>2. ASSUME NEW q, q \in Spots PROVE q \in Spots'
      <3>1. PICK i \in Inodes, m \in Nat : q = <<i, m>> /\ m \in Ordinary(dir[i])
        BY <2>2, SpotShape
      <3>2. m \in Ordinary(dir'[i])
        BY <1>1, <1>5, <3>1
      <3> QED
        BY <1>6, <3>1, <3>2
    <2>3. <<p, k>> \in Spots'
      BY <1>1, <1>5, <1>6
    <2> QED
      BY <2>1, <2>2, <2>3
  <1>9. \A s \in Spots : At(s)' = At(s)
    <2> SUFFICES ASSUME NEW s \in Spots PROVE dir'[s[1]][s[2]] = dir[s[1]][s[2]]
      BY DEF At
    <2>1. s[1] \in Inodes /\ s[2] \in Ordinary(dir[s[1]])
      BY SpotShape
    <2> QED
      BY <1>1, <1>5, <2>1
  <1>10. At(<<p, k>>)' = r
    BY <1>1, <1>5 DEF At
  <1>11. SameHeads
    <2> SUFFICES ASSUME NEW i \in Inodes, itype[i] = "dirc"
                 PROVE  Shaped(i, dir'[i]) /\ dir'[i][2] = dir[i][2]
      BY DEF SameHeads
    <2>1. CASE i = p
      BY <1>1, <1>5, <2>1
    <2>2. CASE i # p
      BY <1>1, <2>2 DEF Directories
    <2> QED
      BY <2>1, <2>2
  <1> QED
    BY <1>1, <1>7, <1>8, <1>9, <1>10, <1>11 DEF GainsAt

\* add_block_item() or add_to_parent() puts one record into a directory.
LEMMA RecordGained ==
    ASSUME IInv, IInv', Directories, RecordsKnown, NEW p \in Inodes, itype[p] = "dirc",
           NEW r \in Records, Plain(r.name),
           \/ HasPlace(dir[p]) /\ dir' = [dir EXCEPT ![p] = Added(dir[p], r)]
           \/ dir' = [dir EXCEPT ![p] = Grown(dir[p], r)]
    PROVE  /\ \E q : q[1] = p /\ GainsAt(q, r)
           /\ SameHeads /\ \A i \in Inodes \ {p} : dir'[i] = dir[i]
  <1>1. dir[p] \in Seq(Records)
    BY DEF IInv, Dirs
  <1>2. PICK k, e : k \in Nat /\ Receives(dir[p], e, k, r) /\ dir' = [dir EXCEPT ![p] = e]
    <2>1. CASE HasPlace(dir[p]) /\ dir' = [dir EXCEPT ![p] = Added(dir[p], r)]
      BY <1>1, <2>1, AddedReceives
    <2>2. CASE dir' = [dir EXCEPT ![p] = Grown(dir[p], r)]
      BY <1>1, <2>2, GrownReceives
    <2> QED
      BY <2>1, <2>2
  <1>3. /\ GainsAt(<<p, k>>, r) /\ SameHeads
        /\ \A i \in Inodes \ {p} : dir'[i] = dir[i]
    BY <1>2, ReceivedGains
  <1>4. <<p, k>>[1] = p
    OBVIOUS
  <1> QED
    BY <1>3, <1>4

\* delete_block_item() takes one away.
LEMMA RecordLost ==
    ASSUME IInv, IInv', Directories, NEW q \in Spots, itype[q[1]] = "dirc",
           \A s \in Spots : s[1] = q[1] /\ At(s) = At(q) => s = q,
           dir' = [dir EXCEPT ![q[1]] = Deleted(@, At(q))]
    PROVE  LosesAt(q) /\ SameHeads /\ \A i \in Inodes \ {q[1]} : dir'[i] = dir[i]
  <1>1. PICK p \in Inodes, k \in Nat : q = <<p, k>> /\ k \in Ordinary(dir[p])
    BY SpotShape
  <1> DEFINE r == At(q)
             e == Deleted(dir[p], r)
  <1>2. r = dir[p][k]
    BY <1>1 DEF At
  <1>3. dir'[p] = e /\ \A i \in Inodes \ {p} : dir'[i] = dir[i]
    BY <1>1 DEF IInv
  <1>4. Shaped(p, dir[p]) /\ dir[p] \in Seq(Records)
    BY <1>1 DEF Directories, IInv, Dirs
  <1>5. Plain(r.name)
    BY <1>1, <1>2 DEF Ordinary, Plain
  <1>6. Matches(dir[p], r) = {k}
    <2>1. k \in DOMAIN dir[p]
      BY <1>1 DEF Ordinary
    <2>2. ASSUME NEW m \in DOMAIN dir[p], dir[p][m] = r PROVE m = k
      <3>1. m \in Ordinary(dir[p]) /\ m \in Nat
        <4>1. m \in Ordinary(dir[p])
          BY <1>5, <2>2 DEF Ordinary, Plain
        <4> QED
          BY <4>1, OrdinaryIsNumber
      <3>2. <<p, m>> \in Spots /\ At(<<p, m>>) = r /\ <<p, m>>[1] = q[1]
        BY <1>1, <2>2, <3>1, SpotShape DEF At
      <3> HIDE DEF r
      <3>3. <<p, m>> = q
        BY <3>2 DEF r
      <3> QED
        BY <1>1, <3>3
    <2> QED
      BY <1>2, <2>1, <2>2 DEF Matches
  <1> HIDE DEF r
  <1>7. /\ Shaped(p, e) /\ e[2] = dir[p][2]
        /\ k \in Ordinary(dir[p]) /\ Ordinary(e) = Ordinary(dir[p]) \ {k}
        /\ \A m \in Ordinary(dir[p]) \ {k} : e[m] = dir[p][m]
    BY <1>4, <1>5, <1>6, DeletedShape
  <1> HIDE DEF e
  <1>8. Spots' = Spots \ {q}
    <2>1. \A i \in Inodes : Ordinary(dir'[i]) = IF i = p THEN Ordinary(dir[i]) \ {k}
                                                ELSE Ordinary(dir[i])
      <3> TAKE i \in Inodes
      <3>1. CASE i = p
        BY <1>3, <1>7, <3>1
      <3>2. CASE i # p
        BY <1>3, <3>2
      <3> QED
        BY <3>1, <3>2
    <2>2. ASSUME NEW s, s \in Spots' PROVE s \in Spots \ {q}
      <3>1. PICK i \in Inodes, m \in 1 .. MaxItems : s = <<i, m>> /\ m \in Ordinary(dir'[i])
        BY <2>2 DEF Spots
      <3>2. m \in IF i = p THEN Ordinary(dir[i]) \ {k} ELSE Ordinary(dir[i])
        BY <2>1, <3>1, Zenon
      <3>3. m \in Ordinary(dir[i]) /\ (i # p \/ m # k)
        BY <3>2
      <3> QED
        BY <1>1, <3>1, <3>3 DEF Spots
    <2>3. ASSUME NEW s, s \in Spots \ {q} PROVE s \in Spots'
      <3>1. PICK i \in Inodes, m \in 1 .. MaxItems : s = <<i, m>> /\ m \in Ordinary(dir[i])
        BY <2>3 DEF Spots
      <3>2. i # p \/ m # k
        BY <1>1, <2>3, <3>1
      <3>3. m \in IF i = p THEN Ordinary(dir[i]) \ {k} ELSE Ordinary(dir[i])
        BY <3>1, <3>2
      <3>4. m \in Ordinary(dir'[i])
        BY <2>1, <3>3, Zenon
      <3> QED
        BY <3>1, <3>4 DEF Spots
    <2> QED
      BY <1>1, <2>2, <2>3, SpotShape
  <1>9. \A s \in Spots \ {q} : At(s)' = At(s)
    <2> SUFFICES ASSUME NEW s \in Spots \ {q} PROVE dir'[s[1]][s[2]] = dir[s[1]][s[2]]
      BY DEF At
    <2>1. PICK i \in Inodes, m \in Nat : s = <<i, m>> /\ m \in Ordinary(dir[i])
      BY SpotShape
    <2>2. CASE i = p
      BY <1>1, <1>3, <1>7, <2>1, <2>2
    <2>3. CASE i # p
      BY <1>3, <2>1, <2>3
    <2> QED
      BY <2>2, <2>3
  <1>10. SameHeads
    <2> SUFFICES ASSUME NEW i \in Inodes, itype[i] = "dirc"
                 PROVE  Shaped(i, dir'[i]) /\ dir'[i][2] = dir[i][2]
      BY DEF SameHeads
    <2>1. CASE i = p
      BY <1>3, <1>7, <2>1
    <2>2. CASE i # p
      BY <1>3, <2>2 DEF Directories
    <2> QED
      BY <2>1, <2>2
  <1> QED
    BY <1>1, <1>3, <1>8, <1>9, <1>10 DEF LosesAt

LEMMA RecordsStay ==
    ASSUME \A i \in Inodes : dir'[i] = dir[i] \/ (Ordinary(dir[i]) = {} /\ Ordinary(dir'[i]) = {})
    PROVE  SameRecords
  <1>1. \A i \in Inodes : Ordinary(dir'[i]) = Ordinary(dir[i])
    OBVIOUS
  <1>2. Spots' = Spots
    BY <1>1 DEF Spots
  <1>3. \A s \in Spots : At(s)' = At(s)
    BY DEF Spots, At
  <1> QED
    BY <1>2, <1>3 DEF SameRecords

------------------------------------------------------------------------------
(* What paths lead to                                                      *)

InTree == IInv /\ Directories /\ RecordsKnown

LEMMA HoldersAreDirectories ==
    ASSUME IInv, Directories, NEW q \in Spots
    PROVE  q[1] \in Inodes /\ itype[q[1]] = "dirc"
  <1>1. q[1] \in Inodes /\ q[2] \in Ordinary(dir[q[1]])
    BY SpotShape
  <1>2. dir[q[1]] # <<>>
    <2>1. DOMAIN <<>> = {}
      OBVIOUS
    <2> QED
      BY <1>1, <2>1 DEF Ordinary
  <1> QED
    BY <1>1, <1>2 DEF Directories

\* A record that names an inode is ".", "..", or ordinary.
LEMMA RecordKinds ==
    ASSUME InTree, NEW i \in Inodes, NEW k \in DOMAIN dir[i], dir[i][k].id # NoInode
    PROVE  /\ itype[i] = "dirc" /\ k \in Nat
           /\ dir[i][k] = Item(dir[i][k].name, dir[i][k].id)
           /\ dir[i][k].id \in InUse
           /\ dir[i][k].name # ""
           /\ Plain(dir[i][k].name) => <<i, k>> \in Spots
           /\ ~Plain(dir[i][k].name) => itype[dir[i][k].id] = "dirc"
  <1>1. itype[i] = "dirc" /\ Shaped(i, dir[i]) /\ itype[dir[i][2].id] = "dirc"
    <2>1. DOMAIN <<>> = {}
      OBVIOUS
    <2> QED
      BY <2>1 DEF Directories, InTree
  <1>2. /\ DOMAIN dir[i] = 1 .. Len(dir[i]) /\ Len(dir[i]) \in Nat
        /\ dir[i][k] \in Records
    BY DirShape DEF InTree
  <1>3. dir[i][k] = Item(dir[i][k].name, dir[i][k].id)
    BY <1>2 DEF Records, Item
  <1>4. CASE k = 1
    <2>1. dir[i][k].id = i /\ dir[i][k].name = Dot
      BY <1>1, <1>4 DEF Shaped, Item
    <2> QED
      BY <1>1, <1>3, <1>4, <2>1 DEF InUse, Dot, Plain
  <1>5. CASE k = 2
    <2>1. dir[i][k].id \in Inodes /\ dir[i][k].name = DotDot
      BY <1>1, <1>5 DEF Shaped
    <2> QED
      BY <1>1, <1>3, <1>5, <2>1 DEF InUse, DotDot, Plain
  <1>6. CASE k \in 3 .. Len(dir[i])
    <2>1. EmptyItem.id = NoInode
      BY DEF EmptyItem
    <2>2. Plain(dir[i][k].name)
      BY <1>1, <1>6, <2>1 DEF Shaped
    <2>3. k \in Ordinary(dir[i]) /\ k \in Nat
      <3>1. k \in Nat
        BY <1>2, <1>6
      <3> QED
        BY <2>2, <3>1 DEF Plain, Ordinary
    <2>4. <<i, k>> \in Spots
      BY <2>3, SpotShape DEF InTree
    <2>5. At(<<i, k>>) = dir[i][k]
      BY DEF At
    <2>6. dir[i][k].id \in InUse
      BY <2>4, <2>5 DEF InTree, RecordsKnown
    <2> QED
      BY <1>1, <1>3, <2>2, <2>3, <2>4, <2>6 DEF Plain
  <1>7. k \in Nat /\ (k = 1 \/ k = 2 \/ k \in 3 .. Len(dir[i]))
    BY <1>2
  <1> QED
    BY <1>4, <1>5, <1>6, <1>7

LEMMA EntriesInUse ==
    ASSUME InTree, NEW S \in SUBSET InUse
    PROVE  Entries(S) \subseteq InUse
  <1>1. ASSUME NEW i \in S, NEW k \in DOMAIN dir[i], dir[i][k].id # NoInode
        PROVE  dir[i][k].id \in InUse
    <2>1. i \in Inodes
      BY DEF InUse
    <2> QED
      BY <1>1, <2>1, RecordKinds
  <1> SUFFICES ASSUME NEW e, e \in Entries(S) PROVE e \in InUse
    OBVIOUS
  <1> DEFINE D == {{dir[i][k].id : k \in DOMAIN dir[i]} : i \in S}
  <1>5. e \in UNION D /\ e # NoInode
    BY DEF Entries
  <1>2. e # NoInode /\ \E d \in D : e \in d
    BY <1>5
  <1>3. PICK i \in S : e \in {dir[i][k].id : k \in DOMAIN dir[i]}
    BY <1>2
  <1>4. PICK k \in DOMAIN dir[i] : e = dir[i][k].id
    BY <1>3
  <1> QED
    BY <1>1, <1>2, <1>4

LEMMA WalkInUse ==
    ASSUME InTree, NEW S \in SUBSET InUse
    PROVE  Walk(S) \subseteq InUse
  <1> DEFINE N == InodeCount
             X == SUBSET InUse
             Step == [n \in 1 .. N |-> [w \in X |-> w \union Entries(w)]]
             Is(f) == f = [k \in 0 .. N |-> IF k = 0 THEN S
                                            ELSE LET w == f[k - 1] IN w \union Entries(w)]
             W == CHOOSE f : Is(f)
  <1>1. N \in Nat
    BY NamespaceAssumption
  <1>2. PICK g \in [0 .. N -> X] : g[0] = S /\ \A n \in 1 .. N : g[n] = Step[n][g[n - 1]]
    <2>1. Step \in [1 .. N -> [X -> X]]
      BY EntriesInUse
    <2>2. S \in X
      OBVIOUS
    <2> HIDE DEF N, Step, X
    <2>3. Recursion(N, X, S, Step) # {}
      BY <1>1, <2>1, <2>2, RecursionExists
    <2> QED
      BY <2>3 DEF Recursion
  <1>3. \A n \in 1 .. N : g[n] = g[n - 1] \union Entries(g[n - 1])
    <2> SUFFICES ASSUME NEW n \in 1 .. N PROVE g[n] = g[n - 1] \union Entries(g[n - 1])
      OBVIOUS
    <2>1. n - 1 \in 0 .. N
      BY <1>1
    <2>2. g[n - 1] \in X
      BY <2>1
    <2> QED
      BY <1>2, <2>2
  <1>4. Is(g)
    <2>1. g = [k \in 0 .. N |-> g[k]]
      OBVIOUS
    <2>2. \A k \in 0 .. N : g[k] = IF k = 0 THEN S ELSE g[k - 1] \union Entries(g[k - 1])
      BY <1>1, <1>2, <1>3
    <2> QED
      BY <2>1, <2>2
  <1>5. Is(W)
    <2> HIDE DEF Is
    <2> QED
      BY <1>4
  <1>6. Walk(S) = Inodes \intersect W[N]
    BY DEF Walk
  <1>7. W[0] = S /\ \A n \in 1 .. N : W[n] = W[n - 1] \union Entries(W[n - 1])
    <2> HIDE DEF W
    <2>1. W = [k \in 0 .. N |-> IF k = 0 THEN S ELSE W[k - 1] \union Entries(W[k - 1])]
      BY <1>5
    <2>2. 0 \in 0 .. N /\ \A n \in 1 .. N : n \in 0 .. N /\ n # 0
      BY <1>1
    <2> HIDE DEF N
    <2> QED
      BY <2>1, <2>2, Zenon
  <1>8. W[N] \in X
    <2> DEFINE G == {n \in 0 .. N : W[n] \in X}
    <2> HIDE DEF W
    <2>2. 0 \in G
      BY <1>1, <1>7
    <2>3. ASSUME NEW n \in 0 .. N - 1, n \in G PROVE n + 1 \in G
      <3>1. n + 1 \in 1 .. N /\ (n + 1) - 1 = n
        BY <1>1
      <3>2. W[n + 1] = W[n] \union Entries(W[n])
        BY <1>7, <3>1
      <3> QED
        BY <2>3, <3>1, <3>2, EntriesInUse
    <2> HIDE DEF G
    <2>4. 0 .. N \subseteq G
      BY <1>1, <2>2, <2>3, SetInduction
    <2>5. N \in G
      BY <1>1, <2>4
    <2> QED
      BY <2>5 DEF G
  <1> QED
    BY <1>6, <1>8

\* A path to an existing item leads to one of its records, in a directory.
LEMMA FoundRecord ==
    ASSUME InTree, NEW f \in Found
    PROVE  /\ f.par \in Inodes /\ itype[f.par] = "dirc" /\ f.id \in InUse
           /\ Plain(f.name) => \E q \in Spots : q[1] = f.par /\ At(q) = Item(f.name, f.id)
           /\ ~Plain(f.name) => itype[f.id] = "dirc"
           /\ f.name # ""
  <1>1. PICK p \in Walked, n \in UNION {NamesIn(i) : i \in Walked} :
          f = [par |-> p, name |-> n,
               id |-> IF Has(dir[p], n) THEN IdOf(dir[p], n) ELSE NoInode]
    BY DEF Found
  <1>2. f.id # NoInode
    BY DEF Found
  <1>3. f.par = p /\ f.name = n /\ Has(dir[p], n) /\ f.id = IdOf(dir[p], n)
    BY <1>1, <1>2
  <1>4. p \in Inodes
    BY PathsAreInodes
  <1> DEFINE k == Min(Named(dir[p], n))
  <1>5. k \in Named(dir[p], n)
    <2>1. Named(dir[p], n) \subseteq Nat
      <3>1. DOMAIN dir[p] = 1 .. Len(dir[p])
        BY <1>4, DirShape DEF InTree
      <3> QED
        BY <3>1 DEF Named
    <2> QED
      BY <1>3, <2>1, MinIsLeast DEF Has
  <1>6. f.id = dir[p][k].id
    BY <1>3 DEF IdOf
  <1> HIDE DEF k
  <1>7. k \in DOMAIN dir[p] /\ dir[p][k].name = n
    BY <1>5 DEF Named
  <1>8. /\ itype[p] = "dirc" /\ k \in Nat /\ dir[p][k] = Item(n, f.id)
        /\ f.id \in InUse /\ n # ""
        /\ Plain(n) => <<p, k>> \in Spots
        /\ ~Plain(n) => itype[f.id] = "dirc"
    BY <1>2, <1>4, <1>6, <1>7, RecordKinds
  <1>9. <<p, k>>[1] = p /\ At(<<p, k>>) = dir[p][k]
    BY DEF At
  <1> QED
    BY <1>3, <1>4, <1>8, <1>9

\* A new item goes into a directory, under a name it does not have.
LEMMA PathsLeadToDirectories ==
    ASSUME InTree, NEW p \in DirPaths, itype[p] # "file"
    PROVE  p \in Inodes /\ itype[p] = "dirc"
  <1>1. RootId \in InUse /\ cwd \in InUse
    BY RootIsInode DEF InTree, Directories, InUse, IInv
  <1>2. {RootId} \union Entries({cwd}) \in SUBSET InUse
    <2>1. {cwd} \in SUBSET InUse
      BY <1>1
    <2> QED
      BY <1>1, <2>1, EntriesInUse
  <1>3. p \in InUse
    BY <1>2, WalkInUse DEF DirPaths
  <1> QED
    BY <1>3 DEF InUse, InTree, IInv

LEMMA DestsLeadToDirectories ==
    ASSUME InTree, NEW n, NEW t \in Dests(n), itype[t.par] # "file"
    PROVE  t.par \in Inodes /\ itype[t.par] = "dirc" /\ (t.name = n \/ t.name \in Names)
  <1>1. RootId \in Inodes /\ itype[RootId] = "dirc"
    BY RootIsInode DEF InTree, Directories
  <1>2. CASE t \in {[par |-> f.id, name |-> n] : f \in Found}
    <2>1. PICK f \in Found : t = [par |-> f.id, name |-> n]
      BY <1>2
    <2>2. f.id \in InUse
      BY FoundRecord
    <2> QED
      BY <2>1, <2>2 DEF InUse, InTree, IInv
  <1>3. CASE t = [par |-> RootId, name |-> n]
    BY <1>1, <1>3
  <1>4. CASE t \in [par : DirPaths, name : Names]
    BY <1>4, PathsLeadToDirectories
  <1> QED
    BY <1>2, <1>3, <1>4 DEF Dests

LEMMA HeadsAreNamed ==
    ASSUME InTree, NEW p \in Inodes, itype[p] = "dirc"
    PROVE  /\ 1 \in DOMAIN dir[p] /\ dir[p][1].name = Dot
           /\ 2 \in DOMAIN dir[p] /\ dir[p][2].name = DotDot
  <1>1. DOMAIN dir[p] = 1 .. Len(dir[p]) /\ Len(dir[p]) \in Nat
    BY DirShape DEF InTree
  <1>2. Shaped(p, dir[p])
    BY DEF InTree, Directories
  <1>3. Len(dir[p]) >= 2 /\ dir[p][1] = Item(Dot, p) /\ dir[p][2].name = DotDot
    BY <1>2 DEF Shaped
  <1>4. 1 \in DOMAIN dir[p] /\ 2 \in DOMAIN dir[p]
    BY <1>1, <1>3
  <1> QED
    BY <1>3, <1>4 DEF Item

\* A name that is not in a directory is not one of ".", "..".
LEMMA FreshIsPlain ==
    ASSUME InTree, NEW p \in Inodes, itype[p] = "dirc", NEW n, n # "", ~Has(dir[p], n)
    PROVE  Plain(n)
  BY HeadsAreNamed DEF Has, Named, Plain

------------------------------------------------------------------------------
(* Climbing to the root                                                    *)

\* Every directory is named by the directory its ".." names.
LEMMA ClimbSucceeds ==
    ASSUME InTree,
           \A j \in Inodes \ {RootId} : itype[j] = "dirc" => HasId(dir[dir[j][2].id], j),
           NEW i \in Inodes, itype[i] = "dirc"
    PROVE  ClimbFrom(i) \in {"root", "cut"}
  <1> DEFINE N == InodeCount
             Ends == {c \in [Inodes -> {"root", "cut", "junk", "lost"}] :
                        \A j \in Inodes : itype[j] = "dirc" => c[j] \in {"root", "cut"}}
             First == [j \in Inodes |-> IF j = RootId THEN "root" ELSE "cut"]
             Above(c) == [j \in Inodes |->
                           IF j = RootId THEN "root"
                           ELSE IF Len(dir[j]) < 2 \/ dir[j][2].id = NoInode THEN "junk"
                           ELSE IF ~HasId(dir[dir[j][2].id], j) THEN "lost"
                           ELSE c[dir[j][2].id]]
             Step == [n \in 1 .. N |-> [c \in Ends |-> Above(c)]]
             Is(f) == f = [k \in 0 .. N |->
                            [j \in Inodes |->
                               IF j = RootId THEN "root"
                               ELSE IF k = 0 THEN "cut"
                               ELSE IF Len(dir[j]) < 2 \/ dir[j][2].id = NoInode THEN "junk"
                               ELSE IF ~HasId(dir[dir[j][2].id], j) THEN "lost"
                               ELSE f[k - 1][dir[j][2].id]]]
             C == CHOOSE f : Is(f)
  <1>1. N \in Nat
    BY NamespaceAssumption
  <1>2. ASSUME NEW c \in Ends PROVE Above(c) \in Ends
    <2>1. ASSUME NEW j \in Inodes
          PROVE  /\ Above(c)[j] \in {"root", "cut", "junk", "lost"}
                 /\ itype[j] = "dirc" => Above(c)[j] \in {"root", "cut"}
      <3>1. CASE j = RootId
        BY <3>1
      <3>2. CASE j # RootId /\ (Len(dir[j]) < 2 \/ dir[j][2].id = NoInode)
        <4>1. itype[j] # "dirc"
          BY <3>2, RootIsInode, DirShape DEF InTree, Directories, Shaped
        <4> QED
          BY <3>2, <4>1
      <3>3. CASE j # RootId /\ ~(Len(dir[j]) < 2 \/ dir[j][2].id = NoInode)
        <4>1. itype[j] = "dirc"
          <5>1. Len(<<>>) = 0
            OBVIOUS
          <5> QED
            BY <3>3, <5>1 DEF InTree, Directories
        <4>2. dir[j][2].id \in Inodes /\ itype[dir[j][2].id] = "dirc"
          BY <4>1 DEF InTree, Directories, Shaped
        <4>3. Above(c)[j] = c[dir[j][2].id]
          BY <3>3, <4>1
        <4> QED
          BY <4>2, <4>3
      <3> QED
        BY <3>1, <3>2, <3>3
    <2>2. Above(c) = [j \in Inodes |-> Above(c)[j]]
      OBVIOUS
    <2> HIDE DEF Above
    <2> QED
      BY <2>1, <2>2
  <1>3. First \in Ends
    OBVIOUS
  <1>4. PICK g \in [0 .. N -> Ends] : g[0] = First /\ \A n \in 1 .. N : g[n] = Step[n][g[n - 1]]
    <2>1. Step \in [1 .. N -> [Ends -> Ends]]
      <3> HIDE DEF Ends, Above
      <3> QED
        BY <1>2
    <2> HIDE DEF N, Step, Ends, First
    <2>2. Recursion(N, Ends, First, Step) # {}
      BY <1>1, <1>3, <2>1, RecursionExists
    <2> QED
      BY <2>2 DEF Recursion
  <1>5. \A n \in 1 .. N : g[n] = Above(g[n - 1])
    <2> SUFFICES ASSUME NEW n \in 1 .. N PROVE g[n] = Above(g[n - 1])
      OBVIOUS
    <2>1. n - 1 \in 0 .. N
      BY <1>1
    <2> HIDE DEF Ends, Above
    <2>2. g[n - 1] \in Ends
      BY <1>4, <2>1
    <2> QED
      BY <1>4, <2>2
  <1>6. Is(g)
    <2>1. \A k \in 0 .. N : g[k] =
             [j \in Inodes |->
                IF j = RootId THEN "root"
                ELSE IF k = 0 THEN "cut"
                ELSE IF Len(dir[j]) < 2 \/ dir[j][2].id = NoInode THEN "junk"
                ELSE IF ~HasId(dir[dir[j][2].id], j) THEN "lost"
                ELSE g[k - 1][dir[j][2].id]]
      <3> TAKE k \in 0 .. N
      <3>1. CASE k = 0
        BY <1>4, <3>1
      <3>2. CASE k # 0
        <4>1. k \in 1 .. N
          BY <1>1, <3>2
        <4>2. g[k] = Above(g[k - 1])
          BY <1>5, <4>1
        <4> QED
          BY <3>2, <4>2
      <3> QED
        BY <3>1, <3>2
    <2>2. g = [k \in 0 .. N |-> g[k]]
      OBVIOUS
    <2> QED
      BY <2>1, <2>2
  <1>7. Is(C)
    <2> HIDE DEF Is
    <2> QED
      BY <1>6
  <1>8. C[0] = First /\ \A n \in 1 .. N : C[n] = Above(C[n - 1])
    <2> HIDE DEF C
    <2>1. C = [k \in 0 .. N |->
                [j \in Inodes |->
                   IF j = RootId THEN "root"
                   ELSE IF k = 0 THEN "cut"
                   ELSE IF Len(dir[j]) < 2 \/ dir[j][2].id = NoInode THEN "junk"
                   ELSE IF ~HasId(dir[dir[j][2].id], j) THEN "lost"
                   ELSE C[k - 1][dir[j][2].id]]]
      BY <1>7
    <2>2. 0 \in 0 .. N /\ \A n \in 1 .. N : n \in 0 .. N /\ n # 0
      BY <1>1
    <2> HIDE DEF N
    <2>3. C[0] = First
      <3>1. C[0] = [j \in Inodes |-> IF j = RootId THEN "root" ELSE "cut"]
        BY <2>1, <2>2
      <3> QED
        BY <3>1
    <2>4. ASSUME NEW n \in 1 .. N PROVE C[n] = Above(C[n - 1])
      <3>1. n \in 0 .. N /\ n # 0
        BY <2>2
      <3>2. C[n] = [j \in Inodes |->
                   IF j = RootId THEN "root"
                   ELSE IF n = 0 THEN "cut"
                   ELSE IF Len(dir[j]) < 2 \/ dir[j][2].id = NoInode THEN "junk"
                   ELSE IF ~HasId(dir[dir[j][2].id], j) THEN "lost"
                   ELSE C[n - 1][dir[j][2].id]]
        BY <2>1, <3>1, Zenon
      <3> QED
        BY <3>1, <3>2
    <2> QED
      BY <2>3, <2>4
  <1>9. C[N] \in Ends
    <2> DEFINE G == {n \in 0 .. N : C[n] \in Ends}
    <2> HIDE DEF C, Above, First, Ends
    <2>1. 0 \in G
      BY <1>1, <1>3, <1>8
    <2>2. ASSUME NEW n \in 0 .. N - 1, n \in G PROVE n + 1 \in G
      <3>1. n + 1 \in 1 .. N /\ n + 1 \in 0 .. N /\ (n + 1) - 1 = n
        BY <1>1
      <3>2. C[n + 1] = Above(C[n])
        BY <1>8, <3>1
      <3> QED
        BY <1>2, <2>2, <3>1, <3>2
    <2> HIDE DEF G
    <2>3. 0 .. N \subseteq G
      BY <1>1, <2>1, <2>2, SetInduction
    <2>4. N \in G
      BY <1>1, <2>3
    <2> QED
      BY <2>4 DEF G
  <1>10. ClimbFrom(i) = C[N][i]
    BY DEF ClimbFrom
  <1> HIDE DEF C
  <1> QED
    BY <1>9, <1>10

------------------------------------------------------------------------------
(* Sums over finite sets                                                   *)

\* MapThenSumSet() goes through the set S with h, element by element.
Picked(s) == CHOOSE x \in s : TRUE
Sums(h, S, g) ==
    h = [s \in SUBSET S |-> IF s = {} THEN 0 ELSE g[Picked(s)] + h[s \ {Picked(s)}]]

LEMMA PickedIsIn ==
    ASSUME NEW s, s # {}
    PROVE  Picked(s) \in s
  BY DEF Picked

\* s without its picked element is smaller.
LEMMA RestIsSmaller ==
    ASSUME NEW S, IsFiniteSet(S), NEW s \in SUBSET S, s # {}
    PROVE  /\ s \ {Picked(s)} \in SUBSET S
           /\ Cardinality(s) \in Nat \ {0}
           /\ Cardinality(s \ {Picked(s)}) = Cardinality(s) - 1
           /\ Cardinality(s) <= Cardinality(S) /\ Cardinality(S) \in Nat
  <1>1. IsFiniteSet(s) /\ Cardinality(s) <= Cardinality(S) /\ Cardinality(S) \in Nat
    BY FS_Subset, FS_CardinalityType
  <1>2. Cardinality(s) \in Nat /\ Cardinality(s) # 0
    BY <1>1, FS_EmptySet, FS_CardinalityType
  <1>3. Cardinality(s \ {Picked(s)}) = Cardinality(s) - 1
    BY <1>1, PickedIsIn, FS_RemoveElement
  <1> QED
    BY <1>1, <1>2, <1>3

LEMMA SumsExist ==
    ASSUME NEW S, IsFiniteSet(S), NEW g \in [S -> Nat]
    PROVE  \E h : Sums(h, S, g)
  <1> DEFINE N == Cardinality(S)
             X == [SUBSET S -> Nat]
             Next1(c) == [s \in SUBSET S |-> IF s = {} THEN 0
                                             ELSE g[Picked(s)] + c[s \ {Picked(s)}]]
             Zero == [s \in SUBSET S |-> 0]
             Step == [n \in 1 .. N |-> [c \in X |-> Next1(c)]]
  <1>1. N \in Nat
    BY FS_CardinalityType
  <1>2. ASSUME NEW c \in X PROVE Next1(c) \in X
    <2> SUFFICES ASSUME NEW s \in SUBSET S
                 PROVE  (IF s = {} THEN 0 ELSE g[Picked(s)] + c[s \ {Picked(s)}]) \in Nat
      OBVIOUS
    <2>1. s # {} => Picked(s) \in S
      BY PickedIsIn
    <2>2. s # {} => g[Picked(s)] \in Nat /\ c[s \ {Picked(s)}] \in Nat
      BY <2>1
    <2> QED
      BY <2>2
  <1>3. PICK f \in [0 .. N -> X] : f[0] = Zero /\ \A n \in 1 .. N : f[n] = Step[n][f[n - 1]]
    <2>1. Step \in [1 .. N -> [X -> X]]
      <3> HIDE DEF X, Next1
      <3> QED
        BY <1>2
    <2>2. Zero \in X
      OBVIOUS
    <2> HIDE DEF N, X, Zero, Step
    <2>3. Recursion(N, X, Zero, Step) # {}
      BY <1>1, <2>1, <2>2, RecursionExists
    <2> QED
      BY <2>3 DEF Recursion
  <1>4. \A n \in 1 .. N : f[n] = Next1(f[n - 1])
    <2> SUFFICES ASSUME NEW n \in 1 .. N PROVE f[n] = Next1(f[n - 1])
      OBVIOUS
    <2>1. n - 1 \in 0 .. N
      BY <1>1
    <2> HIDE DEF X, Next1
    <2>2. f[n - 1] \in X
      BY <1>3, <2>1
    <2> QED
      BY <1>3, <2>2
  <1>5. \A n \in 1 .. N, s \in SUBSET S :
          f[n][s] = IF s = {} THEN 0 ELSE g[Picked(s)] + f[n - 1][s \ {Picked(s)}]
    BY <1>4
  <1> HIDE DEF N
  <1> DEFINE Stable == {n \in 0 .. N : \A s \in SUBSET S :
                          n < N /\ Cardinality(s) <= n => f[n + 1][s] = f[n][s]}
  <1>6. 0 \in Stable
    <2> SUFFICES ASSUME 0 < N, NEW s \in SUBSET S, Cardinality(s) <= 0
                 PROVE  f[1][s] = f[0][s]
      BY <1>1
    <2>1. s = {}
      <3> SUFFICES ASSUME s # {} PROVE FALSE
        OBVIOUS
      <3>1. Cardinality(s) \in Nat \ {0}
        BY RestIsSmaller
      <3> QED
        BY <3>1
    <2>2. 1 \in 1 .. N
      BY <1>1
    <2>3. f[1][s] = 0
      BY <1>5, <2>1, <2>2
    <2>4. f[0][s] = 0
      BY <1>3
    <2> QED
      BY <2>3, <2>4
  <1>7. ASSUME NEW n \in 0 .. N - 1, n \in Stable PROVE n + 1 \in Stable
    <2>1. n + 1 \in 0 .. N /\ n + 1 \in 1 .. N /\ (n + 1) - 1 = n
      BY <1>1
    <2> SUFFICES ASSUME n + 1 < N, NEW s \in SUBSET S, Cardinality(s) <= n + 1
                 PROVE  f[(n + 1) + 1][s] = f[n + 1][s]
      BY <2>1
    <2>2. (n + 1) + 1 \in 1 .. N /\ ((n + 1) + 1) - 1 = n + 1
      BY <1>1
    <2>3. CASE s = {}
      BY <1>5, <2>1, <2>2, <2>3
    <2>4. CASE s # {}
      <3> DEFINE r == s \ {Picked(s)}
      <3>1. r \in SUBSET S /\ Cardinality(r) <= n
        <4>1. r \in SUBSET S /\ Cardinality(s) \in Nat /\ Cardinality(r) = Cardinality(s) - 1
          BY <2>4, RestIsSmaller
        <4> QED
          BY <1>1, <4>1
      <3>2. f[n + 1][r] = f[n][r]
        BY <1>1, <1>7, <3>1
      <3>3. f[(n + 1) + 1][s] = g[Picked(s)] + f[n + 1][r]
        BY <1>5, <2>2, <2>4
      <3>4. f[n + 1][s] = g[Picked(s)] + f[n][r]
        BY <1>5, <2>1, <2>4
      <3> QED
        BY <3>2, <3>3, <3>4
    <2> QED
      BY <2>3, <2>4
  <1>8. 0 .. N \subseteq Stable
    <2> HIDE DEF Stable
    <2> QED
      BY <1>1, <1>6, <1>7, SetInduction
  <1>9. ASSUME NEW s \in SUBSET S
        PROVE  f[N][s] = IF s = {} THEN 0 ELSE g[Picked(s)] + f[N][s \ {Picked(s)}]
    <2>1. CASE s = {}
      <3>1. CASE N = 0
        <4>1. f[0][s] = 0
          BY <1>3
        <4> QED
          BY <2>1, <3>1, <4>1
      <3>2. CASE N # 0
        <4>1. N \in 1 .. N
          BY <1>1, <3>2
        <4> QED
          BY <1>5, <2>1, <4>1
      <3> QED
        BY <3>1, <3>2
    <2>2. CASE s # {}
      <3> DEFINE r == s \ {Picked(s)}
      <3>1. /\ r \in SUBSET S /\ Cardinality(s) \in Nat \ {0}
            /\ Cardinality(r) = Cardinality(s) - 1 /\ Cardinality(s) <= N
        BY <2>2, RestIsSmaller DEF N
      <3>2. N \in 1 .. N /\ N - 1 \in 0 .. N /\ N - 1 < N /\ (N - 1) + 1 = N
            /\ Cardinality(r) <= N - 1
        BY <1>1, <3>1
      <3>3. N - 1 \in Stable
        BY <1>8, <3>2
      <3>4. f[N][r] = f[N - 1][r]
        BY <3>1, <3>2, <3>3
      <3>5. f[N][s] = g[Picked(s)] + f[N - 1][r]
        BY <1>5, <2>2, <3>2
      <3> QED
        BY <2>2, <3>4, <3>5
    <2> QED
      BY <2>1, <2>2
  <1>10. f[N] = [s \in SUBSET S |-> f[N][s]]
    <2>1. N \in 0 .. N
      BY <1>1
    <2>2. f[N] \in X
      <3> HIDE DEF X
      <3> QED
        BY <1>3, <2>1
    <2> QED
      BY <2>2
  <1>11. Sums(f[N], S, g)
    BY <1>9, <1>10 DEF Sums
  <1> QED
    BY <1>11

\* The union of sets has no more elements than the sum of the bounds on each.
LEMMA SumBoundsUnion ==
    ASSUME NEW S, IsFiniteSet(S), NEW g \in [S -> Nat], NEW h, Sums(h, S, g),
           NEW F, \A p \in S : IsFiniteSet(F[p]) /\ Cardinality(F[p]) <= g[p]
    PROVE  /\ h[S] \in Nat
           /\ Cardinality(UNION {F[p] : p \in S}) <= h[S]
  <1> DEFINE N == Cardinality(S)
             All(s) == UNION {F[p] : p \in s}
             Good(s) == h[s] \in Nat /\ IsFiniteSet(All(s)) /\ Cardinality(All(s)) <= h[s]
             G == {n \in 0 .. N : \A s \in SUBSET S : Cardinality(s) <= n => Good(s)}
  <1>1. N \in Nat
    BY FS_CardinalityType
  <1>2. \A s \in SUBSET S :
          h[s] = IF s = {} THEN 0 ELSE g[Picked(s)] + h[s \ {Picked(s)}]
    BY DEF Sums
  <1>3. Good({})
    <2>1. h[{}] = 0
      BY <1>2
    <2>2. All({}) = {}
      OBVIOUS
    <2> HIDE DEF All
    <2> QED
      BY <2>1, <2>2, FS_EmptySet
  <1>4. 0 \in G
    <2> SUFFICES ASSUME NEW s \in SUBSET S, Cardinality(s) <= 0 PROVE s = {}
      BY <1>1, <1>3
    <2> SUFFICES ASSUME s # {} PROVE FALSE
      OBVIOUS
    <2>1. Cardinality(s) \in Nat \ {0}
      BY RestIsSmaller
    <2> QED
      BY <2>1
  <1>5. ASSUME NEW n \in 0 .. N - 1, n \in G PROVE n + 1 \in G
    <2>1. n + 1 \in 0 .. N
      BY <1>1
    <2> SUFFICES ASSUME NEW s \in SUBSET S, Cardinality(s) <= n + 1 PROVE Good(s)
      BY <2>1
    <2>2. CASE s = {}
      <3> HIDE DEF Good
      <3> QED
        BY <1>3, <2>2
    <2>3. CASE s # {}
      <3> DEFINE p == Picked(s)
                 r == s \ {p}
      <3>1. p \in s /\ p \in S
        BY <2>3, PickedIsIn
      <3>2. r \in SUBSET S /\ Cardinality(r) <= n
        <4>1. r \in SUBSET S /\ Cardinality(s) \in Nat /\ Cardinality(r) = Cardinality(s) - 1
          BY <2>3, RestIsSmaller
        <4> QED
          BY <1>1, <4>1
      <3>3. h[s] = g[p] + h[r]
        BY <1>2, <2>3
      <3>4. s = r \union {p}
        BY <3>1
      <3> HIDE DEF p, r
      <3>5. Good(r)
        <4> HIDE DEF Good
        <4> QED
          BY <1>5, <3>2
      <3>6. All(s) = All(r) \union F[p]
        BY <3>4
      <3>7. IsFiniteSet(F[p]) /\ Cardinality(F[p]) <= g[p] /\ g[p] \in Nat
        BY <3>1
      <3> DEFINE A == All(r)
                 B == All(s)
      <3>8. h[r] \in Nat /\ IsFiniteSet(A) /\ Cardinality(A) <= h[r] /\ B = A \union F[p]
        BY <3>5, <3>6
      <3> SUFFICES h[s] \in Nat /\ IsFiniteSet(B) /\ Cardinality(B) <= h[s]
        OBVIOUS
      <3> HIDE DEF A, B
      <3>9. /\ IsFiniteSet(B) /\ Cardinality(A \cap F[p]) \in Nat
            /\ Cardinality(B) = Cardinality(A) + Cardinality(F[p]) - Cardinality(A \cap F[p])
            /\ Cardinality(A) \in Nat /\ Cardinality(F[p]) \in Nat /\ Cardinality(B) \in Nat
        <4>1. IsFiniteSet(A \cap F[p])
          BY <3>8, FS_Intersection
        <4> QED
          BY <3>7, <3>8, <4>1, FS_Union, FS_CardinalityType
      <3> QED
        BY <3>3, <3>7, <3>8, <3>9
    <2> QED
      BY <2>2, <2>3
  <1>6. 0 .. N \subseteq G
    <2> HIDE DEF G, N
    <2> QED
      BY <1>1, <1>4, <1>5, SetInduction
  <1>7. N \in G
    <2> HIDE DEF G, N
    <2> QED
      BY <1>1, <1>6
  <1>8. Good(S)
    <2> HIDE DEF Good
    <2> QED
      BY <1>1, <1>7
  <1> QED
    BY <1>8

------------------------------------------------------------------------------
(* Searches: a set is enlarged as many times as there are inodes            *)

\* S is such a search among the elements of D, by F ...
IsSearch(N, D, F, S) ==
    S \in [0 .. N -> SUBSET D] /\ \A n \in 1 .. N : S[n] = F[S[n - 1]]

\* ... or would be if its sets were sets of elements of D.
LooksLikeSearch(N, D, F, S) ==
    /\ N \in Nat /\ F \in [SUBSET D -> SUBSET D]
    /\ S = [k \in 0 .. N |-> S[k]] /\ S[0] \in SUBSET D
    /\ \A n \in 1 .. N : S[n - 1] \in SUBSET D => S[n] = F[S[n - 1]]

\* They are.
LEMMA SearchIs ==
    ASSUME NEW N, NEW D, NEW F, NEW f, LooksLikeSearch(N, D, F, f)
    PROVE  IsSearch(N, D, F, f)
  <1> USE DEF LooksLikeSearch
  <1> DEFINE G == {n \in 0 .. N : f[n] \in SUBSET D}
  <1>1. 0 \in G
    OBVIOUS
  <1>2. ASSUME NEW n \in 0 .. N - 1, n \in G PROVE n + 1 \in G
    <2>1. n + 1 \in 1 .. N /\ n + 1 \in 0 .. N /\ (n + 1) - 1 = n
      OBVIOUS
    <2>2. f[n] \in SUBSET D
      BY <1>2
    <2>3. f[n + 1] = F[f[n]]
      BY <2>1, <2>2
    <2> QED
      BY <2>1, <2>2, <2>3
  <1>3. 0 .. N \subseteq G
    <2> HIDE DEF G
    <2> QED
      BY <1>1, <1>2, SetInduction
  <1>4. \A n \in 0 .. N : f[n] \in SUBSET D
    BY <1>3
  <1>5. ASSUME NEW n \in 1 .. N PROVE f[n] = F[f[n - 1]]
    <2>1. n - 1 \in 0 .. N
      OBVIOUS
    <2> QED
      BY <1>4, <2>1
  <1> QED
    BY <1>4, <1>5 DEF IsSearch

\* There are turns enough for it to end, when each turn adds an element or is
\* the last that does.
LongEnough(N, D, F) ==
    /\ N \in Nat /\ IsFiniteSet(D) /\ Cardinality(D) <= N + 1
    /\ F \in [SUBSET D -> SUBSET D]
    /\ (\A s \in SUBSET D : s \subseteq F[s]) /\ F[{}] = {}

\* It ends with the least set that holds the first and is not enlarged any more.
EndsAsLeast(N, D, F, S) ==
    /\ S[N] \in SUBSET D /\ S[0] \subseteq S[N] /\ F[S[N]] = S[N]
    /\ \A Q \in SUBSET D :
         S[0] \subseteq Q /\ (\A s \in SUBSET Q : F[s] \subseteq Q) => S[N] \subseteq Q

LEMMA SearchEnds ==
    ASSUME NEW N, NEW D, NEW F, NEW S, LongEnough(N, D, F), IsSearch(N, D, F, S)
    PROVE  EndsAsLeast(N, D, F, S)
  <1> USE DEF LongEnough, IsSearch
  <1>1. ASSUME NEW n \in 0 .. N - 1
        PROVE  /\ n \in 0 .. N /\ n + 1 \in 0 .. N /\ S[n] \in SUBSET D
               /\ S[n + 1] = F[S[n]] /\ S[n] \subseteq S[n + 1]
    <2>1. n + 1 \in 1 .. N /\ (n + 1) - 1 = n /\ n \in 0 .. N /\ n + 1 \in 0 .. N
      OBVIOUS
    <2>2. S[n + 1] = F[S[n]] /\ S[n] \in SUBSET D
      BY <2>1
    <2> QED
      BY <2>1, <2>2
  <1>2. \A n \in 0 .. N : /\ S[n] \in SUBSET D /\ IsFiniteSet(S[n])
                          /\ Cardinality(S[n]) \in Nat /\ Cardinality(S[n]) <= Cardinality(D)
    <2> TAKE n \in 0 .. N
    <2>1. S[n] \in SUBSET D
      OBVIOUS
    <2>2. IsFiniteSet(S[n]) /\ Cardinality(S[n]) <= Cardinality(D)
      BY <2>1, FS_Subset
    <2> QED
      BY <2>1, <2>2, FS_CardinalityType
  <1> DEFINE Done(n) == F[S[n]] = S[n]
             G == {n \in 0 .. N : S[0] \subseteq S[n] /\ (Done(n) \/ Cardinality(S[n]) > n)}
  <1>3. 0 \in G
    <2>1. 0 \in 0 .. N
      OBVIOUS
    <2>2. CASE S[0] = {}
      BY <2>1, <2>2
    <2>3. CASE S[0] # {}
      <3>1. Cardinality(S[0]) > 0
        BY <1>2, <2>1, <2>3, FS_EmptySet
      <3> QED
        BY <2>1, <3>1
    <2> QED
      BY <2>2, <2>3
  <1>4. ASSUME NEW n \in 0 .. N - 1, n \in G PROVE n + 1 \in G
    <2>1. /\ n \in 0 .. N /\ n + 1 \in 0 .. N
          /\ S[n + 1] = F[S[n]] /\ S[n] \subseteq S[n + 1]
      BY <1>1
    <2>2. S[0] \subseteq S[n + 1]
      BY <1>4, <2>1
    <2>3. CASE S[n + 1] = S[n]
      <3>1. Done(n + 1)
        BY <2>1, <2>3
      <3> QED
        BY <2>1, <2>2, <3>1
    <2>4. CASE S[n + 1] # S[n]
      <3>1. ~Done(n)
        BY <2>1, <2>4
      <3>2. Cardinality(S[n]) > n
        BY <1>4, <3>1
      <3>3. Cardinality(S[n]) # Cardinality(S[n + 1]) /\ Cardinality(S[n]) <= Cardinality(S[n + 1])
        <4>1. S[n] \in SUBSET S[n + 1] /\ IsFiniteSet(S[n + 1])
          BY <1>2, <2>1
        <4> QED
          BY <2>4, <4>1, FS_Subset
      <3>4. Cardinality(S[n]) \in Nat /\ Cardinality(S[n + 1]) \in Nat
        BY <1>2, <2>1
      <3>5. Cardinality(S[n + 1]) > n + 1
        BY <3>2, <3>3, <3>4
      <3> HIDE DEF Done
      <3> QED
        BY <2>1, <2>2, <3>5
    <2> QED
      BY <2>3, <2>4
  <1>5. N \in G /\ N \in 0 .. N
    <2>1. 0 .. N \subseteq G
      <3> HIDE DEF G
      <3> QED
        BY <1>3, <1>4, SetInduction
    <2> HIDE DEF G
    <2> QED
      BY <2>1
  <1>6. S[N] \in SUBSET D /\ S[0] \subseteq S[N] /\ F[S[N]] = S[N]
    <2>1. S[N] \in SUBSET D /\ S[0] \subseteq S[N] /\ (Done(N) \/ Cardinality(S[N]) > N)
      BY <1>5
    <2>2. CASE Cardinality(S[N]) > N
      <3>1. Cardinality(S[N]) \in Nat /\ Cardinality(D) \in Nat /\ Cardinality(S[N]) <= Cardinality(D)
        BY <1>2, <1>5, FS_CardinalityType
      <3>2. Cardinality(S[N]) = Cardinality(D)
        BY <2>2, <3>1
      <3>3. S[N] = D
        BY <2>1, <3>2, FS_Subset
      <3>4. D \subseteq F[D] /\ F[D] \subseteq D
        OBVIOUS
      <3> QED
        BY <2>1, <3>3, <3>4
    <2> QED
      BY <2>1, <2>2
  <1>7. ASSUME NEW Q \in SUBSET D, S[0] \subseteq Q, \A s \in SUBSET Q : F[s] \subseteq Q
        PROVE  S[N] \subseteq Q
    <2> DEFINE H == {n \in 0 .. N : S[n] \subseteq Q}
    <2>1. 0 \in H
      BY <1>7
    <2>2. ASSUME NEW n \in 0 .. N - 1, n \in H PROVE n + 1 \in H
      <3>1. n + 1 \in 0 .. N /\ S[n + 1] = F[S[n]]
        BY <1>1
      <3>2. S[n] \in SUBSET Q
        BY <2>2
      <3> QED
        BY <1>7, <3>1, <3>2
    <2>3. 0 .. N \subseteq H
      <3> HIDE DEF H
      <3> QED
        BY <2>1, <2>2, SetInduction
    <2> QED
      BY <1>5, <2>3
  <1> QED
    BY <1>6, <1>7 DEF EndsAsLeast

LEMMA InodesAreFew ==
    /\ InodeCount \in Nat
    /\ IsFiniteSet(Inodes) /\ Cardinality(Inodes) = InodeCount
    /\ IsFiniteSet(Ids) /\ Cardinality(Ids) <= InodeCount + 1
  <1> DEFINE N == InodeCount
  <1>1. N \in Nat
    BY NamespaceAssumption
  <1>2. IsFiniteSet(1 .. N) /\ Cardinality(1 .. N) = N
    <2> HIDE DEF N
    <2> QED
      BY <1>1, FS_Interval
  <1>3. IsFiniteSet(Inodes) /\ Cardinality(Inodes) = N
    BY <1>2 DEF Inodes
  <1>4. IsFiniteSet(Inodes \union {NoInode}) /\ Cardinality(Inodes \union {NoInode}) = N + 1
    BY <1>1, <1>3, RootIsInode, FS_AddElement
  <1> QED
    BY <1>1, <1>3, <1>4 DEF Ids

------------------------------------------------------------------------------
(* What fsck's search meets                                                *)

Deeper(s) == s \union UNION {Targets(j) : j \in {h \in s : h # NoInode /\ itype[h] = "dirc"}}

TargetsAreInodes == \A i \in Inodes : Targets(i) \subseteq Inodes
TargetsAreIds == \A i \in Inodes : Targets(i) \subseteq Ids

\* One level, when records may name no inode ...
LEMMA LevelIs ==
    ASSUME TargetsAreIds, NEW s \in SUBSET Ids
    PROVE  /\ Deeper(s) \in SUBSET Ids
           /\ \A x : x \in Deeper(s) <=>
                       \/ x \in s
                       \/ \E j \in s \intersect Inodes : itype[j] = "dirc" /\ x \in Targets(j)
  <1> DEFINE D == {h \in s : h # NoInode /\ itype[h] = "dirc"}
  <1>1. \A h : h \in D <=> h \in s /\ h \in Inodes /\ itype[h] = "dirc"
    BY RootIsInode DEF Ids
  <1> HIDE DEF D
  <1>2. \A x : x \in UNION {Targets(j) : j \in D} <=> \E j \in D : x \in Targets(j)
    OBVIOUS
  <1>3. Deeper(s) = s \union UNION {Targets(j) : j \in D}
    BY DEF Deeper, D
  <1>4. \A x : x \in Deeper(s) <=>
                 \/ x \in s
                 \/ \E j \in s \intersect Inodes : itype[j] = "dirc" /\ x \in Targets(j)
    BY <1>1, <1>2, <1>3
  <1>5. ASSUME NEW x, x \in Deeper(s) PROVE x \in Ids
    BY <1>4, <1>5 DEF TargetsAreIds
  <1> QED
    BY <1>4, <1>5

\* ... and when they all name one.
LEMMA DeeperIs ==
    ASSUME TargetsAreInodes, NEW s \in SUBSET Inodes
    PROVE  /\ Deeper(s) \in SUBSET Inodes
           /\ \A x : x \in Deeper(s) <=> \/ x \in s
                                         \/ \E j \in s : itype[j] = "dirc" /\ x \in Targets(j)
  <1>1. TargetsAreIds /\ s \in SUBSET Ids
    BY DEF TargetsAreInodes, TargetsAreIds, Ids
  <1>2. \A x : x \in Deeper(s) <=>
                 \/ x \in s
                 \/ \E j \in s \intersect Inodes : itype[j] = "dirc" /\ x \in Targets(j)
    BY <1>1, LevelIs
  <1>3. ASSUME NEW x, x \in Deeper(s) PROVE x \in Inodes
    BY <1>2, <1>3 DEF TargetsAreInodes
  <1> QED
    BY <1>2, <1>3

\* The search goes one level deeper, InodeCount times.
LEMMA Levels ==
    ASSUME TargetsAreIds, NEW i \in Inodes
    PROVE  \E S \in [0 .. InodeCount -> SUBSET Ids] :
             /\ S[0] = Targets(i)
             /\ \A n \in 1 .. InodeCount : S[n] = Deeper(S[n - 1])
             /\ Seen(i) = S[InodeCount]
  <1> DEFINE N == InodeCount
             F == [s \in SUBSET Ids |-> Deeper(s)]
             Step == [n \in 1 .. N |-> F]
             Is(f) == f = [k \in 0 .. N |->
                            IF k = 0 THEN Targets(i)
                            ELSE LET s == f[k - 1]
                                 IN  s \union UNION {Targets(j) : j \in {h \in s : h # NoInode /\ itype[h] = "dirc"}}]
             S == CHOOSE f : Is(f)
  <1>1. N \in Nat /\ Targets(i) \in SUBSET Ids /\ F \in [SUBSET Ids -> SUBSET Ids]
    BY InodesAreFew, LevelIs DEF TargetsAreIds
  <1>2. \A s \in SUBSET Ids : F[s] = Deeper(s)
    OBVIOUS
  <1> HIDE DEF F
  <1>3. PICK g \in [0 .. N -> SUBSET Ids] :
          g[0] = Targets(i) /\ \A n \in 1 .. N : g[n] = Step[n][g[n - 1]]
    <2>1. Step \in [1 .. N -> [SUBSET Ids -> SUBSET Ids]]
      BY <1>1
    <2> HIDE DEF N, Step
    <2>2. Recursion(N, SUBSET Ids, Targets(i), Step) # {}
      BY <1>1, <2>1, RecursionExists
    <2> QED
      BY <2>2 DEF Recursion
  <1>4. Is(g)
    <2>1. ASSUME NEW k \in 0 .. N
          PROVE  g[k] = IF k = 0 THEN Targets(i) ELSE Deeper(g[k - 1])
      <3>1. k # 0 => k \in 1 .. N /\ k - 1 \in 0 .. N
        BY <1>1
      <3> QED
        BY <1>2, <1>3, <3>1
    <2>2. g = [k \in 0 .. N |-> IF k = 0 THEN Targets(i) ELSE Deeper(g[k - 1])]
      BY <2>1
    <2> QED
      BY <2>2 DEF Deeper
  <1>5. Is(S)
    <2> HIDE DEF Is
    <2> QED
      BY <1>4
  <1>6. Seen(i) = S[N]
    BY DEF Seen
  <1>7. S = [k \in 0 .. N |-> S[k]] /\ S[0] = Targets(i) /\ \A n \in 1 .. N : S[n] = Deeper(S[n - 1])
    <2> HIDE DEF S
    <2>1. S = [k \in 0 .. N |-> IF k = 0 THEN Targets(i) ELSE Deeper(S[k - 1])]
      BY <1>5 DEF Deeper
    <2>2. 0 \in 0 .. N /\ \A n \in 1 .. N : n \in 0 .. N /\ n # 0
      BY <1>1
    <2> HIDE DEF N
    <2> QED
      BY <2>1, <2>2, Zenon
  <1>8. S \in [0 .. N -> SUBSET Ids]
    <2>1. \A n \in 1 .. N : S[n - 1] \in SUBSET Ids => S[n] = F[S[n - 1]]
      BY <1>2, <1>7
    <2>2. S[0] \in SUBSET Ids
      BY <1>1, <1>7
    <2>3. S = [k \in 0 .. N |-> S[k]]
      BY <1>7
    <2>4. N \in Nat /\ F \in [SUBSET Ids -> SUBSET Ids]
      BY <1>1
    <2> HIDE DEF S, N
    <2>5. LooksLikeSearch(N, Ids, F, S)
      BY <2>1, <2>2, <2>3, <2>4 DEF LooksLikeSearch
    <2>6. IsSearch(N, Ids, F, S)
      BY <2>5, SearchIs
    <2> QED
      BY <2>6 DEF IsSearch
  <1> HIDE DEF S
  <1> QED
    BY <1>6, <1>7, <1>8

LEMMA SearchSteps ==
    ASSUME TargetsAreInodes, NEW i \in Inodes
    PROVE  \E S \in [0 .. InodeCount -> SUBSET Inodes] :
             /\ S[0] = Targets(i)
             /\ \A n \in 1 .. InodeCount : S[n] = Deeper(S[n - 1])
             /\ Seen(i) = S[InodeCount]
  <1> DEFINE N == InodeCount
             F == [s \in SUBSET Inodes |-> Deeper(s)]
  <1>1. N \in Nat /\ Targets(i) \in SUBSET Inodes /\ F \in [SUBSET Inodes -> SUBSET Inodes]
    BY InodesAreFew, DeeperIs DEF TargetsAreInodes
  <1>2. \A s \in SUBSET Inodes : F[s] = Deeper(s)
    OBVIOUS
  <1>3. TargetsAreIds
    BY DEF TargetsAreInodes, TargetsAreIds, Ids
  <1> HIDE DEF F
  <1>4. PICK S \in [0 .. N -> SUBSET Ids] :
          /\ S[0] = Targets(i)
          /\ \A n \in 1 .. N : S[n] = Deeper(S[n - 1])
          /\ Seen(i) = S[N]
    BY <1>3, Levels
  <1>5. S = [k \in 0 .. N |-> S[k]] /\ S[0] \in SUBSET Inodes
    BY <1>1, <1>4
  <1>6. S \in [0 .. N -> SUBSET Inodes]
    <2>1. \A n \in 1 .. N : S[n - 1] \in SUBSET Inodes => S[n] = F[S[n - 1]]
      BY <1>2, <1>4
    <2>2. S[0] \in SUBSET Inodes
      BY <1>5
    <2>3. S = [k \in 0 .. N |-> S[k]]
      BY <1>5
    <2>4. N \in Nat /\ F \in [SUBSET Inodes -> SUBSET Inodes]
      BY <1>1
    <2> HIDE DEF N
    <2>5. LooksLikeSearch(N, Inodes, F, S)
      BY <2>1, <2>2, <2>3, <2>4 DEF LooksLikeSearch
    <2>6. IsSearch(N, Inodes, F, S)
      BY <2>5, SearchIs
    <2> QED
      BY <2>6 DEF IsSearch
  <1> QED
    BY <1>4, <1>6

\* It then has met all that hangs below i, and nothing else.
SeenFacts ==
    TargetsAreIds =>
        \A i \in Inodes :
            /\ Targets(i) \subseteq Seen(i) /\ Seen(i) \subseteq Ids
            /\ \A j \in Seen(i) \intersect Inodes :
                 itype[j] = "dirc" => Targets(j) \subseteq Seen(i)
            /\ \A Q \in SUBSET Ids :
                 /\ Targets(i) \subseteq Q
                 /\ \A j \in Q \intersect Inodes : itype[j] = "dirc" => Targets(j) \subseteq Q
                 => Seen(i) \subseteq Q

LEMMA SeenIs == SeenFacts
  <1> SUFFICES ASSUME TargetsAreIds, NEW i \in Inodes
               PROVE  /\ Targets(i) \subseteq Seen(i) /\ Seen(i) \subseteq Ids
                      /\ \A j \in Seen(i) \intersect Inodes :
                           itype[j] = "dirc" => Targets(j) \subseteq Seen(i)
                      /\ \A Q \in SUBSET Ids :
                           /\ Targets(i) \subseteq Q
                           /\ \A j \in Q \intersect Inodes :
                                itype[j] = "dirc" => Targets(j) \subseteq Q
                           => Seen(i) \subseteq Q
    BY DEF SeenFacts
  <1> DEFINE N == InodeCount
             F == [s \in SUBSET Ids |-> Deeper(s)]
  <1>1. PICK S \in [0 .. N -> SUBSET Ids] :
          /\ S[0] = Targets(i)
          /\ \A n \in 1 .. N : S[n] = Deeper(S[n - 1])
          /\ Seen(i) = S[N]
    BY Levels
  <1>2. N \in Nat /\ IsFiniteSet(Ids) /\ Cardinality(Ids) <= N + 1
    BY InodesAreFew
  <1>3. F \in [SUBSET Ids -> SUBSET Ids] /\ \A s \in SUBSET Ids : F[s] = Deeper(s)
    BY LevelIs
  <1> HIDE DEF F, N
  <1>4. (\A s \in SUBSET Ids : s \subseteq F[s]) /\ F[{}] = {}
    <2>1. {} \in SUBSET Ids
      OBVIOUS
    <2>2. \A x : x \notin Deeper({})
      BY <2>1, LevelIs
    <2>3. \A s \in SUBSET Ids : s \subseteq F[s]
      BY <1>3, LevelIs
    <2> QED
      BY <1>3, <2>1, <2>2, <2>3
  <1>5. \A n \in 1 .. N : S[n] = F[S[n - 1]]
    <2> SUFFICES ASSUME NEW n \in 1 .. N PROVE S[n] = F[S[n - 1]]
      OBVIOUS
    <2>1. n - 1 \in 0 .. N
      BY <1>2
    <2>2. S[n - 1] \in SUBSET Ids
      BY <2>1
    <2> QED
      BY <1>1, <1>3, <2>2
  <1>6. /\ S[N] \in SUBSET Ids /\ S[0] \subseteq S[N] /\ F[S[N]] = S[N]
        /\ \A Q \in SUBSET Ids :
             S[0] \subseteq Q /\ (\A s \in SUBSET Q : F[s] \subseteq Q) => S[N] \subseteq Q
    <2>1. N \in Nat /\ IsFiniteSet(Ids) /\ Cardinality(Ids) <= N + 1
      BY <1>2
    <2>2. F \in [SUBSET Ids -> SUBSET Ids] /\ (\A s \in SUBSET Ids : s \subseteq F[s]) /\ F[{}] = {}
      BY <1>3, <1>4
    <2>3. LongEnough(N, Ids, F) /\ IsSearch(N, Ids, F, S)
      BY <1>5, <2>1, <2>2 DEF LongEnough, IsSearch
    <2>4. EndsAsLeast(N, Ids, F, S)
      BY <2>3, SearchEnds
    <2> QED
      BY <2>4 DEF EndsAsLeast
  <1>7. \A j \in Seen(i) \intersect Inodes : itype[j] = "dirc" => Targets(j) \subseteq Seen(i)
    <2>1. Deeper(Seen(i)) = Seen(i) /\ Seen(i) \in SUBSET Ids
      BY <1>1, <1>3, <1>6
    <2> QED
      BY <2>1, LevelIs
  <1>8. ASSUME NEW Q \in SUBSET Ids, Targets(i) \subseteq Q,
               \A j \in Q \intersect Inodes : itype[j] = "dirc" => Targets(j) \subseteq Q
        PROVE  Seen(i) \subseteq Q
    <2>1. ASSUME NEW s \in SUBSET Q PROVE F[s] \subseteq Q
      <3>1. s \in SUBSET Ids
        OBVIOUS
      <3>2. Deeper(s) \subseteq Q
        BY <1>8, <3>1, LevelIs
      <3> QED
        BY <1>3, <3>1, <3>2
    <2> QED
      BY <1>1, <1>6, <1>8, <2>1
  <1> QED
    BY <1>1, <1>6, <1>7, <1>8

LEMMA SeenWillBe == SeenFacts'
  BY SeenIs, PTL

\* So too when all records name inodes.
LEMMA SeenIsClosed ==
    ASSUME TargetsAreInodes, NEW i \in Inodes
    PROVE  /\ Targets(i) \subseteq Seen(i) /\ Seen(i) \subseteq Inodes
           /\ \A j \in Seen(i) : itype[j] = "dirc" => Targets(j) \subseteq Seen(i)
  <1>1. TargetsAreIds /\ Inodes \in SUBSET Ids
    BY DEF TargetsAreInodes, TargetsAreIds, Ids
  <1>2. Seen(i) \subseteq Inodes
    BY <1>1, SeenIs DEF SeenFacts, TargetsAreInodes
  <1> QED
    BY <1>1, <1>2, SeenIs DEF SeenFacts

LEMMA SeenIsLeast ==
    ASSUME TargetsAreInodes, NEW i \in Inodes, NEW Q, Targets(i) \subseteq Q,
           \A j \in Q \cap Inodes : itype[j] = "dirc" => Targets(j) \subseteq Q
    PROVE  Seen(i) \subseteq Q
  <1> DEFINE P == Q \intersect Inodes
  <1>1. TargetsAreIds /\ P \in SUBSET Ids
    BY DEF TargetsAreInodes, TargetsAreIds, Ids
  <1>2. Targets(i) \subseteq P /\ \A j \in P \intersect Inodes : itype[j] = "dirc" => Targets(j) \subseteq P
    BY DEF TargetsAreInodes
  <1> HIDE DEF P
  <1>3. Seen(i) \subseteq P
    BY <1>1, <1>2, SeenIs DEF SeenFacts
  <1> QED
    BY <1>3 DEF P

------------------------------------------------------------------------------
(* What paths lead to                                                      *)

\* A path goes on through any record that names an inode.
PathFacts ==
    \A S \in SUBSET Inodes :
        /\ S \subseteq Walk(S) /\ Walk(S) \subseteq Inodes
        /\ Entries(Walk(S)) \subseteq Walk(S)
        /\ \A Q \in SUBSET Inodes : S \subseteq Q /\ Entries(Q) \subseteq Q => Walk(S) \subseteq Q

LEMMA EntriesAre ==
    ASSUME IInv, NEW S \in SUBSET Inodes
    PROVE  /\ Entries(S) \subseteq Inodes
           /\ \A x : x \in Entries(S) <=> /\ x # NoInode
                                          /\ \E i \in S : \E k \in DOMAIN dir[i] : x = dir[i][k].id
  <1> DEFINE E == {{dir[i][k].id : k \in DOMAIN dir[i]} : i \in S}
             Ids1(i) == {dir[i][k].id : k \in DOMAIN dir[i]}
  <1>1. \A x : x \in UNION E <=> \E i \in S : \E k \in DOMAIN dir[i] : x = dir[i][k].id
    <2>1. \A i : \A x : x \in Ids1(i) <=> \E k \in DOMAIN dir[i] : x = dir[i][k].id
      OBVIOUS
    <2>2. E = {Ids1(i) : i \in S}
      OBVIOUS
    <2> HIDE DEF E, Ids1
    <2>3. \A x : x \in UNION E <=> \E i \in S : x \in Ids1(i)
      BY <2>2
    <2> SUFFICES ASSUME NEW x
                 PROVE  x \in UNION E <=> \E i \in S : \E k \in DOMAIN dir[i] : x = dir[i][k].id
      OBVIOUS
    <2>4. x \in UNION E <=> \E i \in S : x \in Ids1(i)
      BY <2>3
    <2>5. \A i : x \in Ids1(i) <=> \E k \in DOMAIN dir[i] : x = dir[i][k].id
      BY <2>1
    <2> QED
      BY <2>4, <2>5, Zenon
  <1>2. \A x : x \in Entries(S) <=> /\ x # NoInode
                                    /\ \E i \in S : \E k \in DOMAIN dir[i] : x = dir[i][k].id
    BY <1>1 DEF Entries
  <1>3. ASSUME NEW x \in Entries(S) PROVE x \in Inodes
    <2>1. PICK i \in S : \E k \in DOMAIN dir[i] : x = dir[i][k].id
      BY <1>2
    <2>2. PICK k \in DOMAIN dir[i] : x = dir[i][k].id
      BY <2>1
    <2>3. dir[i][k] \in Records
      BY DirShape
    <2> QED
      BY <1>2, <2>2, <2>3 DEF Records, Ids
  <1> QED
    BY <1>2, <1>3

LEMMA PathsAre == IInv => PathFacts
  <1> SUFFICES ASSUME IInv, NEW S \in SUBSET Inodes
               PROVE  /\ S \subseteq Walk(S) /\ Walk(S) \subseteq Inodes
                      /\ Entries(Walk(S)) \subseteq Walk(S)
                      /\ \A Q \in SUBSET Inodes :
                           S \subseteq Q /\ Entries(Q) \subseteq Q => Walk(S) \subseteq Q
    BY DEF PathFacts
  <1> DEFINE N == InodeCount
             F == [w \in SUBSET Inodes |-> w \union Entries(w)]
             Step == [n \in 1 .. N |-> F]
             Is(f) == f = [k \in 0 .. N |-> IF k = 0 THEN S
                                            ELSE LET w == f[k - 1] IN w \union Entries(w)]
             W == CHOOSE f : Is(f)
  <1>1. N \in Nat /\ IsFiniteSet(Inodes) /\ Cardinality(Inodes) <= N + 1
    BY InodesAreFew
  <1>2. F \in [SUBSET Inodes -> SUBSET Inodes]
    BY EntriesAre
  <1>3. \A w \in SUBSET Inodes : F[w] = w \union Entries(w)
    OBVIOUS
  <1> HIDE DEF F
  <1>4. PICK g \in [0 .. N -> SUBSET Inodes] :
          g[0] = S /\ \A n \in 1 .. N : g[n] = Step[n][g[n - 1]]
    <2>1. Step \in [1 .. N -> [SUBSET Inodes -> SUBSET Inodes]]
      BY <1>2
    <2> HIDE DEF N, Step
    <2>2. Recursion(N, SUBSET Inodes, S, Step) # {}
      BY <1>1, <2>1, RecursionExists
    <2> QED
      BY <2>2 DEF Recursion
  <1>5. Is(g)
    <2>1. ASSUME NEW k \in 0 .. N
          PROVE  g[k] = IF k = 0 THEN S ELSE g[k - 1] \union Entries(g[k - 1])
      <3>1. k # 0 => k \in 1 .. N /\ k - 1 \in 0 .. N
        BY <1>1
      <3> QED
        BY <1>3, <1>4, <3>1
    <2>2. g = [k \in 0 .. N |-> IF k = 0 THEN S ELSE g[k - 1] \union Entries(g[k - 1])]
      BY <2>1
    <2> QED
      BY <2>2
  <1>6. Is(W)
    <2> HIDE DEF Is
    <2> QED
      BY <1>5
  <1>7. Walk(S) = Inodes \intersect W[N]
    BY DEF Walk
  <1>8. /\ W = [k \in 0 .. N |-> W[k]] /\ W[0] = S
        /\ \A n \in 1 .. N : W[n] = W[n - 1] \union Entries(W[n - 1])
    <2> HIDE DEF W
    <2>1. W = [k \in 0 .. N |-> IF k = 0 THEN S ELSE W[k - 1] \union Entries(W[k - 1])]
      BY <1>6
    <2>2. 0 \in 0 .. N /\ \A n \in 1 .. N : n \in 0 .. N /\ n # 0
      BY <1>1
    <2> HIDE DEF N
    <2> QED
      BY <2>1, <2>2, Zenon
  <1> HIDE DEF W, N
  <1>9. W \in [0 .. N -> SUBSET Inodes] /\ \A n \in 1 .. N : W[n] = F[W[n - 1]]
    <2>1. \A n \in 1 .. N : W[n - 1] \in SUBSET Inodes => W[n] = F[W[n - 1]]
      BY <1>3, <1>8
    <2>2. W[0] \in SUBSET Inodes
      BY <1>8
    <2>3. W = [k \in 0 .. N |-> W[k]]
      BY <1>8
    <2>4. N \in Nat /\ F \in [SUBSET Inodes -> SUBSET Inodes]
      BY <1>1, <1>2
    <2>5. LooksLikeSearch(N, Inodes, F, W)
      BY <2>1, <2>2, <2>3, <2>4 DEF LooksLikeSearch
    <2>6. IsSearch(N, Inodes, F, W)
      BY <2>5, SearchIs
    <2> QED
      BY <2>6 DEF IsSearch
  <1>10. (\A s \in SUBSET Inodes : s \subseteq F[s]) /\ F[{}] = {}
    <2>1. {} \in SUBSET Inodes
      OBVIOUS
    <2>2. \A x : x \notin Entries({})
      BY <2>1, EntriesAre
    <2> QED
      BY <1>3, <2>1, <2>2
  <1>11. /\ W[N] \in SUBSET Inodes /\ W[0] \subseteq W[N] /\ F[W[N]] = W[N]
         /\ \A Q \in SUBSET Inodes :
              W[0] \subseteq Q /\ (\A s \in SUBSET Q : F[s] \subseteq Q) => W[N] \subseteq Q
    <2>1. N \in Nat /\ IsFiniteSet(Inodes) /\ Cardinality(Inodes) <= N + 1
      BY <1>1
    <2>2. F \in [SUBSET Inodes -> SUBSET Inodes] /\ (\A s \in SUBSET Inodes : s \subseteq F[s]) /\ F[{}] = {}
      BY <1>2, <1>10
    <2>3. W \in [0 .. N -> SUBSET Inodes] /\ \A n \in 1 .. N : W[n] = F[W[n - 1]]
      BY <1>9
    <2>4. LongEnough(N, Inodes, F) /\ IsSearch(N, Inodes, F, W)
      BY <2>1, <2>2, <2>3 DEF LongEnough, IsSearch
    <2>5. EndsAsLeast(N, Inodes, F, W)
      BY <2>4, SearchEnds
    <2> QED
      BY <2>5 DEF EndsAsLeast
  <1>12. Walk(S) = W[N]
    BY <1>7, <1>11
  <1>13. ASSUME NEW Q \in SUBSET Inodes, S \subseteq Q, Entries(Q) \subseteq Q
         PROVE  Walk(S) \subseteq Q
    <2>1. ASSUME NEW s \in SUBSET Q PROVE F[s] \subseteq Q
      <3>1. s \in SUBSET Inodes /\ \A x : x \in Entries(s) => x \in Entries(Q)
        BY EntriesAre
      <3> QED
        BY <1>3, <1>13, <3>1
    <2>2. \A s \in SUBSET Q : F[s] \subseteq Q
      BY <2>1
    <2>3. W[0] \subseteq Q
      BY <1>8, <1>13
    <2>4. W[N] \subseteq Q
      BY <1>11, <2>2, <2>3, Zenon
    <2> QED
      BY <1>12, <2>4
  <1>14. Entries(W[N]) \subseteq W[N]
    BY <1>3, <1>11
  <1>15. W[0] = S /\ W[0] \subseteq W[N] /\ W[N] \subseteq Inodes
    BY <1>8, <1>11
  <1> QED
    BY <1>12, <1>13, <1>14, <1>15, Zenon

LEMMA PathsWillBe == IInv' => PathFacts'
  BY PathsAre, PTL

------------------------------------------------------------------------------
(* How many records it meets                                               *)

\* What the search meets below a record, when m is what it meets below each
\* directory; and one turn of Meetings().
Below(m, r) == IF itype[r.id] = "dirc" THEN m[r.id] ELSE 0
Met(m) ==
    [j \in Inodes |-> MapThenSumSet(LAMBDA p : 1 + Below(m, dir[j][p]), Ordinary(dir[j]))]

\* Records that name inodes: so the search is defined.
SearchDefined ==
    /\ IInv
    /\ \A i \in Inodes : \A k \in Ordinary(dir[i]) : dir[i][k].id \in Inodes

LEMMA OrdinaryIsFinite ==
    ASSUME IInv, NEW i \in Inodes
    PROVE  IsFiniteSet(Ordinary(dir[i])) /\ Ordinary(dir[i]) \subseteq 1 .. Len(dir[i])
  <1>1. Ordinary(dir[i]) \subseteq 1 .. Len(dir[i])
    BY OrdinaryIsNumber
  <1>2. IsFiniteSet(1 .. Len(dir[i]))
    <2>1. Len(dir[i]) \in Nat
      BY DirShape
    <2> QED
      BY <2>1, FS_Interval
  <1> QED
    BY <1>1, <1>2, FS_Subset

\* One turn of Meetings() goes through the ordinary records and adds up.
LEMMA MetIsSum ==
    ASSUME SearchDefined, NEW m \in [Inodes -> Nat], NEW j \in Inodes
    PROVE  \E h : /\ Sums(h, Ordinary(dir[j]), [p \in Ordinary(dir[j]) |-> 1 + Below(m, dir[j][p])])
                  /\ Met(m)[j] = h[Ordinary(dir[j])]
  <1> DEFINE S == Ordinary(dir[j])
             g == [p \in S |-> 1 + Below(m, dir[j][p])]
             Is(h) == h = [s \in SUBSET S |->
                             IF s = {} THEN 0
                             ELSE (1 + Below(m, dir[j][CHOOSE x \in s : TRUE]))
                                    + h[s \ {CHOOSE x \in s : TRUE}]]
             iter == CHOOSE h : Is(h)
  <1>1. IsFiniteSet(S)
    BY OrdinaryIsFinite DEF SearchDefined
  <1>2. g \in [S -> Nat]
    <2> SUFFICES ASSUME NEW p \in S PROVE 1 + Below(m, dir[j][p]) \in Nat
      OBVIOUS
    <2>1. dir[j][p].id \in Inodes
      BY DEF SearchDefined
    <2> QED
      BY <2>1 DEF Below
  <1>3. \A h : Is(h) <=> Sums(h, S, g)
    <2> TAKE h
    <2>1. ASSUME NEW s \in SUBSET S, s # {}
          PROVE  g[Picked(s)] = 1 + Below(m, dir[j][CHOOSE x \in s : TRUE])
      <3>1. Picked(s) \in S
        BY <2>1, PickedIsIn
      <3> HIDE DEF S
      <3>2. g[Picked(s)] = 1 + Below(m, dir[j][Picked(s)])
        BY <3>1
      <3> QED
        BY <3>2 DEF Picked
    <2>2. [s \in SUBSET S |-> IF s = {} THEN 0
                              ELSE (1 + Below(m, dir[j][CHOOSE x \in s : TRUE]))
                                     + h[s \ {CHOOSE x \in s : TRUE}]]
            = [s \in SUBSET S |-> IF s = {} THEN 0 ELSE g[Picked(s)] + h[s \ {Picked(s)}]]
      <3> HIDE DEF S, g
      <3> QED
        BY <2>1 DEF Picked
    <2> HIDE DEF S, g
    <2> QED
      BY <2>2 DEF Sums
  <1>4. PICK h : Sums(h, S, g)
    <2> HIDE DEF S, g
    <2> QED
      BY <1>1, <1>2, SumsExist
  <1>5. Sums(iter, S, g)
    <2> HIDE DEF Is, S, g
    <2> QED
      BY <1>3, <1>4
  <1>6. Met(m)[j] = iter[S]
    BY DEF Met, MapThenSumSet, MapThenFoldSet
  <1> HIDE DEF iter
  <1> QED
    BY <1>5, <1>6

\* The sum bounds what is met below the directories named.
LEMMA MetBounds ==
    ASSUME SearchDefined, NEW m \in [Inodes -> Nat], NEW E \in [Inodes -> SUBSET Inodes],
           \A i \in Inodes : Cardinality(E[i]) <= m[i], NEW j \in Inodes
    PROVE  /\ Met(m)[j] \in Nat
           /\ Cardinality(Targets(j) \union UNION {E[t] : t \in {x \in Targets(j) : itype[x] = "dirc"}})
                <= Met(m)[j]
  <1> DEFINE S == Ordinary(dir[j])
             g == [p \in S |-> 1 + Below(m, dir[j][p])]
             F == [p \in S |-> {dir[j][p].id} \union
                                 (IF itype[dir[j][p].id] = "dirc" THEN E[dir[j][p].id] ELSE {})]
  <1>1. IsFiniteSet(S)
    BY OrdinaryIsFinite DEF SearchDefined
  <1>2. PICK h : Sums(h, S, g) /\ Met(m)[j] = h[S]
    BY MetIsSum
  <1>3. IsFiniteSet(Inodes)
    <2>1. InodeCount \in Nat
      BY NamespaceAssumption
    <2> QED
      BY <2>1, FS_Interval DEF Inodes
  <1>4. ASSUME NEW p \in S
        PROVE  g[p] \in Nat /\ IsFiniteSet(F[p]) /\ Cardinality(F[p]) <= g[p]
    <2> DEFINE t == dir[j][p].id
               B == IF itype[t] = "dirc" THEN E[t] ELSE {}
               b == Below(m, dir[j][p])
    <2>1. t \in Inodes
      BY DEF SearchDefined
    <2>2. b = IF itype[t] = "dirc" THEN m[t] ELSE 0
      BY DEF Below
    <2>3. F[p] = B \union {t} /\ g[p] = 1 + b
      OBVIOUS
    <2>4. IsFiniteSet(B) /\ Cardinality(B) <= b /\ b \in Nat
      <3>1. IsFiniteSet(E[t])
        BY <1>3, <2>1, FS_Subset
      <3>2. Cardinality({}) = 0 /\ IsFiniteSet({})
        BY FS_EmptySet
      <3> HIDE DEF t, b
      <3> QED
        BY <2>1, <2>2, <3>1, <3>2
    <2> HIDE DEF t, B, b, F, g
    <2>5. IsFiniteSet(B \union {t}) /\ Cardinality(B \union {t}) <= Cardinality(B) + 1
          /\ Cardinality(B) \in Nat /\ Cardinality(B \union {t}) \in Nat
      <3>1. /\ IsFiniteSet(B \union {t})
            /\ Cardinality(B \union {t}) = IF t \in B THEN Cardinality(B) ELSE Cardinality(B) + 1
        BY <2>4, FS_AddElement
      <3>2. Cardinality(B) \in Nat
        BY <2>4, FS_CardinalityType
      <3> QED
        BY <3>1, <3>2
    <2> QED
      BY <2>3, <2>4, <2>5
  <1>5. h[S] \in Nat /\ Cardinality(UNION {F[p] : p \in S}) <= h[S]
    <2>1. g \in [S -> Nat]
      <3>1. g = [p \in S |-> g[p]]
        OBVIOUS
      <3> HIDE DEF g, S
      <3> QED
        BY <1>4, <3>1
    <2> HIDE DEF g, F, S
    <2> QED
      BY <1>1, <1>2, <1>4, <2>1, SumBoundsUnion
  <1>6. Targets(j) \union UNION {E[t] : t \in {x \in Targets(j) : itype[x] = "dirc"}}
          = UNION {F[p] : p \in S}
    <2>1. \A t : t \in Targets(j) <=> \E p \in S : t = dir[j][p].id
      BY DEF Targets
    <2>2. \A x : x \in UNION {F[p] : p \in S} <=> \E p \in S : x \in F[p]
      OBVIOUS
    <2>3. ASSUME NEW p \in S, NEW x
          PROVE  x \in F[p] <=> (x = dir[j][p].id \/ (itype[dir[j][p].id] = "dirc" /\ x \in E[dir[j][p].id]))
      <3> DEFINE t == dir[j][p].id
                 e == E[t]
                 c == itype[t] = "dirc"
      <3>1. F[p] = {t} \union (IF c THEN e ELSE {})
        OBVIOUS
      <3> HIDE DEF F, t, e, c
      <3>2. x \in F[p] <=> x = t \/ (c /\ x \in e)
        BY <3>1
      <3> QED
        BY <3>2 DEF t, e, c
    <2> HIDE DEF F, S
    <2>4. \A x : x \in UNION {E[t] : t \in {y \in Targets(j) : itype[y] = "dirc"}}
                   <=> \E t \in Targets(j) : itype[t] = "dirc" /\ x \in E[t]
      OBVIOUS
    <2> DEFINE L == UNION {E[t] : t \in {y \in Targets(j) : itype[y] = "dirc"}}
               R == UNION {F[p] : p \in S}
    <2>5. \A x : x \in L <=> \E t \in Targets(j) : itype[t] = "dirc" /\ x \in E[t]
      BY <2>4
    <2>6. \A x : x \in R <=> \E p \in S : x \in F[p]
      BY <2>2
    <2> SUFFICES Targets(j) \union L = R
      OBVIOUS
    <2> HIDE DEF L, R
    <2>7. ASSUME NEW x, x \in R PROVE x \in Targets(j) \union L
      <3>1. PICK p \in S : x \in F[p]
        BY <2>6, <2>7
      <3>2. dir[j][p].id \in Targets(j)
        BY <2>1
      <3> QED
        BY <2>3, <2>5, <3>1, <3>2
    <2>8. ASSUME NEW x, x \in Targets(j) PROVE x \in R
      <3>1. PICK p \in S : x = dir[j][p].id
        BY <2>1, <2>8
      <3>2. x \in F[p] <=> (x = dir[j][p].id \/ (itype[dir[j][p].id] = "dirc" /\ x \in E[dir[j][p].id]))
        BY <2>3
      <3>3. x \in F[p]
        BY <3>1, <3>2
      <3> QED
        BY <2>6, <3>3
    <2>9. ASSUME NEW x, x \in L PROVE x \in R
      <3>1. PICK t \in Targets(j) : itype[t] = "dirc" /\ x \in E[t]
        BY <2>5, <2>9
      <3>2. PICK p \in S : t = dir[j][p].id
        BY <2>1
      <3>3. x \in F[p] <=> (x = dir[j][p].id \/ (itype[dir[j][p].id] = "dirc" /\ x \in E[dir[j][p].id]))
        BY <2>3
      <3>4. x \in F[p]
        BY <3>1, <3>2, <3>3
      <3> QED
        BY <2>6, <3>4
    <2> QED
      BY <2>7, <2>8, <2>9
  <1> QED
    BY <1>2, <1>5, <1>6

\* Meetings() does the sum InodeCount times more.
Zero == [j \in Inodes |-> 0]
LEMMA MeetingSteps ==
    ASSUME SearchDefined, \A m \in [Inodes -> Nat] : Met(m) \in [Inodes -> Nat],
           NEW i \in Inodes
    PROVE  \E M \in [0 .. InodeCount -> [Inodes -> Nat]] :
             /\ M[0] = Met(Zero)
             /\ \A n \in 1 .. InodeCount : M[n] = Met(M[n - 1])
             /\ Meetings(i) = M[InodeCount][i]
  <1> DEFINE N == InodeCount
             X == [Inodes -> Nat]
             Step == [n \in 1 .. N |-> [m \in X |-> Met(m)]]
             Is(f) == f = [k \in 0 .. N |-> Met(IF k = 0 THEN Zero ELSE f[k - 1])]
             M == CHOOSE f : Is(f)
  <1>1. N \in Nat
    BY NamespaceAssumption
  <1>2. Met(Zero) \in X
    <2>1. Zero \in X
      BY DEF Zero
    <2> QED
      BY <2>1
  <1>3. PICK g \in [0 .. N -> X] : g[0] = Met(Zero) /\ \A n \in 1 .. N : g[n] = Step[n][g[n - 1]]
    <2>1. Step \in [1 .. N -> [X -> X]]
      OBVIOUS
    <2> HIDE DEF N, X, Step
    <2>2. Recursion(N, X, Met(Zero), Step) # {}
      BY <1>1, <1>2, <2>1, RecursionExists
    <2> QED
      BY <2>2 DEF Recursion
  <1>4. \A n \in 1 .. N : g[n] = Met(g[n - 1])
    <2> SUFFICES ASSUME NEW n \in 1 .. N PROVE g[n] = Met(g[n - 1])
      OBVIOUS
    <2>1. n - 1 \in 0 .. N
      BY <1>1
    <2> HIDE DEF X
    <2>2. g[n - 1] \in X
      BY <2>1
    <2> QED
      BY <1>3, <2>2
  <1>5. Is(g)
    <2> HIDE DEF N, X
    <2>1. \A k \in 0 .. N : g[k] = Met(IF k = 0 THEN Zero ELSE g[k - 1])
      BY <1>1, <1>3, <1>4
    <2> QED
      BY <2>1
  <1>6. Is(M)
    <2> HIDE DEF Is
    <2> QED
      BY <1>5
  <1> HIDE DEF M
  <1>7. M[0] = Met(Zero) /\ \A n \in 1 .. N : M[n] = Met(M[n - 1])
    <2> HIDE DEF N
    <2>1. \A k \in 0 .. N : M[k] = Met(IF k = 0 THEN Zero ELSE M[k - 1])
      BY <1>6
    <2>2. 0 \in 0 .. N /\ \A n \in 1 .. N : n \in 0 .. N /\ n # 0
      BY <1>1
    <2> QED
      BY <2>1, <2>2
  <1>8. M \in [0 .. N -> X]
    <2> DEFINE G == {n \in 0 .. N : M[n] \in X}
    <2>1. 0 \in G
      <3> HIDE DEF N, X
      <3> QED
        BY <1>1, <1>2, <1>7
    <2>2. ASSUME NEW n \in 0 .. N - 1, n \in G PROVE n + 1 \in G
      <3>1. n + 1 \in 1 .. N /\ n + 1 \in 0 .. N /\ (n + 1) - 1 = n
        BY <1>1
      <3> HIDE DEF N
      <3>2. M[n + 1] = Met(M[n])
        BY <1>7, <3>1
      <3> QED
        BY <2>2, <3>1, <3>2
    <2>3. 0 .. N \subseteq G
      <3> HIDE DEF N, G
      <3> QED
        BY <1>1, <2>1, <2>2, SetInduction
    <2>4. M = [n \in 0 .. N |-> M[n]]
      <3> HIDE DEF N
      <3> QED
        BY <1>6
    <2> HIDE DEF N, X
    <2> QED
      BY <2>3, <2>4
  <1>9. Meetings(i) = M[N][i]
    <2> DEFINE B(f) == f = [k \in 0 .. InodeCount |->
          LET m == IF k = 0 THEN [j \in Inodes |-> 0] ELSE f[k - 1]
              Blw(r) == IF itype[r.id] = "dirc" THEN m[r.id] ELSE 0
          IN  [j \in Inodes |-> MapThenSumSet(LAMBDA p : 1 + Blw(dir[j][p]), Ordinary(dir[j]))]]
    <2>1. \A f : B(f) <=> Is(f)
      BY DEF Met, Below, Zero
    <2>2. Meetings(i) = (CHOOSE f : B(f))[InodeCount][i]
      BY DEF Meetings
    <2>3. (CHOOSE f : B(f)) = M
      <3> HIDE DEF B, Is
      <3> QED
        BY <2>1 DEF M
    <2> HIDE DEF B, M
    <2> QED
      BY <2>2, <2>3
  <1> QED
    BY <1>7, <1>8, <1>9

\* What is met on one level more, below each inode.
UnderOf(E, i) == Targets(i) \union UNION {E[t] : t \in {x \in Targets(i) : itype[x] = "dirc"}}
Under(E) == [i \in Inodes |-> UnderOf(E, i)]

LEMMA UnderIs ==
    ASSUME TargetsAreInodes, NEW E \in [Inodes -> SUBSET Inodes], NEW i \in Inodes
    PROVE  /\ UnderOf(E, i) \subseteq Inodes
           /\ \A x : x \in UnderOf(E, i) <=>
                x \in Targets(i) \/ (\E t \in Targets(i) : itype[t] = "dirc" /\ x \in E[t])
  <1>1. Targets(i) \subseteq Inodes
    BY DEF TargetsAreInodes
  <1>2. \A x : x \in UnderOf(E, i) <=>
                x \in Targets(i) \/ (\E t \in Targets(i) : itype[t] = "dirc" /\ x \in E[t])
    BY DEF UnderOf
  <1> QED
    BY <1>1, <1>2

LEMMA UnderSteps ==
    ASSUME TargetsAreInodes
    PROVE  \E E \in [0 .. InodeCount -> [Inodes -> SUBSET Inodes]] :
             /\ E[0] = [i \in Inodes |-> Targets(i)]
             /\ \A n \in 1 .. InodeCount : E[n] = Under(E[n - 1])
  <1> DEFINE N == InodeCount
             X == [Inodes -> SUBSET Inodes]
             c == [i \in Inodes |-> Targets(i)]
             Step == [n \in 1 .. N |-> [s \in X |-> Under(s)]]
  <1>1. N \in Nat
    BY NamespaceAssumption
  <1>2. c \in X
    BY DEF TargetsAreInodes
  <1>3. Step \in [1 .. N -> [X -> X]]
    <2>1. ASSUME NEW s \in X PROVE Under(s) \in X
      BY UnderIs DEF Under
    <2> QED
      BY <2>1
  <1> HIDE DEF N, X, c
  <1>4. PICK g \in [0 .. N -> X] : g[0] = c /\ \A n \in 1 .. N : g[n] = Step[n][g[n - 1]]
    <2> HIDE DEF Step
    <2>1. Recursion(N, X, c, Step) # {}
      BY <1>1, <1>2, <1>3, RecursionExists
    <2> QED
      BY <2>1 DEF Recursion
  <1>5. \A n \in 1 .. N : g[n] = Under(g[n - 1])
    <2> SUFFICES ASSUME NEW n \in 1 .. N PROVE g[n] = Under(g[n - 1])
      OBVIOUS
    <2>1. n - 1 \in 0 .. N
      BY <1>1
    <2>2. g[n - 1] \in X
      BY <2>1
    <2> QED
      BY <1>4, <2>2
  <1> QED
    BY <1>4, <1>5 DEF N, X, c

\* A search that stops counts every inode it meets, at least once.
LEMMA MeetingsBound ==
    ASSUME SearchDefined, NEW i \in Inodes
    PROVE  Meetings(i) \in Nat /\ Cardinality(Seen(i)) <= Meetings(i)
  <1> DEFINE N == InodeCount
  <1>1. TargetsAreInodes
    BY DEF SearchDefined, TargetsAreInodes, Targets
  <1>2. N \in Nat /\ IsFiniteSet(Inodes)
    <2>1. N \in Nat
      BY NamespaceAssumption
    <2> HIDE DEF N
    <2>2. IsFiniteSet(1 .. N)
      BY <2>1, FS_Interval
    <2> QED
      BY <2>1, <2>2 DEF Inodes, N
  <1>3. PICK S \in [0 .. N -> SUBSET Inodes] :
          /\ S[0] = Targets(i)
          /\ \A n \in 1 .. N : S[n] = Deeper(S[n - 1])
          /\ Seen(i) = S[N]
    BY <1>1, SearchSteps
  <1>4. PICK E \in [0 .. N -> [Inodes -> SUBSET Inodes]] :
          /\ E[0] = [j \in Inodes |-> Targets(j)]
          /\ \A n \in 1 .. N : E[n] = Under(E[n - 1])
    BY <1>1, UnderSteps
  <1>5. \A m \in [Inodes -> Nat] : Met(m) \in [Inodes -> Nat]
    <2> SUFFICES ASSUME NEW m \in [Inodes -> Nat] PROVE Met(m) \in [Inodes -> Nat]
      OBVIOUS
    <2> DEFINE none == [j \in Inodes |-> {}]
    <2>1. none \in [Inodes -> SUBSET Inodes] /\ \A j \in Inodes : Cardinality(none[j]) <= m[j]
      <3>1. Cardinality({}) = 0
        BY FS_EmptySet
      <3> QED
        BY <3>1
    <2> HIDE DEF none
    <2>2. \A j \in Inodes : Met(m)[j] \in Nat
      BY <2>1, MetBounds
    <2>3. Met(m) = [j \in Inodes |-> Met(m)[j]]
      BY DEF Met
    <2> HIDE DEF Met
    <2> QED
      BY <2>2, <2>3
  <1>6. PICK M \in [0 .. N -> [Inodes -> Nat]] :
          /\ M[0] = Met(Zero)
          /\ \A n \in 1 .. N : M[n] = Met(M[n - 1])
          /\ Meetings(i) = M[N][i]
    BY <1>5, MeetingSteps
  <1> HIDE DEF N
  <1>7. ASSUME NEW n \in 0 .. N - 1
        PROVE  /\ n \in 0 .. N /\ n + 1 \in 0 .. N /\ S[n] \in SUBSET Inodes
               /\ E[n] \in [Inodes -> SUBSET Inodes] /\ M[n] \in [Inodes -> Nat]
               /\ S[n + 1] = Deeper(S[n]) /\ M[n + 1] = Met(M[n])
               /\ \A j \in Inodes : E[n + 1][j] = UnderOf(E[n], j)
    <2>1. n + 1 \in 1 .. N /\ (n + 1) - 1 = n /\ n \in 0 .. N /\ n + 1 \in 0 .. N
      BY <1>2
    <2>2. S[n + 1] = Deeper(S[n]) /\ M[n + 1] = Met(M[n]) /\ E[n + 1] = Under(E[n])
      BY <1>3, <1>4, <1>6, <2>1
    <2> QED
      BY <2>1, <2>2 DEF Under
  \* What is met goes down in the one order as in the other.
  <1> DEFINE D == {n \in 0 .. N : n < N => \A j \in Inodes : Deeper(E[n][j]) \subseteq E[n + 1][j]}
  <1>8. 0 \in D
    <2> SUFFICES ASSUME 0 < N, NEW j \in Inodes, NEW x, x \in Deeper(E[0][j])
                 PROVE  x \in E[0 + 1][j]
      BY <1>2
    <2>1. 0 \in 0 .. N - 1
      BY <1>2
    <2>2. E[0 + 1][j] = UnderOf(E[0], j) /\ E[0] \in [Inodes -> SUBSET Inodes]
      BY <1>7, <2>1
    <2>3. E[0][j] = Targets(j) /\ Targets(j) \subseteq Inodes
      BY <1>1, <1>4 DEF TargetsAreInodes
    <2>4. x \in Targets(j) \/ (\E t \in Targets(j) : itype[t] = "dirc" /\ x \in Targets(t))
      BY <1>1, <2>3, DeeperIs
    <2>5. \A t \in Targets(j) : E[0][t] = Targets(t)
      BY <1>4, <2>3
    <2> QED
      BY <1>1, <2>2, <2>4, <2>5, UnderIs
  <1>9. ASSUME NEW n \in 0 .. N - 1, n \in D PROVE n + 1 \in D
    <2> SUFFICES ASSUME n + 1 < N, NEW j \in Inodes, NEW x, x \in Deeper(E[n + 1][j])
                 PROVE  x \in E[(n + 1) + 1][j]
      BY <1>2
    <2>1. n + 1 \in 0 .. N - 1 /\ n < N /\ n \in 0 .. N
      BY <1>2
    <2>2. /\ E[n] \in [Inodes -> SUBSET Inodes] /\ E[n + 1] \in [Inodes -> SUBSET Inodes]
          /\ \A k \in Inodes : /\ E[n + 1][k] = UnderOf(E[n], k)
                               /\ E[(n + 1) + 1][k] = UnderOf(E[n + 1], k)
      BY <1>7, <2>1
    <2>3. \A k \in Inodes : Deeper(E[n][k]) \subseteq E[n + 1][k]
      BY <1>9, <2>1
    <2>4. Targets(j) \subseteq Inodes
      BY <1>1 DEF TargetsAreInodes
    <2>5. \A y : y \in E[n + 1][j] <=>
            y \in Targets(j) \/ (\E t \in Targets(j) : itype[t] = "dirc" /\ y \in E[n][t])
      BY <1>1, <2>2, UnderIs
    <2>6. \A y : y \in E[(n + 1) + 1][j] <=>
            y \in Targets(j) \/ (\E t \in Targets(j) : itype[t] = "dirc" /\ y \in E[n + 1][t])
      <3>1. E[(n + 1) + 1][j] = UnderOf(E[n + 1], j) /\ E[n + 1] \in [Inodes -> SUBSET Inodes]
        BY <2>2
      <3> DEFINE e == E[n + 1]
                 f == E[(n + 1) + 1][j]
      <3> SUFFICES \A y : y \in f <=> y \in Targets(j) \/ (\E t \in Targets(j) : itype[t] = "dirc" /\ y \in e[t])
        OBVIOUS
      <3> HIDE DEF e, f
      <3> QED
        BY <1>1, <3>1, UnderIs DEF e, f
    <2>7. \A t \in Targets(j) : /\ E[n][t] \in SUBSET Inodes
                                /\ \A y : y \in Deeper(E[n][t]) => y \in E[n + 1][t]
      BY <2>2, <2>3, <2>4
    <2>8. \A t \in Targets(j) : \A y : y \in Deeper(E[n][t]) <=>
            y \in E[n][t] \/ (\E h \in E[n][t] : itype[h] = "dirc" /\ y \in Targets(h))
      BY <1>1, <2>7, DeeperIs
    <2>9. ASSUME NEW y, y \in E[n + 1][j] PROVE y \in E[(n + 1) + 1][j]
      BY <2>5, <2>6, <2>7, <2>8, <2>9
    <2>10. CASE x \in E[n + 1][j]
      BY <2>9, <2>10
    <2>11. CASE \E h \in E[n + 1][j] : itype[h] = "dirc" /\ x \in Targets(h)
      <3>1. PICK h \in E[n + 1][j] : itype[h] = "dirc" /\ x \in Targets(h)
        BY <2>11
      <3>2. CASE h \in Targets(j)
        <4>1. x \in E[n + 1][h]
          <5>1. h \in Inodes
            BY <2>4, <3>2
          <5>2. E[n + 1][h] = UnderOf(E[n], h) /\ E[n] \in [Inodes -> SUBSET Inodes]
            BY <2>2, <5>1
          <5> DEFINE e == E[n]
                     f == E[n + 1][h]
          <5> SUFFICES x \in f
            OBVIOUS
          <5> HIDE DEF e, f
          <5>3. x \in UnderOf(e, h)
            BY <1>1, <3>1, <5>1, <5>2, UnderIs DEF e
          <5> QED
            BY <5>2, <5>3 DEF e, f
        <4> QED
          BY <2>6, <3>1, <3>2, <4>1
      <3>3. CASE \E t \in Targets(j) : itype[t] = "dirc" /\ h \in E[n][t]
        <4>1. PICK t \in Targets(j) : itype[t] = "dirc" /\ h \in E[n][t]
          BY <3>3
        <4>2. x \in E[n + 1][t]
          BY <2>7, <2>8, <3>1, <4>1
        <4> QED
          BY <2>6, <4>1, <4>2
      <3> QED
        BY <2>5, <3>2, <3>3
    <2> QED
      <3>1. E[n + 1][j] \in SUBSET Inodes
        BY <2>2
      <3> QED
        BY <1>1, <2>10, <2>11, <3>1, DeeperIs
  <1>10. \A n \in 0 .. N : n \in D
    <2>1. 0 .. N \subseteq D
      <3> HIDE DEF D
      <3> QED
        BY <1>2, <1>8, <1>9, SetInduction
    <2> HIDE DEF D
    <2> QED
      BY <2>1
  <1> DEFINE B == {n \in 0 .. N : /\ S[n] \subseteq E[n][i]
                                  /\ \A j \in Inodes : Cardinality(E[n][j]) <= M[n][j]}
  <1>11. 0 \in B
    <2>1. 0 \in 0 .. N
      BY <1>2
    <2>2. S[0] \subseteq E[0][i]
      BY <1>3, <1>4
    <2>3. ASSUME NEW j \in Inodes PROVE Cardinality(E[0][j]) <= M[0][j]
      <3> DEFINE none == [k \in Inodes |-> {}]
      <3>1. none \in [Inodes -> SUBSET Inodes] /\ Zero \in [Inodes -> Nat]
        BY DEF Zero
      <3>2. \A k \in Inodes : Cardinality(none[k]) <= Zero[k]
        <4>1. Cardinality({}) = 0
          BY FS_EmptySet
        <4> QED
          BY <4>1 DEF Zero
      <3>3. E[0][j] = UnderOf(none, j)
        <4>1. Targets(j) \subseteq Inodes /\ E[0][j] = Targets(j)
          BY <1>1, <1>4 DEF TargetsAreInodes
        <4>2. \A t \in Inodes : none[t] = {}
          OBVIOUS
        <4> HIDE DEF none
        <4> QED
          BY <1>1, <3>1, <4>1, <4>2, UnderIs
      <3> HIDE DEF none
      <3>4. Cardinality(UnderOf(none, j)) <= Met(Zero)[j]
        BY <3>1, <3>2, MetBounds DEF UnderOf
      <3> QED
        BY <1>6, <3>3, <3>4
    <2> QED
      BY <2>1, <2>2, <2>3
  <1>12. ASSUME NEW n \in 0 .. N - 1, n \in B PROVE n + 1 \in B
    <2>1. n < N /\ n \in 0 .. N /\ n + 1 \in 0 .. N
      BY <1>2
    <2>2. S[n + 1] \subseteq E[n + 1][i]
      <3>1. S[n + 1] = Deeper(S[n]) /\ S[n] \subseteq E[n][i] /\ S[n] \in SUBSET Inodes
        BY <1>7, <1>12
      <3>2. Deeper(E[n][i]) \subseteq E[n + 1][i] /\ E[n][i] \in SUBSET Inodes
        BY <1>7, <1>10, <2>1
      <3>3. Deeper(S[n]) \subseteq Deeper(E[n][i])
        BY <1>1, <3>1, <3>2, DeeperIs
      <3> QED
        BY <3>1, <3>2, <3>3
    <2>3. ASSUME NEW j \in Inodes PROVE Cardinality(E[n + 1][j]) <= M[n + 1][j]
      <3>1. /\ E[n] \in [Inodes -> SUBSET Inodes] /\ M[n] \in [Inodes -> Nat]
            /\ M[n + 1] = Met(M[n]) /\ E[n + 1][j] = UnderOf(E[n], j)
        BY <1>7
      <3>2. \A k \in Inodes : Cardinality(E[n][k]) <= M[n][k]
        BY <1>12
      <3>3. Cardinality(UnderOf(E[n], j)) <= Met(M[n])[j]
        BY <3>1, <3>2, MetBounds DEF UnderOf
      <3> QED
        BY <3>1, <3>3
    <2> QED
      BY <2>1, <2>2, <2>3
  <1>13. N \in B /\ N \in 0 .. N
    <2>1. 0 .. N \subseteq B
      <3> HIDE DEF B
      <3> QED
        BY <1>2, <1>11, <1>12, SetInduction
    <2> HIDE DEF B
    <2> QED
      BY <1>2, <2>1
  <1>14. /\ S[N] \subseteq E[N][i] /\ Cardinality(E[N][i]) <= M[N][i]
         /\ M[N][i] \in Nat /\ E[N][i] \subseteq Inodes
    BY <1>13
  <1>15. IsFiniteSet(E[N][i]) /\ Cardinality(S[N]) <= Cardinality(E[N][i])
    <2>1. IsFiniteSet(E[N][i])
      BY <1>2, <1>14, FS_Subset
    <2> QED
      BY <1>14, <2>1, FS_Subset
  <1>16. Cardinality(S[N]) \in Nat /\ Cardinality(E[N][i]) \in Nat
    <2>1. IsFiniteSet(S[N])
      BY <1>14, <1>15, FS_Subset
    <2> QED
      BY <1>15, <2>1, FS_CardinalityType
  <1> QED
    BY <1>3, <1>6, <1>14, <1>15, <1>16

------------------------------------------------------------------------------
(* Ordinary use                                                            *)

\* The records that name an item are the targets of its directory.
LEMMA TargetsAreRecords ==
    ASSUME IInv, NEW i \in Inodes
    PROVE  \A x : x \in Targets(i) <=> \E q \in Spots : q[1] = i /\ At(q).id = x
  <1> TAKE x
  <1>1. ASSUME x \in Targets(i) PROVE \E q \in Spots : q[1] = i /\ At(q).id = x
    <2>1. PICK k \in Ordinary(dir[i]) : x = dir[i][k].id
      BY <1>1 DEF Targets
    <2>2. k \in Nat
      BY OrdinaryIsNumber
    <2>3. <<i, k>> \in Spots
      BY <2>2, SpotShape
    <2>4. At(<<i, k>>).id = x /\ <<i, k>>[1] = i
      BY <2>1 DEF At
    <2> QED
      BY <2>3, <2>4
  <1>2. ASSUME NEW q \in Spots, q[1] = i, At(q).id = x PROVE x \in Targets(i)
    <2>1. q[2] \in Ordinary(dir[i])
      BY <1>2, SpotShape
    <2> QED
      BY <1>2, <2>1 DEF At, Targets
  <1> QED
    BY <1>1, <1>2

\* Every item but the pending one has a record.
LEMMA HangsSomewhere ==
    ASSUME Whole, NEW i \in InUse \ ({RootId} \union Pending)
    PROVE  \E q \in Spots : At(q).id = i
  <1> SUFFICES ASSUME \A q \in Spots : At(q).id # i PROVE FALSE
    OBVIOUS
  <1>1. ClosedBelow(Inodes \ {i})
    BY DEF ClosedBelow, Whole, RecordsKnown, InUse
  <1>2. Inodes \ {i} \in SUBSET Inodes /\ i \in Inodes
    BY DEF InUse
  <1> QED
    BY <1>1, <1>2 DEF Whole, Rooted

\* ... and a directory is in the one that its ".." names.
LEMMA ParentNamesIt ==
    ASSUME Whole, NEW i \in Inodes \ ({RootId} \union Pending), itype[i] = "dirc"
    PROVE  /\ HasId(dir[dir[i][2].id], i)
           /\ \E q \in Spots : At(q).id = i /\ q[1] = dir[i][2].id
  <1>1. PICK q \in Spots : At(q).id = i
    BY HangsSomewhere DEF InUse
  <1>2. dir[i][2].id = q[1]
    BY <1>1 DEF Whole, RecordsKnown
  <1>3. q[2] \in DOMAIN dir[q[1]] /\ dir[q[1]][q[2]].id = i
    BY <1>1, SpotShape DEF Whole, Ordinary, At
  <1> QED
    BY <1>1, <1>2, <1>3 DEF HasId

LEMMA WholeIsInTree == Whole => InTree /\ SearchDefined /\ TargetsAreInodes
  <1> SUFFICES ASSUME Whole PROVE InTree /\ SearchDefined /\ TargetsAreInodes
    OBVIOUS
  <1>1. InTree
    BY DEF Whole, InTree
  <1>2. ASSUME NEW i \in Inodes, NEW k \in Ordinary(dir[i]) PROVE dir[i][k].id \in Inodes
    <2>1. k \in Nat
      BY OrdinaryIsNumber DEF Whole
    <2>2. <<i, k>> \in Spots
      BY <2>1, SpotShape DEF Whole
    <2>3. At(<<i, k>>).id \in Inodes
      BY <2>2 DEF Whole, RecordsKnown, InUse
    <2> QED
      BY <2>3 DEF At
  <1> QED
    BY <1>1, <1>2 DEF SearchDefined, TargetsAreInodes, Targets, Whole

\* The search from the root meets all items in use between commands ...
LEMMA AllAreSeen ==
    ASSUME Whole, Pending = {}
    PROVE  Seen(RootId) = InUse \ {RootId}
  <1>1. TargetsAreInodes /\ RootId \in Inodes /\ IInv
    BY WholeIsInTree, RootIsInode DEF Whole
  <1>2. /\ Targets(RootId) \subseteq Seen(RootId) /\ Seen(RootId) \subseteq Inodes
        /\ \A j \in Seen(RootId) : itype[j] = "dirc" => Targets(j) \subseteq Seen(RootId)
    BY <1>1, SeenIsClosed
  <1>3. ClosedBelow(Seen(RootId))
    <2> SUFFICES ASSUME NEW q \in Spots, q[1] \in Seen(RootId) \union {RootId}
                 PROVE  At(q).id \in Seen(RootId)
      BY DEF ClosedBelow
    <2>1. q[1] \in Inodes /\ itype[q[1]] = "dirc"
      BY <1>1, HoldersAreDirectories DEF Whole
    <2>2. At(q).id \in Targets(q[1])
      BY <1>1, <2>1, TargetsAreRecords
    <2> QED
      BY <1>2, <2>1, <2>2
  <1>4. InUse \ {RootId} \subseteq Seen(RootId)
    BY <1>2, <1>3 DEF Whole, Rooted
  <1>5. \A i \in Inodes : Targets(i) \subseteq InUse \ {RootId}
    BY <1>1, TargetsAreRecords DEF Whole, RecordsKnown
  <1>6. Seen(RootId) \subseteq InUse \ {RootId}
    <2> HIDE DEF RootId
    <2> QED
      BY <1>1, <1>5, SeenIsLeast
  <1> QED
    BY <1>4, <1>6

\* ... so fsck finds nothing lost.
LEMMA NothingIsActive ==
    ASSUME Whole, Pending = {}
    PROVE  Active \in Int /\ Active <= 0
  <1>1. Seen(RootId) = InUse \ {RootId}
    BY AllAreSeen
  <1>2. Meetings(RootId) \in Nat /\ Cardinality(Seen(RootId)) <= Meetings(RootId)
    BY WholeIsInTree, RootIsInode, MeetingsBound
  <1>3. Cardinality(Seen(RootId)) \in Nat
    <2>1. InodeCount \in Nat
      BY NamespaceAssumption
    <2>2. IsFiniteSet(Inodes)
      BY <2>1, FS_Interval DEF Inodes
    <2>3. IsFiniteSet(InUse \ {RootId})
      BY <2>2, FS_Subset DEF InUse
    <2> QED
      BY <1>1, <2>3, FS_CardinalityType
  <1> QED
    BY <1>1, <1>2, <1>3 DEF Active

\* cd can name its directory in the prompt.
LEMMA CdFindsItsWay ==
    ASSUME Whole, Pending = {}, NEW i \in Inodes, itype[i] = "dirc"
    PROVE  ClimbFrom(i) \in {"root", "cut"}
  BY WholeIsInTree, ParentNamesIt, ClimbSucceeds

------------------------------------------------------------------------------
(* What a step does to the tree                                            *)

\* Nothing.
Quiet ==
    /\ SameRecords /\ \A q \in Spots : itype'[At(q).id] = itype[At(q).id]
    /\ op.at # "unlink" /\ op'.at # "unlink"

\* It puts the pending item into its directory.
Creates ==
    /\ op.at = "add" /\ op'.at = "idle" /\ UNCHANGED itype
    /\ \E q : q[1] = op.par /\ GainsAt(q, NewItem)

\* It takes one out that has nothing below it.
Removes ==
    /\ op.at = "idle" /\ op'.at = "free" /\ UNCHANGED itype
    /\ \E q \in Spots : LosesAt(q) /\ \A r \in Spots : r[1] # At(q).id

\* It puts a file into a second place, and is to take it out of the first.
Moves ==
    /\ op.at = "idle" /\ op'.at = "unlink" /\ UNCHANGED itype
    /\ \E q \in Spots : \E n, r :
         /\ itype[At(q).id] = "file" /\ r.id = At(q).id
         /\ GainsAt(n, r)
         /\ n[1] \in Inodes /\ itype[n[1]] = "dirc" /\ ~Has(dir[n[1]], r.name)
         /\ op'.par = q[1] /\ op'.name = At(q).name /\ op'.child = At(q).id

\* It takes it out.
Unlinks ==
    /\ op.at = "unlink" /\ op'.at = "idle" /\ UNCHANGED itype
    /\ \E q : LosesAt(q) /\ q[1] = op.par /\ At(q) = Item(op.name, op.child)

------------------------------------------------------------------------------
(* What a step keeps                                                       *)

\* What the user does in ordinary use, see Unusual; and a directory can hold a
\* record of every inode.
OrdinaryUse == Unusual = {} /\ MaxItems >= InodeCount + DirItems

LEMMA NoneOrdinary == Ordinary(<<>>) = {}
  <1>1. <<>> \in Seq(Records) /\ Len(<<>>) = 0
    BY EmptySeq
  <1>2. DOMAIN <<>> = 1 .. 0
    BY <1>1, LenProperties
  <1> QED
    BY <1>2 DEF Ordinary

\* No new record.
Fewer == \A q \in Spots' : q \in Spots /\ At(q)' = At(q)

LEMMA KnownStays ==
    ASSUME RecordsKnown, Fewer, RootId' = RootId,
           \A q \in Spots' : /\ itype'[At(q).id] = itype[At(q).id]
                             /\ itype[At(q).id] = "dirc" => dir'[At(q).id][2] = dir[At(q).id][2]
    PROVE  RecordsKnown'
  <1> SUFFICES ASSUME NEW q \in Spots'
               PROVE  /\ At(q)'.id \in InUse' \ {RootId}
                      /\ itype'[At(q)'.id] = "dirc" => dir'[At(q)'.id][2].id = q[1]
    BY DEF RecordsKnown
  <1>1. q \in Spots /\ At(q)' = At(q)
    BY DEF Fewer
  <1>2. /\ At(q).id \in InUse \ {RootId}
        /\ itype[At(q).id] = "dirc" => dir[At(q).id][2].id = q[1]
    BY <1>1 DEF RecordsKnown
  <1> QED
    BY <1>1, <1>2 DEF InUse

LEMMA OnceStays ==
    ASSUME \A q, r \in Spots : q # r => At(q).id # At(r).id, Fewer
    PROVE  Once'
  <1> SUFFICES ASSUME NEW q \in Spots', NEW r \in Spots', q # r
               PROVE  At(q)'.id # At(r)'.id
    BY DEF Once
  <1> QED
    BY DEF Fewer

\* The records change in directories that keep their heads.
LEMMA DirectoriesStay ==
    ASSUME Directories, UNCHANGED <<itype, ibm>>, itype[cwd'] = "dirc", SameHeads,
           \A i \in Inodes : itype[i] # "dirc" => dir'[i] = dir[i]
    PROVE  Directories'
  <1>1. ASSUME NEW i \in Inodes
        PROVE  /\ ibm'[i] <=> itype'[i] = "free"
               /\ IF itype'[i] = "dirc" THEN Shaped(i, dir'[i]) /\ itype'[dir'[i][2].id] = "dirc"
                                        ELSE dir'[i] = <<>>
    BY DEF Directories, SameHeads
  <1>2. itype'[RootId] = "dirc" /\ dir'[RootId][2].id = RootId
    BY RootIsInode DEF Directories, SameHeads
  <1> QED
    BY <1>1, <1>2 DEF Directories, Shaped

LEMMA SameIsFewer == SameRecords => Fewer
  BY DEF SameRecords, Fewer

LEMMA LosesIsFewer == ASSUME NEW q, LosesAt(q) PROVE Fewer
  BY DEF LosesAt, Fewer

\* A step that changes no record and no inode.
LEMMA NothingChanges ==
    ASSUME Whole, IInv', ~err', op.at = "idle", op'.at = "idle",
           UNCHANGED <<itype, ibm, dir>>, itype[cwd'] = "dirc"
    PROVE  Whole' /\ Quiet
  <1>1. SameRecords
    BY RecordsStay
  <1>2. Directories'
    <2>1. SameHeads
      BY DEF SameHeads, Whole, Directories
    <2> QED
      BY <2>1, DirectoriesStay DEF Whole
  <1>3. RecordsKnown'
    BY <1>1, SameIsFewer, KnownStays DEF Whole, RootId
  <1>4. Once'
    <2>1. \A q, r \in Spots : q # r => At(q).id # At(r).id
      BY DEF Whole, Once
    <2> QED
      BY <1>1, <2>1, SameIsFewer, OnceStays
  <1>5. Pending = {} /\ Pending' = {}
    BY DEF Pending
  <1>6. Rooted'
    <2> SUFFICES ASSUME NEW S \in SUBSET Inodes, ClosedBelow(S)'
                 PROVE  InUse' \ ({RootId} \union Pending') \subseteq S
      BY DEF Rooted
    <2>1. ClosedBelow(S)
      BY <1>1 DEF ClosedBelow, SameRecords
    <2> QED
      BY <1>5, <2>1 DEF Whole, Rooted, InUse
  <1>7. OpKnown'
    BY DEF OpKnown
  <1> QED
    BY <1>1, <1>2, <1>3, <1>4, <1>6, <1>7 DEF Whole, Quiet

\* A record less.
LEMMA LosesKeeps ==
    ASSUME Whole, NEW q, LosesAt(q), SameHeads, UNCHANGED <<itype, ibm, cwd>>,
           \A i \in Inodes : itype[i] # "dirc" => dir'[i] = dir[i],
           \A r, s \in Spots : r # s /\ At(r).id = At(s).id => q \in {r, s}
    PROVE  Directories' /\ RecordsKnown' /\ Once'
  <1>1. Directories'
    BY DirectoriesStay DEF Whole, Directories
  <1>2. RecordsKnown'
    <2>1. \A s \in Spots : At(s).id \in Inodes
      BY DEF Whole, RecordsKnown, InUse
    <2>2. \A s \in Spots' : s \in Spots
      BY DEF LosesAt
    <2> QED
      BY <2>1, <2>2, LosesIsFewer, KnownStays DEF Whole, SameHeads, RootId
  <1>3. Once'
    BY DEF Once, LosesAt
  <1> QED
    BY <1>1, <1>2, <1>3

\* A record more, of an item in use.
LEMMA GainsKeeps ==
    ASSUME Whole, NEW q, NEW r, GainsAt(q, r), SameHeads, UNCHANGED <<itype, ibm, cwd>>,
           \A i \in Inodes : itype[i] # "dirc" => dir'[i] = dir[i],
           r.id \in InUse \ {RootId}, itype[r.id] = "dirc" => dir[r.id][2].id = q[1]
    PROVE  Directories' /\ RecordsKnown'
  <1>1. Directories'
    BY DirectoriesStay DEF Whole, Directories
  <1>2. RecordsKnown'
    <2> SUFFICES ASSUME NEW s \in Spots'
                 PROVE  /\ At(s)'.id \in InUse' \ {RootId}
                        /\ itype'[At(s)'.id] = "dirc" => dir'[At(s)'.id][2].id = s[1]
      BY DEF RecordsKnown
    <2>1. CASE s = q
      BY <2>1 DEF GainsAt, InUse, SameHeads
    <2>2. CASE s \in Spots
      <3>1. At(s)' = At(s)
        BY <2>2 DEF GainsAt
      <3> QED
        BY <2>2, <3>1 DEF Whole, RecordsKnown, InUse, SameHeads
    <2> QED
      BY <2>1, <2>2 DEF GainsAt
  <1> QED
    BY <1>1, <1>2

\* Commands write to directories.
------------------------------------------------------------------------------
(* The steps                                                               *)

\* A free inode is taken for a new item.
LEMMA TakingIsWhole ==
    ASSUME Whole, IInv', op.at = "idle", ~err', cwd' = cwd,
           NEW i \in Inodes, ibm[i], ibm' = [ibm EXCEPT ![i] = FALSE],
           NEW p \in Inodes, itype[p] = "dirc", NEW n, Plain(n), ~Has(dir[p], n),
           NEW cmd \in {"mkdir", "cp", "incp"},
           op'.at = "add" /\ op'.cmd = cmd /\ op'.child = i /\ op'.name = n /\ op'.par = p,
           itype' = [itype EXCEPT ![i] = IF cmd = "mkdir" THEN "dirc" ELSE "file"],
           \A j \in Inodes \ {i} : dir'[j] = dir[j],
           IF cmd = "mkdir" THEN Shaped(i, dir'[i]) /\ dir'[i][2].id = p /\ Ordinary(dir'[i]) = {}
                            ELSE dir'[i] = dir[i]
    PROVE  Whole' /\ Quiet
  <1>1. IInv /\ Directories /\ RecordsKnown /\ Once /\ Rooted
    BY DEF Whole
  <1>2. itype[i] = "free" /\ dir[i] = <<>> /\ Ordinary(dir[i]) = {}
    <2>1. itype[i] = "free" /\ dir[i] = <<>>
      BY <1>1 DEF Directories
    <2>2. Ordinary(<<>>) = {}
      BY NoneOrdinary
    <2> QED
      BY <2>1, <2>2
  <1>3. i # p /\ i # RootId /\ i # cwd /\ i \notin InUse
    BY <1>1, <1>2 DEF Directories, InUse
  <1>4. /\ \A j \in Inodes \ {i} : itype'[j] = itype[j] /\ (ibm'[j] <=> ibm[j])
        /\ itype'[i] = (IF cmd = "mkdir" THEN "dirc" ELSE "file") /\ ~ibm'[i]
    BY <1>1 DEF IInv
  <1>5. SameRecords
    <2>1. Ordinary(dir'[i]) = {}
      BY <1>2
    <2> QED
      BY <1>2, <2>1, RecordsStay
  <1>6. Directories'
    <2>1. ASSUME NEW j \in Inodes
          PROVE  /\ ibm'[j] <=> itype'[j] = "free"
                 /\ IF itype'[j] = "dirc" THEN Shaped(j, dir'[j]) /\ itype'[dir'[j][2].id] = "dirc"
                                          ELSE dir'[j] = <<>>
      <3>1. CASE j = i
        <4>1. ibm'[i] <=> itype'[i] = "free"
          BY <1>4
        <4>2. CASE cmd = "mkdir"
          BY <1>3, <1>4, <3>1, <4>1, <4>2
        <4>3. CASE cmd # "mkdir"
          BY <1>2, <1>4, <3>1, <4>1, <4>3
        <4> QED
          BY <4>2, <4>3
      <3>2. CASE j # i
        <4>1. /\ ibm[j] <=> itype[j] = "free"
              /\ IF itype[j] = "dirc" THEN Shaped(j, dir[j]) /\ itype[dir[j][2].id] = "dirc"
                                      ELSE dir[j] = <<>>
          BY <1>1 DEF Directories
        <4>2. itype[j] = "dirc" => dir[j][2].id \in Inodes
          BY <4>1 DEF Shaped
        <4>3. itype[j] = "dirc" => dir[j][2].id # i
          BY <1>2, <4>1
        <4> QED
          BY <1>4, <3>2, <4>1, <4>2, <4>3
      <3> QED
        BY <3>1, <3>2
    <2>2. itype'[RootId] = "dirc" /\ dir'[RootId][2].id = RootId
      BY <1>1, <1>3, <1>4, RootIsInode DEF Directories
    <2>3. itype'[cwd] = "dirc"
      BY <1>1, <1>3, <1>4 DEF Directories, IInv
    <2> QED
      BY <2>1, <2>2, <2>3 DEF Directories, Shaped
  <1>7. \A q \in Spots : At(q).id \in Inodes \ {i} /\ q[1] # i
    BY <1>1, <1>2, HoldersAreDirectories DEF RecordsKnown, InUse
  <1>8. RecordsKnown'
    <2>1. Fewer
      BY <1>5, SameIsFewer
    <2> QED
      BY <1>1, <1>4, <1>7, <2>1, KnownStays DEF Fewer, RootId
  <1>9. Once'
    <2>1. \A q, r \in Spots : q # r => At(q).id # At(r).id
      BY <1>1 DEF Once
    <2> QED
      BY <1>5, <2>1, SameIsFewer, OnceStays
  <1>10. Pending = {} /\ Pending' = {i}
    BY DEF Pending
  <1>11. Rooted'
    <2> SUFFICES ASSUME NEW S \in SUBSET Inodes, ClosedBelow(S)'
                 PROVE  InUse' \ ({RootId} \union Pending') \subseteq S
      BY DEF Rooted, Inodes, RootId
    <2>1. ClosedBelow(S)
      BY <1>5 DEF ClosedBelow, SameRecords, RootId
    <2>2. InUse \ {RootId} \subseteq S
      BY <1>1, <1>10, <2>1 DEF Rooted
    <2> QED
      BY <1>4, <1>10, <2>2 DEF InUse
  <1>12. OpKnown'
    <2>1. Making'
      <3>1. op'.par # op'.child /\ itype'[op'.par] = "dirc" /\ dir'[p] = dir[p]
        BY <1>3, <1>4
      <3>2. IF cmd = "mkdir" THEN itype'[i] = "dirc" /\ dir'[i][2].id = p ELSE itype'[i] = "file"
        BY <1>4
      <3> QED
        BY <3>1, <3>2 DEF Making
    <2>2. PendingKnown'
      <3>1. \A q \in Spots' : q[1] # i /\ At(q)'.id # i
        BY <1>5, <1>7 DEF SameRecords
      <3>2. itype'[i] # "free"
        BY <1>4
      <3> QED
        BY <1>3, <3>1, <3>2 DEF PendingKnown, Inodes, RootId
    <2> QED
      BY <2>1, <2>2 DEF OpKnown
  <1>13. Quiet
    BY <1>4, <1>5, <1>7 DEF Quiet
  <1> QED
    BY <1>6, <1>8, <1>9, <1>11, <1>12, <1>13 DEF Whole

\* The records mkdir gives a new directory.
FirstBlock(i, p) == NewDirItems(i, p) \o SubSeq(<<>>, DirItems + 1, Len(<<>>))

LEMMA FirstBlockShape ==
    ASSUME NEW i \in Inodes, NEW p \in Inodes
    PROVE  /\ Shaped(i, FirstBlock(i, p)) /\ FirstBlock(i, p)[2].id = p
           /\ Ordinary(FirstBlock(i, p)) = {} /\ FirstBlock(i, p) = NewDirItems(i, p)
  <1> DEFINE two == <<Item(Dot, i), Item(DotDot, p)>>
             rest == EmptyItems(DirItems - 2)
             e == NewDirItems(i, p)
             z == SubSeq(<<>>, DirItems + 1, Len(<<>>))
  <1>1. two \in Seq(Records) /\ Len(two) = 2 /\ two[1] = Item(Dot, i) /\ two[2] = Item(DotDot, p)
    BY DEF Item, Records, AllNames, Ids
  <1>2. DirItems \in Nat /\ DirItems >= 2 /\ DirItems - 2 \in Nat /\ DirItems + 1 \in Nat \ {0}
    <2>1. DirItems \in Nat /\ DirItems >= 2
      BY NamespaceAssumption
    <2> QED
      BY <2>1
  <1>3. rest \in Seq(Records) /\ Len(rest) = DirItems - 2 /\ \A k \in 1 .. DirItems - 2 : rest[k] = EmptyItem
    BY <1>2, EmptyItemsAreRecords
  <1>4. /\ e \in Seq(Records) /\ Len(e) = DirItems /\ e[1] = Item(Dot, i) /\ e[2] = Item(DotDot, p)
        /\ \A k \in 3 .. DirItems : e[k] = EmptyItem
    <2>1. e = two \o rest
      BY DEF NewDirItems
    <2> HIDE DEF two, rest, e
    <2>2. /\ e \in Seq(Records) /\ Len(e) = Len(two) + Len(rest)
          /\ \A k \in 1 .. Len(two) + Len(rest) :
               e[k] = IF k <= Len(two) THEN two[k] ELSE rest[k - Len(two)]
      BY <1>1, <1>3, <2>1, ConcatProperties
    <2>3. Len(two) + Len(rest) = DirItems
      BY <1>1, <1>2, <1>3
    <2>4. ASSUME NEW k \in 3 .. DirItems PROVE e[k] = EmptyItem
      <3>1. k \in 1 .. Len(two) + Len(rest) /\ ~(k <= Len(two)) /\ k - Len(two) \in 1 .. DirItems - 2
        BY <1>1, <1>2, <2>3
      <3> QED
        BY <1>3, <2>2, <3>1
    <2>5. 1 \in 1 .. Len(two) + Len(rest) /\ 2 \in 1 .. Len(two) + Len(rest) /\ 1 <= Len(two) /\ 2 <= Len(two)
      BY <1>1, <1>2, <2>3
    <2> QED
      BY <1>1, <2>2, <2>3, <2>4, <2>5
  <1>5. z \in Seq(Records) /\ Len(z) = 0
    <2>1. <<>> \in Dirs /\ Len(<<>>) = 0
      BY NoRecordsKeep
    <2>2. z \in Dirs /\ Len(z) = IF DirItems + 1 <= Len(<<>>) THEN Len(<<>>) - (DirItems + 1) + 1 ELSE 0
      BY <1>2, <2>1, RestKeeps
    <2>3. ~(DirItems + 1 <= Len(<<>>))
      BY <1>2, <2>1
    <2> QED
      BY <2>2, <2>3 DEF Dirs
  <1>6. z = <<>>
    BY <1>5, EmptySeq
  <1> HIDE DEF two, rest, e, z
  <1>7. e \o z = e
    BY <1>4, <1>6, ConcatEmptySeq
  <1>8. Shaped(i, e)
    BY <1>2, <1>4 DEF Shaped, Item
  <1>9. Ordinary(e) = {}
    <2>1. DOMAIN e = 1 .. DirItems
      BY <1>4, LenProperties
    <2>2. ASSUME NEW k \in 1 .. DirItems PROVE e[k].name \in {"", Dot, DotDot}
      <3>1. k = 1 \/ k = 2 \/ k \in 3 .. DirItems
        BY <1>2
      <3>2. e[1] = [name |-> Dot, id |-> i] /\ e[2] = [name |-> DotDot, id |-> p]
        BY <1>4 DEF Item
      <3>3. k \in 3 .. DirItems => e[k] = EmptyItem
        BY <1>4
      <3>4. e[k].name = Dot \/ e[k].name = DotDot \/ e[k].name = ""
        <4>1. k = 1 => e[k].name = Dot
          BY <3>2
        <4>2. k = 2 => e[k].name = DotDot
          BY <3>2
        <4>3. k \in 3 .. DirItems => e[k].name = ""
          <5>1. EmptyItem.name = ""
            BY DEF EmptyItem
          <5> QED
            BY <3>3, <5>1, Zenon
        <4> QED
          BY <3>1, <4>1, <4>2, <4>3, Zenon
      <3> QED
        BY <3>4, Zenon
    <2> QED
      BY <2>1, <2>2 DEF Ordinary
  <1>10. e[2].id = p
    BY <1>4 DEF Item
  <1> QED
    <2>1. FirstBlock(i, p) = e
      BY <1>7 DEF FirstBlock, e, z
    <2> QED
      BY <1>8, <1>9, <1>10, <2>1 DEF e

LEMMA StartMkdirIsWhole == ASSUME Whole, IInv', OrdinaryUse, StartMkdir PROVE Whole' /\ Quiet
  <1>1. PICK p \in DirPaths, n \in Names, i \in Inodes :
          /\ ~Has(dir[p], n) /\ MayBeParent(p)
          /\ TakeInode(i, "mkdir", n, p) /\ NewDirectory(i, p)
          /\ UNCHANGED err
    BY Zenon DEF StartMkdir, OrdinaryUse
  <1>2. op.at = "idle" /\ cwd' = cwd
    BY DEF StartMkdir
  <1>3. itype[p] # "file"
    BY <1>1 DEF MayBeParent, OrdinaryUse
  <1>4. p \in Inodes /\ itype[p] = "dirc"
    BY <1>3, WholeIsInTree, PathsLeadToDirectories
  <1>5. Plain(n)
    BY <1>1, <1>4, WholeIsInTree, FreshIsPlain, NamesAssumption
  <1>6. ibm[i] /\ ibm' = [ibm EXCEPT ![i] = FALSE]
    BY <1>1 DEF TakeInode, FirstFree
  <1>7. /\ op'.at = "add" /\ op'.cmd = "mkdir" /\ op'.child = i /\ op'.name = n /\ op'.par = p
    BY <1>1 DEF TakeInode, Begin
  <1>8. dir[i] = <<>>
    BY <1>6 DEF Whole, Directories
  <1>9. /\ itype' = [itype EXCEPT ![i] = "dirc"]
        /\ dir'[i] = FirstBlock(i, p)
        /\ \A j \in Inodes \ {i} : dir'[j] = dir[j]
    BY <1>1, <1>8 DEF NewDirectory, FirstBlock, Whole, IInv
  <1>10. Shaped(i, dir'[i]) /\ dir'[i][2].id = p /\ Ordinary(dir'[i]) = {}
    BY <1>4, <1>9, FirstBlockShape
  <1>11. ~err'
    BY <1>1 DEF Whole
  <1> QED
    BY <1>1, <1>2, <1>4, <1>5, <1>6, <1>7, <1>9, <1>10, <1>11, TakingIsWhole

LEMMA StartCopyIsWhole == ASSUME Whole, IInv', OrdinaryUse, StartCopy PROVE Whole' /\ Quiet
  <1>0. PICK f \in Found :
          /\ f.id \in void => "empty" \in Unusual
          /\ \E t \in Dests(f.name), i \in Inodes :
               /\ itype[t.par] # "file" /\ ~Has(dir[t.par], t.name)
               /\ TakeInode(i, IF f.id \in void THEN "cp0" ELSE "cp", t.name, t.par)
               /\ itype' = [itype EXCEPT ![i] = "file"]
    BY Zenon DEF StartCopy
  <1>1. PICK t \in Dests(f.name), i \in Inodes :
          /\ itype[t.par] # "file" /\ ~Has(dir[t.par], t.name)
          /\ TakeInode(i, IF f.id \in void THEN "cp0" ELSE "cp", t.name, t.par)
          /\ itype' = [itype EXCEPT ![i] = "file"]
    BY <1>0, Zenon
  <1>2. op.at = "idle" /\ UNCHANGED <<dir, cwd, err>>
    BY DEF StartCopy
  <1>3. f.id \notin void
    BY <1>0 DEF OrdinaryUse
  <1>4. TakeInode(i, "cp", t.name, t.par)
    BY <1>1, <1>3
  <1>5. t.par \in Inodes /\ itype[t.par] = "dirc" /\ (t.name = f.name \/ t.name \in Names) /\ f.name # ""
    BY <1>1, WholeIsInTree, DestsLeadToDirectories, FoundRecord
  <1>6. Plain(t.name)
    BY <1>1, <1>5, WholeIsInTree, FreshIsPlain, NamesAssumption
  <1>7. ibm[i] /\ ibm' = [ibm EXCEPT ![i] = FALSE]
    BY <1>4 DEF TakeInode, FirstFree
  <1>8. op'.at = "add" /\ op'.cmd = "cp" /\ op'.child = i /\ op'.name = t.name /\ op'.par = t.par
    BY <1>4 DEF TakeInode, Begin
  <1>9. ~err' /\ cwd' = cwd /\ dir' = dir
    BY <1>2 DEF Whole
  <1>10. itype' = [itype EXCEPT ![i] = IF "cp" = "mkdir" THEN "dirc" ELSE "file"]
    BY <1>1
  <1> DEFINE p == t.par
             n == t.name
  <1>11. /\ p \in Inodes /\ itype[p] = "dirc" /\ Plain(n) /\ ~Has(dir[p], n)
         /\ op'.at = "add" /\ op'.cmd = "cp" /\ op'.child = i /\ op'.name = n /\ op'.par = p
    BY <1>1, <1>5, <1>6, <1>8
  <1> HIDE DEF p, n
  <1> QED
    BY <1>2, <1>7, <1>9, <1>10, <1>11, TakingIsWhole

\* In ordinary use a bare name is looked up and written in the current directory.
LEMMA BareNameIsHere ==
    ASSUME Whole
    PROVE  BareName = {[at |-> cwd, par |-> cwd]}
  <1>1. cwd \in Inodes /\ Shaped(cwd, dir[cwd]) /\ dir[cwd] \in Dirs
    BY DEF Whole, IInv, Directories
  <1>2. 1 \in Named(dir[cwd], Dot)
    <2>1. DOMAIN dir[cwd] = 1 .. Len(dir[cwd]) /\ Len(dir[cwd]) \in Nat
      BY <1>1, DirShape DEF Whole
    <2> QED
      BY <1>1, <2>1 DEF Shaped, Named, Item
  <1>3. Named(dir[cwd], Dot) = {1}
    <2>1. ASSUME NEW k \in Named(dir[cwd], Dot) PROVE k = 1
      <3>1. k \in 1 .. Len(dir[cwd]) /\ dir[cwd][k].name = Dot /\ Len(dir[cwd]) \in Nat
        <4>1. DOMAIN dir[cwd] = 1 .. Len(dir[cwd]) /\ Len(dir[cwd]) \in Nat
          BY <1>1, DirShape DEF Whole
        <4> QED
          BY <2>1, <4>1 DEF Named
      <3>2. k = 2 => dir[cwd][k].name = DotDot
        BY <1>1 DEF Shaped
      <3>3. k \in 3 .. Len(dir[cwd]) => dir[cwd][k].name # Dot
        <4>1. EmptyItem.name # Dot
          BY DEF EmptyItem, Dot
        <4> QED
          BY <1>1, <4>1 DEF Shaped, Plain
      <3>4. k = 1 \/ k = 2 \/ k \in 3 .. Len(dir[cwd])
        BY <3>1
      <3> QED
        BY <3>1, <3>2, <3>3, <3>4 DEF Dot, DotDot
    <2> QED
      BY <1>2, <2>1
  <1>4. Has(dir[cwd], Dot)
    BY <1>2 DEF Has
  <1>5. Min(Named(dir[cwd], Dot)) = 1
    <2>1. Named(dir[cwd], Dot) \subseteq Nat
      BY <1>3
    <2> QED
      BY <1>2, <1>3, <2>1, MinIsLeast
  <1>6. IdOf(dir[cwd], Dot) = cwd
    BY <1>1, <1>5 DEF IdOf, Shaped, Item
  <1>7. cwd # NoInode
    BY <1>1, RootIsInode
  <1> QED
    BY <1>4, <1>6, <1>7 DEF BareName

LEMMA StartIncpIsWhole == ASSUME Whole, IInv', OrdinaryUse, StartIncp PROVE Whole' /\ Quiet
  <1>0. PICK t \in NewFilePaths, n \in Names, cmd \in {"incp", "incp0"} :
          /\ cmd = "incp0" => "empty" \in Unusual
          /\ ~Has(dir[t.at], n) /\ MayBeParent(t.par)
          /\ \E i \in Inodes : TakeInode(i, cmd, n, t.par) /\ itype' = [itype EXCEPT ![i] = "file"]
    BY DEF StartIncp
  <1> DEFINE p == t.par
  <1>1. PICK i \in Inodes : TakeInode(i, cmd, n, p) /\ itype' = [itype EXCEPT ![i] = "file"]
    BY <1>0
  <1>2. op.at = "idle" /\ UNCHANGED <<dir, cwd, err>>
    BY DEF StartIncp
  <1>3. cmd = "incp" /\ itype[p] # "file"
    BY <1>0 DEF OrdinaryUse, MayBeParent
  <1>4. t.at = p /\ p \in Inodes /\ itype[p] = "dirc"
    <2>1. CASE t \in BareName
      <3>1. t = [at |-> cwd, par |-> cwd]
        BY <2>1, BareNameIsHere
      <3> QED
        BY <3>1 DEF Whole, IInv, Directories
    <2>2. CASE t \in {[at |-> q, par |-> q] : q \in DirPaths}
      <3>1. PICK q \in DirPaths : t = [at |-> q, par |-> q]
        BY <2>2
      <3>2. t.at = q /\ p = q
        BY <3>1
      <3> QED
        BY <1>3, <3>1, <3>2, WholeIsInTree, PathsLeadToDirectories
    <2> QED
      BY <2>1, <2>2 DEF NewFilePaths
  <1>5. Plain(n) /\ ~Has(dir[p], n)
    <2>1. n # "" /\ ~Has(dir[p], n)
      BY <1>0, <1>4, NamesAssumption
    <2> HIDE DEF p
    <2> QED
      BY <1>4, <2>1, WholeIsInTree, FreshIsPlain
  <1> HIDE DEF p
  <1>6. ibm[i] /\ ibm' = [ibm EXCEPT ![i] = FALSE]
    BY <1>1 DEF TakeInode, FirstFree
  <1>7. op'.at = "add" /\ op'.cmd = "incp" /\ op'.child = i /\ op'.name = n /\ op'.par = p
    BY <1>1, <1>3 DEF TakeInode, Begin
  <1>8. ~err' /\ cwd' = cwd /\ dir' = dir
    BY <1>2 DEF Whole
  <1>9. itype' = [itype EXCEPT ![i] = IF "incp" = "mkdir" THEN "dirc" ELSE "file"]
    BY <1>1
  <1> QED
    BY <1>2, <1>4, <1>5, <1>6, <1>7, <1>8, <1>9, TakingIsWhole

\* A directory has no more records than inodes are in use, so it is never full.
LEMMA RoomForAll ==
    ASSUME Whole, OrdinaryUse, op.at = "add"
    PROVE  HasPlace(dir[op.par]) \/ CanGrow(dir[op.par])
  <1> DEFINE p == op.par
             c == op.child
             d == dir[p]
             L == Len(d)
             U == Inodes \ {RootId}
             G == U \ {c}
  <1>1. p \in Inodes /\ itype[p] = "dirc" /\ c \in Inodes \ {RootId}
    BY DEF Whole, OpKnown, Making, PendingKnown, IInv
  <1>2. L \in Nat /\ DOMAIN d = 1 .. L /\ Shaped(p, d)
    BY <1>1, DirShape DEF Whole, Directories
  <1>3. InodeCount \in Nat /\ DirItems \in Nat /\ MaxItems \in Nat
    BY NamespaceAssumption
  <1>4. IsFiniteSet(G) /\ Cardinality(G) = InodeCount - 2
    <2>1. IsFiniteSet(Inodes) /\ Cardinality(Inodes) = InodeCount
      <3>0. InodeCount \in Nat \ {0}
        BY NamespaceAssumption
      <3>1. InodeCount >= 1
        BY <3>0
      <3> QED
        BY <1>3, <3>1, FS_Interval DEF Inodes
    <2>2. IsFiniteSet(U) /\ Cardinality(U) = InodeCount - 1
      BY <2>1, RootIsInode, FS_RemoveElement
    <2>3. c \in U
      BY <1>1
    <2> HIDE DEF c, U
    <2>4. IsFiniteSet(G) /\ Cardinality(G) = Cardinality(U) - 1
      BY <2>2, <2>3, FS_RemoveElement
    <2> HIDE DEF G
    <2> QED
      BY <1>3, <2>2, <2>4
  <1>5. ASSUME ~HasPlace(d) PROVE L <= InodeCount
    <2> DEFINE f == [k \in 3 .. L |-> d[k].id]
    <2>1. ASSUME NEW k \in 3 .. L
          PROVE  <<p, k>> \in Spots /\ f[k] = At(<<p, k>>).id
      <3>1. k \in DOMAIN d
        BY <1>2
      <3>2. d[k].id # NoInode
        BY <1>5, <3>1 DEF HasPlace, Places
      <3>3. EmptyItem.id = NoInode
        BY DEF EmptyItem
      <3>4. Plain(d[k].name)
        <4>1. d[k] = EmptyItem \/ Plain(d[k].name)
          BY <1>2 DEF Shaped
        <4> QED
          BY <3>2, <3>3, <4>1
      <3>5. k \in Ordinary(d) /\ k \in Nat
        <4>1. k \in Ordinary(d)
          BY <3>1, <3>4, Zenon DEF Ordinary, Plain
        <4>2. k \in Nat
          BY <1>2
        <4> QED
          BY <4>1, <4>2
      <3>6. <<p, k>> \in Spots
        <4> HIDE DEF p
        <4> QED
          BY <1>1, <3>5, SpotShape DEF Whole
      <3> QED
        BY <3>6 DEF At
    <2>2. \A k \in 3 .. L : f[k] \in G
      BY <2>1 DEF Whole, RecordsKnown, OpKnown, PendingKnown, InUse
    <2>3. ASSUME NEW k \in 3 .. L, NEW m \in 3 .. L, f[k] = f[m] PROVE k = m
      <3>1. <<p, k>> \in Spots /\ <<p, m>> \in Spots /\ At(<<p, k>>).id = At(<<p, m>>).id
        BY <2>1, <2>3
      <3>2. <<p, k>> = <<p, m>>
        BY <3>1 DEF Whole, Once
      <3> QED
        BY <3>2
    <2>4. f \in Injection(3 .. L, G)
      <3>1. f \in [3 .. L -> G]
        BY <2>2
      <3>2. DOMAIN f = 3 .. L
        OBVIOUS
      <3> HIDE DEF f, G, L
      <3> QED
        BY <2>3, <3>1, <3>2 DEF Injection, IsInjective
    <2> HIDE DEF f, G, L
    <2>5. Cardinality(3 .. L) <= InodeCount - 2
      BY <1>4, <2>4, FS_Injection
    <2>6. Cardinality(3 .. L) = IF 3 > L THEN 0 ELSE L - 3 + 1
      BY <1>2, FS_Interval
    <2> QED
      BY <1>2, <1>3, <1>4, <2>5, <2>6, FS_CardinalityType
  <1>6. CASE HasPlace(d)
    BY <1>6
  <1>7. CASE ~HasPlace(d)
    BY <1>2, <1>3, <1>5, <1>7 DEF CanGrow, OrdinaryUse
  <1> QED
    BY <1>6, <1>7

LEMMA AddRecordIsWhole == ASSUME Whole, IInv', AddRecord PROVE Whole' /\ Creates
  <1> DEFINE c == op.child
             p == op.par
  <1>1. /\ IInv /\ Directories /\ RecordsKnown /\ Once /\ Rooted
        /\ Making /\ PendingKnown /\ op.at = "add"
    BY DEF Whole, OpKnown, AddRecord
  <1>2. /\ p # c /\ p \in Inodes /\ itype[p] = "dirc" /\ Plain(op.name)
        /\ c \in Inodes \ {RootId, cwd} /\ itype[c] # "free"
    BY <1>1 DEF Making, PendingKnown, IInv
  <1>3. ParentDir = dir[p]
    BY <1>2 DEF ParentDir
  <1>4. /\ UNCHANGED <<itype, ibm, cwd>> /\ ~err' /\ op' = Idle
        /\ \/ HasPlace(dir[p]) /\ dir' = [dir EXCEPT ![p] = Added(dir[p], NewItem)]
           \/ dir' = [dir EXCEPT ![p] = Grown(dir[p], NewItem)]
    BY <1>2, <1>3 DEF AddRecord, AddedInPlace, AddedInNewBlock, Whole
  <1>5. NewItem \in Records /\ NewItem.name = op.name /\ NewItem.id = c
    <2>1. op.name \in AllNames /\ op.child \in Ids
      BY <1>1 DEF IInv, Ops
    <2> QED
      BY <2>1 DEF NewItem, Item, Records
  <1>6. /\ \E q : q[1] = p /\ GainsAt(q, NewItem)
        /\ SameHeads /\ \A i \in Inodes \ {p} : dir'[i] = dir[i]
    <2> HIDE DEF p
    <2> QED
      BY <1>1, <1>2, <1>4, <1>5, RecordGained
  <1>7. PICK q : q[1] = p /\ GainsAt(q, NewItem)
    BY <1>6
  <1>8. \A i \in Inodes : itype[i] # "dirc" => dir'[i] = dir[i]
    BY <1>2, <1>6
  <1>9. itype[c] = "dirc" => dir[c][2].id = p
    BY <1>1 DEF Making
  <1> HIDE DEF c, p
  <1>10. Directories' /\ RecordsKnown'
    BY <1>2, <1>4, <1>5, <1>6, <1>7, <1>8, <1>9, GainsKeeps DEF InUse
  <1>11. \A s \in Spots : At(s).id # c
    BY <1>1 DEF PendingKnown, c
  <1>12. Once'
    <2> SUFFICES ASSUME NEW s \in Spots', NEW r \in Spots', s # r
                 PROVE  At(s)'.id # At(r)'.id
      BY DEF Once
    <2>1. s \in Spots /\ r \in Spots => At(s).id # At(r).id
      BY <1>1 DEF Once
    <2> QED
      BY <1>5, <1>7, <1>11, <2>1 DEF GainsAt
  <1>13. Pending = {c} /\ Pending' = {}
    BY <1>1, <1>4 DEF Pending, Idle, Begin, c
  <1>14. Rooted'
    <2> SUFFICES ASSUME NEW S \in SUBSET Inodes, ClosedBelow(S)'
                 PROVE  InUse' \ ({RootId} \union Pending') \subseteq S
      BY DEF Rooted, Inodes, RootId
    <2>1. ClosedBelow(S)
      BY <1>7 DEF ClosedBelow, GainsAt, RootId
    <2>2. InUse \ {RootId, c} \subseteq S
      BY <1>1, <1>13, <2>1 DEF Rooted
    <2>3. p \in S \union {RootId}
      BY <1>2, <2>2 DEF InUse
    <2>4. c \in S
      BY <1>5, <1>7, <2>3 DEF ClosedBelow, GainsAt, RootId
    <2> QED
      BY <1>4, <2>2, <2>4 DEF InUse
  <1>15. OpKnown'
    BY <1>4 DEF OpKnown, Idle, Begin
  <1>16. Creates
    BY <1>1, <1>4, <1>7 DEF Creates, Idle, Begin, p
  <1> QED
    BY <1>4, <1>10, <1>12, <1>14, <1>15, <1>16 DEF Whole

LEMMA AddFailsNever == ASSUME Whole, OrdinaryUse PROVE ~AddFails
  <1> SUFFICES ASSUME AddFails PROVE FALSE
    OBVIOUS
  <1>1. op.at = "add" /\ ~HasPlace(ParentDir) /\ ~CanGrow(ParentDir)
    BY DEF AddFails, OrdinaryUse
  <1>2. ParentDir = dir[op.par]
    BY <1>1 DEF ParentDir, Whole, OpKnown, Making
  <1> QED
    BY <1>1, <1>2, RoomForAll

\* rm and rmdir delete the only record of an item with nothing below it.
LEMMA RemovingIsWhole ==
    ASSUME Whole, IInv', op.at = "idle", NEW f \in Found, Plain(f.name),
           \A q \in Spots : q[1] # f.id, f.id # cwd,
           dir' = [dir EXCEPT ![f.par] = Deleted(@, Item(f.name, f.id))],
           op'.at = "free", op'.child = f.id,
           UNCHANGED <<itype, ibm, void, cwd, err>>
    PROVE  Whole' /\ Removes
  <1> DEFINE c == f.id
  <1>1. /\ IInv /\ Directories /\ RecordsKnown /\ Once /\ Rooted /\ ~err
        /\ InTree
    BY WholeIsInTree DEF Whole
  <1>2. PICK q \in Spots : q[1] = f.par /\ At(q) = Item(f.name, f.id)
    BY <1>1, FoundRecord
  <1>3. At(q).id = c
    BY <1>2 DEF Item
  <1>4. \A r, s \in Spots : r # s => At(r).id # At(s).id
    BY <1>1 DEF Once
  <1>5. itype[q[1]] = "dirc" /\ q[1] \in Inodes
    BY <1>1, HoldersAreDirectories
  <1>6. LosesAt(q) /\ SameHeads /\ \A i \in Inodes \ {q[1]} : dir'[i] = dir[i]
    <2>1. dir' = [dir EXCEPT ![q[1]] = Deleted(@, At(q))]
      BY <1>2
    <2> QED
      BY <1>1, <1>4, <1>5, <2>1, RecordLost
  <1>7. \A i \in Inodes : itype[i] # "dirc" => dir'[i] = dir[i]
    BY <1>5, <1>6
  <1>8. Directories' /\ RecordsKnown' /\ Once'
    BY <1>4, <1>6, <1>7, LosesKeeps
  <1>9. c \in InUse \ {RootId}
    BY <1>1, <1>3 DEF RecordsKnown
  <1>10. Pending = {} /\ Pending' = {c}
    BY DEF Pending
  <1> HIDE DEF c
  <1>11. Rooted'
    <2> SUFFICES ASSUME NEW S \in SUBSET Inodes, ClosedBelow(S)'
                 PROVE  InUse' \ ({RootId} \union Pending') \subseteq S
      BY DEF Rooted, Inodes, RootId
    <2>1. ClosedBelow(S \union {c})
      <3> SUFFICES ASSUME NEW s \in Spots, s[1] \in S \union {c} \union {RootId}
                   PROVE  At(s).id \in S \union {c}
        BY DEF ClosedBelow
      <3>1. s[1] # c
        BY DEF c
      <3>2. CASE s = q
        BY <1>3, <3>2
      <3>3. CASE s # q
        BY <1>6, <3>1, <3>3 DEF LosesAt, ClosedBelow, RootId
      <3> QED
        BY <3>2, <3>3
    <2>2. S \union {c} \in SUBSET Inodes
      BY <1>9 DEF InUse
    <2>3. InUse \ {RootId} \subseteq S \union {c}
      BY <1>1, <1>10, <2>1, <2>2 DEF Rooted
    <2> QED
      BY <1>10, <2>3 DEF InUse
  <1>12. OpKnown'
    <2>1. op'.child = c /\ c \in Inodes \ {RootId, cwd} /\ itype[c] # "free"
      BY <1>9 DEF c, InUse
    <2>2. \A s \in Spots' : s[1] # c /\ At(s)'.id # c
      <3> TAKE s \in Spots'
      <3>1. s \in Spots /\ s # q /\ At(s)' = At(s)
        BY <1>6 DEF LosesAt
      <3> QED
        BY <1>3, <1>4, <3>1 DEF c
    <2>3. PendingKnown'
      BY <2>1, <2>2 DEF PendingKnown, Inodes, RootId
    <2> QED
      BY <2>3 DEF OpKnown
  <1>13. Removes
    BY <1>3, <1>6 DEF Removes, c
  <1> QED
    BY <1>1, <1>8, <1>11, <1>12, <1>13 DEF Whole

LEMMA StartRmIsWhole == ASSUME Whole, IInv', StartRm PROVE Whole' /\ Removes
  <1>1. PICK f \in Found :
          /\ itype[f.id] = "file"
          /\ dir' = [dir EXCEPT ![f.par] = Deleted(@, Item(f.name, f.id))]
          /\ op' = Begin("free", "rm", f.id, "", NoInode)
    BY DEF StartRm
  <1>2. op.at = "idle" /\ UNCHANGED <<itype, ibm, void, cwd, err>>
    BY DEF StartRm
  <1>3. op'.at = "free" /\ op'.child = f.id
    BY <1>1 DEF Begin
  <1>4. Plain(f.name)
    BY <1>1, WholeIsInTree, FoundRecord
  <1>5. f.id # cwd /\ \A q \in Spots : q[1] # f.id
    BY <1>1, HoldersAreDirectories DEF Whole, Directories
  <1> QED
    BY <1>1, <1>2, <1>3, <1>4, <1>5, RemovingIsWhole

LEMMA StartRmdirIsWhole == ASSUME Whole, IInv', OrdinaryUse, StartRmdir PROVE Whole' /\ Removes
  <1>1. PICK f \in Found :
          /\ f.name \notin {Dot, DotDot}
          /\ itype[f.id] = "dirc" /\ IsEmpty(dir[f.id])
          /\ f.id = cwd => "rmcwd" \in Unusual
          /\ dir' = [dir EXCEPT ![f.par] = Deleted(@, Item(f.name, f.id))]
          /\ op' = Begin("free", "rmdir", f.id, "", NoInode)
    BY DEF StartRmdir
  <1>2. op.at = "idle" /\ UNCHANGED <<itype, ibm, void, cwd, err>>
    BY DEF StartRmdir
  <1>3. op'.at = "free" /\ op'.child = f.id
    BY <1>1 DEF Begin
  <1>4. Plain(f.name)
    BY <1>1, WholeIsInTree, FoundRecord DEF Plain
  <1>5. f.id # cwd
    BY <1>1 DEF OrdinaryUse
  <1>6. \A q \in Spots : q[1] # f.id
    BY <1>1, SpotShape DEF Whole, IsEmpty
  <1> QED
    BY <1>1, <1>2, <1>3, <1>4, <1>5, <1>6, RemovingIsWhole

LEMMA FreeInodeIsWhole == ASSUME Whole, IInv', FreeInode PROVE Whole' /\ Quiet
  <1> DEFINE c == op.child
  <1>1. /\ IInv /\ Directories /\ RecordsKnown /\ Once /\ Rooted /\ ~err
        /\ PendingKnown /\ op.at = "free"
    BY DEF Whole, OpKnown, FreeInode
  <1>2. /\ c \in Inodes \ {RootId, cwd} /\ itype[c] # "free"
        /\ \A q \in Spots : q[1] # c /\ At(q).id # c
    BY <1>1 DEF PendingKnown
  <1>3. op' = Idle /\ UNCHANGED <<cwd, err>> /\ Freed(c)
    BY DEF FreeInode
  <1> HIDE DEF c
  <1>4. /\ itype'[c] = "free" /\ ibm'[c] /\ dir'[c] = <<>>
        /\ \A i \in Inodes \ {c} : itype'[i] = itype[i] /\ (ibm'[i] <=> ibm[i]) /\ dir'[i] = dir[i]
    BY <1>1, <1>2, <1>3 DEF Freed, IInv
  <1>5. SameRecords
    <2>1. Ordinary(dir[c]) = {}
      <3> SUFFICES ASSUME NEW k \in Ordinary(dir[c]) PROVE FALSE
        OBVIOUS
      <3>1. k \in Nat
        BY <1>1, <1>2, OrdinaryIsNumber
      <3>2. <<c, k>> \in Spots
        BY <1>1, <1>2, <3>1, SpotShape
      <3> QED
        BY <1>2, <3>2
    <2>2. Ordinary(dir'[c]) = {}
      BY <1>4, NoneOrdinary
    <2> QED
      BY <1>4, <2>1, <2>2, RecordsStay
  <1>6. Pending = {c} /\ Pending' = {}
    BY <1>1, <1>3 DEF Pending, Idle, Begin, c
  <1>7. Directories'
    <2>1. ASSUME NEW i \in Inodes
          PROVE  /\ ibm'[i] <=> itype'[i] = "free"
                 /\ IF itype'[i] = "dirc" THEN Shaped(i, dir'[i]) /\ itype'[dir'[i][2].id] = "dirc"
                                          ELSE dir'[i] = <<>>
      <3>1. CASE i = c
        BY <1>4, <3>1
      <3>2. CASE i # c
        <4>1. /\ ibm[i] <=> itype[i] = "free"
              /\ IF itype[i] = "dirc" THEN Shaped(i, dir[i]) /\ itype[dir[i][2].id] = "dirc"
                                      ELSE dir[i] = <<>>
          BY <1>1 DEF Directories
        <4>2. ASSUME itype[i] = "dirc" PROVE dir[i][2].id \in Inodes \ {c}
          <5>1. dir[i][2].id \in Inodes
            BY <4>1, <4>2 DEF Shaped
          <5>2. CASE i = RootId
            BY <1>1, <1>2, <5>1, <5>2 DEF Directories
          <5>3. CASE i # RootId
            <6>1. \E q \in Spots : At(q).id = i /\ q[1] = dir[i][2].id
              BY <1>6, <3>2, <4>2, <5>3, ParentNamesIt
            <6> QED
              BY <1>2, <5>1, <6>1
          <5> QED
            BY <5>2, <5>3
        <4> QED
          BY <1>4, <3>2, <4>1, <4>2
      <3> QED
        BY <3>1, <3>2
    <2>2. itype'[RootId] = "dirc" /\ dir'[RootId][2].id = RootId /\ itype'[cwd] = "dirc"
      BY <1>1, <1>2, <1>4, RootIsInode DEF Directories, IInv
    <2> QED
      BY <1>3, <2>1, <2>2 DEF Directories, Shaped
  <1>8. RecordsKnown'
    <2>1. Fewer /\ \A q \in Spots : At(q).id \in Inodes \ {c}
      BY <1>1, <1>2, <1>5, SameIsFewer DEF RecordsKnown, InUse
    <2> QED
      BY <1>1, <1>4, <2>1, KnownStays DEF Fewer, RootId
  <1>9. Once'
    <2>1. \A q, r \in Spots : q # r => At(q).id # At(r).id
      BY <1>1 DEF Once
    <2> QED
      BY <1>5, <2>1, SameIsFewer, OnceStays
  <1>10. Rooted'
    <2> SUFFICES ASSUME NEW S \in SUBSET Inodes, ClosedBelow(S)'
                 PROVE  InUse' \ ({RootId} \union Pending') \subseteq S
      BY DEF Rooted, Inodes, RootId
    <2>1. ClosedBelow(S)
      BY <1>5 DEF ClosedBelow, SameRecords, RootId
    <2>2. InUse \ {RootId, c} \subseteq S
      BY <1>1, <1>6, <2>1 DEF Rooted
    <2> QED
      BY <1>4, <2>2 DEF InUse
  <1>11. OpKnown'
    BY <1>3 DEF OpKnown, Idle, Begin
  <1>12. Quiet
    <2>1. \A q \in Spots : At(q).id \in Inodes \ {c}
      BY <1>1, <1>2 DEF RecordsKnown, InUse
    <2> QED
      BY <1>1, <1>3, <1>4, <1>5, <2>1 DEF Quiet, Idle, Begin
  <1> QED
    BY <1>1, <1>3, <1>7, <1>8, <1>9, <1>10, <1>11, <1>12 DEF Whole

LEMMA StartMvIsWhole == ASSUME Whole, IInv', OrdinaryUse, StartMv PROVE Whole' /\ Moves
  <1>1. PICK f \in Found : MayMove(f) /\ \E t \in Dests(f.name) :
          /\ itype[t.par] # "file" /\ ~Has(dir[t.par], t.name)
          /\ \/ /\ HasPlace(dir[t.par])
                /\ dir' = [dir EXCEPT ![t.par] = Added(@, Item(t.name, f.id))]
             \/ /\ ~HasPlace(dir[t.par]) /\ CanGrow(dir[t.par])
                /\ dir' = [dir EXCEPT ![t.par] = Grown(@, Item(t.name, f.id))]
          /\ op' = Begin("unlink", "mv", f.id, f.name, f.par)
    BY DEF StartMv
  <1>2. PICK t \in Dests(f.name) :
          /\ itype[t.par] # "file" /\ ~Has(dir[t.par], t.name)
          /\ \/ /\ HasPlace(dir[t.par])
                /\ dir' = [dir EXCEPT ![t.par] = Added(@, Item(t.name, f.id))]
             \/ /\ ~HasPlace(dir[t.par]) /\ CanGrow(dir[t.par])
                /\ dir' = [dir EXCEPT ![t.par] = Grown(@, Item(t.name, f.id))]
          /\ op' = Begin("unlink", "mv", f.id, f.name, f.par)
    BY <1>1
  <1> DEFINE c == f.id
             p == t.par
             new == Item(t.name, f.id)
  <1>3. /\ IInv /\ Directories /\ RecordsKnown /\ Once /\ Rooted /\ ~err
        /\ InTree /\ op.at = "idle" /\ UNCHANGED <<itype, ibm, void, cwd, err>>
    BY WholeIsInTree DEF Whole, StartMv
  <1>4. Plain(f.name) /\ itype[c] = "file" /\ c \in InUse
    <2>1. f.name \notin {Dot, DotDot}
      BY <1>1 DEF MayMove, OrdinaryUse
    <2>2. itype[f.id] # "dirc"
      BY <1>1, <2>1 DEF MayMove, OrdinaryUse
    <2>3. f.name # "" /\ f.id \in InUse
      BY <1>3, FoundRecord
    <2> QED
      BY <1>3, <2>1, <2>2, <2>3 DEF Plain, InUse, IInv
  <1>5. PICK q \in Spots : q[1] = f.par /\ At(q) = Item(f.name, f.id)
    BY <1>3, <1>4, FoundRecord
  <1>6. At(q).id = c
    BY <1>5 DEF Item
  <1>7. p \in Inodes /\ itype[p] = "dirc" /\ (t.name = f.name \/ t.name \in Names)
    BY <1>2, <1>3, DestsLeadToDirectories
  <1>8. Plain(t.name) /\ t.name \in AllNames
    <2>1. t.name # ""
      BY <1>4, <1>7, NamesAssumption DEF Plain
    <2>2. t.name \in AllNames
      BY <1>3, <1>7, FoundItems DEF AllNames
    <2> QED
      BY <1>2, <1>3, <1>7, <2>1, <2>2, FreshIsPlain
  <1>9. new \in Records /\ new.name = t.name /\ new.id = c
    BY <1>4, <1>8 DEF Item, Records, Ids, InUse
  <1> HIDE DEF c, p, new
  <1>10. /\ \E n : n[1] = p /\ GainsAt(n, new)
         /\ SameHeads /\ \A i \in Inodes \ {p} : dir'[i] = dir[i]
    <2>1. \/ HasPlace(dir[p]) /\ dir' = [dir EXCEPT ![p] = Added(dir[p], new)]
          \/ dir' = [dir EXCEPT ![p] = Grown(dir[p], new)]
      BY <1>2 DEF p, new
    <2> QED
      BY <1>3, <1>7, <1>8, <1>9, <2>1, RecordGained
  <1>11. PICK n : n[1] = p /\ GainsAt(n, new)
    BY <1>10
  <1>12. c \in InUse \ {RootId}
    BY <1>3, <1>6 DEF RecordsKnown
  <1>13. Directories' /\ RecordsKnown'
    <2>1. \A i \in Inodes : itype[i] # "dirc" => dir'[i] = dir[i]
      BY <1>7, <1>10
    <2>2. new.id \in InUse \ {RootId} /\ itype[new.id] # "dirc"
      BY <1>4, <1>9, <1>12
    <2> QED
      BY <1>3, <1>10, <1>11, <2>1, <2>2, GainsKeeps
  <1>14. op'.at = "unlink" /\ op'.child = c /\ op'.name = f.name /\ op'.par = f.par
    BY <1>2 DEF Begin, c
  <1>15. \A s \in Spots' : At(s)'.id = c <=> s = q \/ s = n
    BY <1>3, <1>6, <1>9, <1>11 DEF GainsAt, Once
  <1>16. Once'
    <2> SUFFICES ASSUME NEW s \in Spots', NEW r \in Spots', s # r, At(s)'.id = At(r)'.id
                 PROVE  op'.at = "unlink" /\ op'.child = At(s)'.id
      BY DEF Once
    <2>1. s = n \/ r = n
      BY <1>3, <1>11 DEF GainsAt, Once
    <2> QED
      BY <1>9, <1>11, <1>14, <2>1 DEF GainsAt
  <1>17. Pending = {} /\ Pending' = {}
    BY <1>3, <1>14 DEF Pending
  <1>18. Rooted'
    <2> SUFFICES ASSUME NEW S \in SUBSET Inodes, ClosedBelow(S)'
                 PROVE  InUse' \ ({RootId} \union Pending') \subseteq S
      BY DEF Rooted, Inodes, RootId
    <2>1. ClosedBelow(S)
      BY <1>11 DEF ClosedBelow, GainsAt, RootId
    <2> QED
      BY <1>3, <1>17, <2>1 DEF Rooted, InUse
  <1>19. Moving'
    <2>1. q \in Spots' /\ n \in Spots' /\ At(q)' = Item(f.name, c) /\ At(n)' = new
      BY <1>5, <1>11 DEF GainsAt, c
    <2>2. {s \in Spots' : At(s)'.id = c} = {q, n}
      BY <1>15, <2>1
    <2>3. n[1] # f.par \/ At(n)'.name # f.name
      <3> SUFFICES ASSUME p = f.par, t.name = f.name PROVE FALSE
        BY <1>9, <1>11, <2>1
      <3>1. q[2] \in DOMAIN dir[p] /\ dir[p][q[2]].name = t.name
        <4>1. q[2] \in Ordinary(dir[q[1]])
          BY <1>3, SpotShape
        <4>2. q[2] \in DOMAIN dir[q[1]]
          BY <4>1 DEF Ordinary
        <4>3. dir[q[1]][q[2]].name = f.name
          BY <1>5 DEF At, Item
        <4> QED
          BY <1>5, <4>2, <4>3
      <3> QED
        BY <1>2, <3>1 DEF Has, Named, p
    <2>4. itype'[c] = "file" /\ c \in Inodes
      BY <1>3, <1>4 DEF InUse
    <2> QED
      BY <1>5, <1>14, <2>1, <2>2, <2>3, <2>4 DEF Moving, Item, Inodes
  <1>20. OpKnown'
    BY <1>14, <1>19 DEF OpKnown
  <1>21. Moves
    <2>1. /\ n[1] \in Inodes /\ itype[n[1]] = "dirc" /\ ~Has(dir[n[1]], new.name)
          /\ itype[At(q).id] = "file" /\ new.id = At(q).id
      BY <1>2, <1>4, <1>6, <1>7, <1>9, <1>11 DEF p
    <2>2. op'.par = q[1] /\ op'.name = At(q).name /\ op'.child = At(q).id
      BY <1>5, <1>14 DEF Item, c
    <2> QED
      BY <1>3, <1>11, <1>14, <2>1, <2>2 DEF Moves
  <1> QED
    BY <1>3, <1>13, <1>16, <1>18, <1>20, <1>21 DEF Whole

LEMMA UnlinkIsWhole == ASSUME Whole, IInv', Unlink PROVE Whole' /\ Unlinks
  <1> DEFINE c == op.child
  <1>1. /\ IInv /\ Directories /\ RecordsKnown /\ Once /\ Rooted /\ Moving /\ op.at = "unlink"
        /\ UNCHANGED <<itype, ibm, cwd>> /\ ~err' /\ op' = Idle
    BY DEF Whole, OpKnown, Unlink
  <1>2. PICK q \in Spots, r \in Spots :
          /\ {s \in Spots : At(s).id = c} = {q, r}
          /\ q[1] = op.par /\ At(q) = Item(op.name, c)
          /\ r[1] # op.par \/ At(r).name # op.name
    BY <1>1 DEF Moving
  <1>3. q # r /\ At(q).id = c /\ At(r).id = c
    BY <1>2 DEF Item
  <1>4. itype[q[1]] = "dirc" /\ q[1] \in Inodes
    BY <1>1, HoldersAreDirectories
  <1>5. LosesAt(q) /\ SameHeads /\ \A i \in Inodes \ {q[1]} : dir'[i] = dir[i]
    <2>1. dir' = [dir EXCEPT ![q[1]] = Deleted(@, At(q))]
      BY <1>2 DEF Unlink
    <2>2. \A s \in Spots : s[1] = q[1] /\ At(s) = At(q) => s = q
      BY <1>2, <1>3 DEF Item
    <2> QED
      BY <1>1, <1>4, <2>1, <2>2, RecordLost
  <1>6. Directories' /\ RecordsKnown' /\ Once'
    <2>1. \A i \in Inodes : itype[i] # "dirc" => dir'[i] = dir[i]
      BY <1>4, <1>5
    <2>2. \A s, u \in Spots : s # u /\ At(s).id = At(u).id => q \in {s, u}
      BY <1>1, <1>2 DEF Once
    <2> QED
      BY <1>1, <1>5, <2>1, <2>2, LosesKeeps
  <1>7. Pending = {} /\ Pending' = {}
    BY <1>1 DEF Pending, Idle, Begin
  <1>8. itype[c] = "file" /\ c \in Inodes
    BY <1>1 DEF Moving
  <1> HIDE DEF c
  <1>9. Rooted'
    <2> SUFFICES ASSUME NEW S \in SUBSET Inodes, ClosedBelow(S)'
                 PROVE  InUse' \ ({RootId} \union Pending') \subseteq S
      BY DEF Rooted, Inodes, RootId
    <2>1. ClosedBelow(S \union {c})
      <3> SUFFICES ASSUME NEW s \in Spots, s[1] \in S \union {c} \union {RootId}
                   PROVE  At(s).id \in S \union {c}
        BY DEF ClosedBelow
      <3>1. s[1] # c
        BY <1>1, <1>8, HoldersAreDirectories
      <3>2. CASE s = q
        BY <1>3, <3>2
      <3>3. CASE s # q
        BY <1>5, <3>1, <3>3 DEF LosesAt, ClosedBelow, RootId
      <3> QED
        BY <3>2, <3>3
    <2>2. InUse \ {RootId} \subseteq S \union {c}
      <3>1. S \union {c} \in SUBSET Inodes
        BY <1>8
      <3> QED
        BY <1>1, <1>7, <2>1, <3>1 DEF Rooted
    <2>3. c \in S
      <3>1. r[1] \in Inodes /\ itype[r[1]] = "dirc" /\ r[1] # c
        BY <1>1, <1>8, HoldersAreDirectories
      <3>2. r[1] \in S \union {RootId}
        BY <2>2, <3>1 DEF InUse
      <3> QED
        BY <1>3, <1>5, <3>2 DEF LosesAt, ClosedBelow, RootId
    <2> QED
      BY <1>1, <1>7, <2>2, <2>3 DEF InUse
  <1>10. OpKnown'
    BY <1>1 DEF OpKnown, Idle, Begin
  <1>11. Unlinks
    BY <1>1, <1>2, <1>5 DEF Unlinks, Idle, Begin, c
  <1> QED
    BY <1>1, <1>6, <1>9, <1>10, <1>11 DEF Whole

LEMMA CdIsWhole == ASSUME Whole, IInv', Cd PROVE Whole' /\ Quiet
  <1>1. PICK i \in {RootId} \union {f.id : f \in Found} :
          /\ itype[i] = "dirc"
          /\ cwd' = i
          /\ \/ ClimbFrom(i) \in {"lost", "junk"} /\ err' = TRUE
             \/ ClimbFrom(i) # "lost" /\ err' = err
    BY DEF Cd
  <1>2. op.at = "idle" /\ UNCHANGED <<itype, ibm, dir, void, op>> /\ ~err
    BY DEF Cd, Whole
  <1>3. i \in Inodes
    BY <1>1 DEF IInv
  <1>4. Pending = {}
    BY <1>2 DEF Pending
  <1>5. ClimbFrom(i) \in {"root", "cut"}
    BY <1>1, <1>3, <1>4, CdFindsItsWay
  <1>6. ~err'
    BY <1>1, <1>2, <1>5
  <1> QED
    BY <1>1, <1>2, <1>6, NothingChanges

LEMMA IncpOverIsWhole == ASSUME Whole, IInv', IncpOver PROVE Whole' /\ Quiet
  <1>1. PICK f \in Found : \E d \in {dir[f.id], <<>>}, v \in {void \union {f.id}, void \ {f.id}} :
          itype[f.id] = "file" /\ dir' = [dir EXCEPT ![f.id] = d]
    BY DEF IncpOver
  <1>2. PICK d \in {dir[f.id], <<>>} : itype[f.id] = "file" /\ dir' = [dir EXCEPT ![f.id] = d]
    BY <1>1
  <1>3. op.at = "idle" /\ UNCHANGED <<itype, ibm, cwd, err, op>> /\ ~err
    BY DEF IncpOver, Whole
  <1>4. f.id \in Inodes
    BY WholeIsInTree, FoundRecord DEF InUse
  <1>5. dir[f.id] = <<>>
    BY <1>2, <1>4 DEF Whole, Directories
  <1>6. dir' = dir
    BY <1>2, <1>4, <1>5 DEF Whole, IInv
  <1> QED
    BY <1>3, <1>6, NothingChanges DEF Whole, Directories

\* fsck has nothing to do between commands, or runs out of memory.
LEMMA FsckIsWhole ==
    ASSUME Whole, IInv', FsckFindsNothing \/ FsckOverflows
    PROVE  Whole' /\ Quiet
  <1>1. CASE FsckFindsNothing
    <2>1. UNCHANGED <<itype, ibm, dir, cwd, err, op>> /\ op.at = "idle"
      BY <1>1 DEF FsckFindsNothing, vars
    <2> QED
      BY <2>1, NothingChanges DEF Whole, Directories
  <1>2. CASE FsckOverflows
    <2>1. /\ UNCHANGED <<itype, ibm, dir>> /\ cwd' = RootId /\ ~err'
          /\ op.at = "idle" /\ op'.at = "idle"
      BY <1>2 DEF FsckOverflows, Restart, Idle, Begin
    <2> QED
      BY <2>1, NothingChanges DEF Whole, Directories
  <1> QED
    BY <1>1, <1>2

LEMMA RefuseIsWhole == ASSUME Whole, IInv', OrdinaryUse, Refuse PROVE Whole' /\ Quiet
  <1>1. op.at = "idle" /\ UNCHANGED <<itype, ibm, dir, void, cwd, op>> /\ ~err'
    BY DEF Refuse, AfterFailure, OrdinaryUse
  <1> QED
    BY <1>1, NothingChanges DEF Whole, Directories

LEMMA LostNever == ASSUME Whole PROVE ~FsckFindsLost /\ ~FsckFindsNoSpace /\ ~FsckMisreads
  <1>1. op.at = "idle" => Active \in Int /\ Active <= 0
    BY NothingIsActive DEF Pending
  <1>2. op.at = "idle" => ~(Active > 0)
    BY <1>1
  <1>3. FsckFindsLost \/ FsckFindsNoSpace \/ FsckMisreads => op.at = "idle" /\ Active > 0
    BY Zenon DEF FsckFindsLost, FsckFindsNoSpace, FsckMisreads
  <1> QED
    BY <1>2, <1>3

\* What does not happen in ordinary use.
LEMMA UnusualNever ==
    ASSUME Whole, OrdinaryUse
    PROVE  /\ ~IncpNowhere /\ ~CopyNothing /\ ~AddFails /\ ~Corrupt /\ ~Kill
           /\ ~FsckFindsLost /\ ~FsckFindsNoSpace /\ ~FsckMisreads
           /\ ~Rescue /\ ~RescueFails /\ ~FsckDone
  <1>1. ~IncpNowhere /\ ~Corrupt /\ ~Kill
    BY BareNameIsHere DEF IncpNowhere, Corrupt, Kill, OrdinaryUse
  <1>2. ~CopyNothing
    BY DEF CopyNothing, Whole, OpKnown, Making
  <1>3. ~Rescue /\ ~RescueFails /\ ~FsckDone
    BY DEF Rescue, RescueFails, FsckDone, Whole, OpKnown
  <1> QED
    BY <1>1, <1>2, <1>3, AddFailsNever, LostNever

LEMMA NoneInitially == ASSUME Init PROVE Spots = {}
  <1>1. IInv /\ RootId \in Inodes
    BY IInvInitially, RootIsInode
  <1>2. /\ dir[RootId] = NewDirItems(RootId, RootId)
        /\ \A i \in Inodes \ {RootId} : dir[i] = <<>>
    BY <1>1 DEF Init
  <1>3. Ordinary(dir[RootId]) = {}
    BY <1>1, <1>2, FirstBlockShape
  <1> SUFFICES ASSUME NEW q \in Spots PROVE FALSE
    OBVIOUS
  <1>4. q[1] \in Inodes /\ q[2] \in Ordinary(dir[q[1]])
    BY <1>1, SpotShape
  <1> QED
    BY <1>2, <1>3, <1>4, NoneOrdinary

LEMMA WholeInitially == Init => Whole
  <1> SUFFICES ASSUME Init PROVE Whole
    OBVIOUS
  <1>1. IInv /\ ~err /\ op = Idle /\ cwd = RootId /\ RootId \in Inodes
    BY IInvInitially, RootIsInode DEF Init
  <1>2. /\ itype[RootId] = "dirc" /\ dir[RootId] = NewDirItems(RootId, RootId) /\ ~ibm[RootId]
        /\ \A i \in Inodes \ {RootId} : itype[i] = "free" /\ dir[i] = <<>> /\ ibm[i]
    BY <1>1 DEF Init
  <1> HIDE DEF RootId
  <1>3. Shaped(RootId, dir[RootId]) /\ dir[RootId][2].id = RootId /\ Ordinary(dir[RootId]) = {}
    BY <1>1, <1>2, FirstBlockShape
  <1>4. Directories
    <2> SUFFICES ASSUME NEW i \in Inodes
                 PROVE  /\ ibm[i] <=> itype[i] = "free"
                        /\ IF itype[i] = "dirc" THEN Shaped(i, dir[i]) /\ itype[dir[i][2].id] = "dirc"
                                                ELSE dir[i] = <<>>
      BY <1>1, <1>2, <1>3 DEF Directories
    <2>1. CASE i = RootId
      BY <1>2, <1>3, <2>1
    <2>2. CASE i # RootId
      BY <1>2, <2>2
    <2> QED
      BY <2>1, <2>2
  <1>5. Spots = {}
    BY NoneInitially
  <1>6. RecordsKnown /\ Once
    BY <1>5 DEF RecordsKnown, Once
  <1>7. InUse = {RootId}
    BY <1>1, <1>2 DEF InUse
  <1>8. Rooted
    BY <1>7 DEF Rooted
  <1>9. OpKnown
    BY <1>1 DEF OpKnown, Idle, Begin
  <1> QED
    BY <1>1, <1>4, <1>6, <1>8, <1>9 DEF Whole

LEMMA UnchangedIsWhole == ASSUME Whole, UNCHANGED vars PROVE Whole'
  <1>1. UNCHANGED <<itype, ibm, dir, void, cwd, err, op>>
    BY DEF vars
  <1>2. IInv'
    BY StepKeeps DEF Whole
  <1>3. Spots' = Spots /\ \A q : At(q)' = At(q)
    BY <1>1 DEF Spots, At
  <1>4. Directories' /\ RecordsKnown' /\ Once'
    BY <1>1, <1>3 DEF Whole, Directories, RecordsKnown, Once, InUse
  <1>5. Rooted'
    BY <1>1, <1>3 DEF Whole, Rooted, ClosedBelow, Pending, InUse
  <1>6. OpKnown'
    BY <1>1, <1>3 DEF Whole, OpKnown, Making, PendingKnown, Moving
  <1> QED
    BY <1>1, <1>2, <1>4, <1>5, <1>6 DEF Whole

TreeStep == Quiet \/ Creates \/ Removes \/ Moves \/ Unlinks \/ UNCHANGED vars

LEMMA StepIsWhole == OrdinaryUse /\ Whole /\ [Next]_vars => Whole' /\ TreeStep
  <1> SUFFICES ASSUME OrdinaryUse, Whole, [Next]_vars PROVE Whole' /\ TreeStep
    OBVIOUS
  <1>1. IInv'
    BY StepKeeps DEF Whole
  <1>2. CASE StartMkdir BY <1>1, <1>2, StartMkdirIsWhole DEF TreeStep
  <1>3. CASE StartCopy BY <1>1, <1>3, StartCopyIsWhole DEF TreeStep
  <1>4. CASE StartIncp BY <1>1, <1>4, StartIncpIsWhole DEF TreeStep
  <1>5. CASE IncpOver BY <1>1, <1>5, IncpOverIsWhole DEF TreeStep
  <1>6. CASE AddRecord BY <1>1, <1>6, AddRecordIsWhole DEF TreeStep
  <1>7. CASE StartRm BY <1>1, <1>7, StartRmIsWhole DEF TreeStep
  <1>8. CASE StartRmdir BY <1>1, <1>8, StartRmdirIsWhole DEF TreeStep
  <1>9. CASE FreeInode BY <1>1, <1>9, FreeInodeIsWhole DEF TreeStep
  <1>10. CASE StartMv BY <1>1, <1>10, StartMvIsWhole DEF TreeStep
  <1>11. CASE Unlink BY <1>1, <1>11, UnlinkIsWhole DEF TreeStep
  <1>12. CASE Cd BY <1>1, <1>12, CdIsWhole DEF TreeStep
  <1>13. CASE FsckFindsNothing \/ FsckOverflows BY <1>1, <1>13, FsckIsWhole DEF TreeStep
  <1>14. CASE Refuse BY <1>1, <1>14, RefuseIsWhole DEF TreeStep
  <1>15. CASE UNCHANGED vars BY <1>15, UnchangedIsWhole DEF TreeStep
  <1> QED
    BY <1>2, <1>3, <1>4, <1>5, <1>6, <1>7, <1>8, <1>9, <1>10, <1>11, <1>12, <1>13, <1>14,
       <1>15, UnusualNever DEF Next

------------------------------------------------------------------------------
(* Theorems                                                                *)

LEMMA OneRecord ==
    ASSUME Whole, op.at = "idle", NEW i \in InUse \ {RootId}
    PROVE  \E q \in Spots :
             /\ RecordsOf(i) = {q} /\ q[1] \in Inodes /\ itype[q[1]] = "dirc"
             /\ itype[i] = "dirc" => dir[i][2] = Item(DotDot, q[1])
  <1>1. Pending = {} /\ IInv /\ Directories
    BY DEF Pending, Whole
  <1>2. PICK q \in Spots : At(q).id = i
    BY <1>1, HangsSomewhere
  <1>3. \A s \in Spots : At(s).id = i => s = q
    BY <1>2 DEF Whole, Once
  <1>4. RecordsOf(i) = {s \in Spots : At(s).id = i}
    BY DEF RecordsOf, Spots, At
  <1>5. RecordsOf(i) = {q}
    BY <1>2, <1>3, <1>4
  <1>6. q[1] \in Inodes /\ itype[q[1]] = "dirc"
    BY <1>1, HoldersAreDirectories
  <1>7. ASSUME itype[i] = "dirc" PROVE dir[i][2] = Item(DotDot, q[1])
    <2>1. dir[i][2].id = q[1]
      BY <1>2, <1>7 DEF Whole, RecordsKnown
    <2>2. i \in Inodes /\ Shaped(i, dir[i])
      BY <1>1, <1>7 DEF InUse, Directories
    <2>3. dir[i][2] \in Records
      <3>1. DOMAIN dir[i] = 1 .. Len(dir[i]) /\ Len(dir[i]) \in Nat
        BY <1>1, <2>2, DirShape
      <3>2. 2 \in DOMAIN dir[i]
        BY <2>2, <3>1 DEF Shaped
      <3> QED
        BY <1>1, <2>2, <3>2, DirShape
    <2> QED
      BY <2>1, <2>2, <2>3 DEF Records, Item, Shaped
  <1> QED
    BY <1>5, <1>6, <1>7

LEMMA WholeIsSound == Whole => Sound
  <1> SUFFICES ASSUME Whole, NEW i \in Inodes
               PROVE  Targets(i) \subseteq InUse /\ (itype[i] # "dirc" => Targets(i) = {})
    BY DEF Sound
  <1>1. IInv /\ Directories /\ RecordsKnown
    BY DEF Whole
  <1>2. \A x : x \in Targets(i) <=> \E q \in Spots : q[1] = i /\ At(q).id = x
    BY <1>1, TargetsAreRecords
  <1>3. Targets(i) \subseteq InUse
    BY <1>1, <1>2 DEF RecordsKnown
  <1>4. itype[i] # "dirc" => Targets(i) = {}
    BY <1>1, <1>2, HoldersAreDirectories
  <1> QED
    BY <1>3, <1>4

\* The whole of ordinary use: in every state the records form a tree but for the
\* item a command is making, moving or freeing.
LEMMA AlwaysWhole == ASSUME OrdinaryUse PROVE Spec => []Whole
  <1>1. Init => Whole
    BY WholeInitially
  <1>2. Whole /\ [Next]_vars => Whole'
    BY StepIsWhole
  <1> QED
    BY <1>1, <1>2, PTL DEF Spec

\* Between commands, in ordinary use, the inodes in use form a tree: mkdir, incp,
\* cp, rm, rmdir and mv keep it whole, if a directory has room for a record of
\* every inode.
THEOREM TreeStaysWhole ==
    ASSUME MaxItems >= InodeCount + DirItems PROVE Spec => []TreeWhole
  <1>1. CASE Unusual = {}
    <2>1. Whole => TreeWhole
      <3> SUFFICES ASSUME Whole, op.at = "idle" PROVE TreeWhole
        BY DEF TreeWhole
      <3>1. Sound
        BY WholeIsSound
      <3>2. Seen(RootId) = InUse \ {RootId}
        BY AllAreSeen DEF Pending
      <3>3. ASSUME NEW i \in InUse \ {RootId}
            PROVE  /\ Cardinality(RecordsOf(i)) = 1 /\ i \in Seen(RootId)
                   /\ itype[i] = "dirc" =>
                        \A r \in RecordsOf(i) : itype[r[1]] = "dirc" /\ dir[i][2] = Item(DotDot, r[1])
        <4>1. PICK q \in Spots :
                /\ RecordsOf(i) = {q} /\ itype[q[1]] = "dirc"
                /\ itype[i] = "dirc" => dir[i][2] = Item(DotDot, q[1])
          BY OneRecord
        <4>2. Cardinality(RecordsOf(i)) = 1
          BY <4>1, FS_Singleton
        <4> QED
          BY <3>2, <4>1, <4>2
      <3> QED
        BY <3>1, <3>3 DEF TreeWhole
    <2>2. OrdinaryUse
      BY <1>1 DEF OrdinaryUse
    <2> QED
      BY <2>1, <2>2, AlwaysWhole, PTL
  <1>2. CASE Unusual # {}
    <2>1. TreeWhole
      BY <1>2 DEF TreeWhole
    <2> QED
      BY <2>1, PTL
  <1> QED
    BY <1>1, <1>2

\* ... and no command leaves an error that a later cp or incp would take for its
\* own.
THEOREM NoErrorStays ==
    ASSUME MaxItems >= InodeCount + DirItems PROVE Spec => []NoErrorLeft
  <1>1. CASE Unusual = {}
    <2>1. Whole => NoErrorLeft
      BY DEF Whole, NoErrorLeft
    <2>2. OrdinaryUse
      BY <1>1 DEF OrdinaryUse
    <2> QED
      BY <2>1, <2>2, AlwaysWhole, PTL
  <1>2. CASE Unusual # {}
    <2>1. NoErrorLeft
      BY <1>2 DEF NoErrorLeft
    <2> QED
      BY <2>1, PTL
  <1> QED
    BY <1>1, <1>2

------------------------------------------------------------------------------
(* The abstract tree                                                       *)

\* The records that count in the abstract tree, and the entries they are.
Live ==
    {q \in Spots : ~(/\ op.at = "unlink"
                     /\ q[1] = op.par /\ At(q).name = op.name /\ At(q).id = op.child)}
Entry(q) == [par |-> q[1], name |-> At(q).name, id |-> At(q).id, type |-> itype[At(q).id]]

LEMMA EntriesAreLive == TreeEntries = {Entry(q) : q \in Live}
  <1> DEFINE Rec(q) == [par |-> q[1], name |-> At(q).name, id |-> At(q).id]
             Full(r) == [par |-> r.par, name |-> r.name, id |-> r.id, type |-> itype[r.id]]
             old == [par |-> op.par, name |-> op.name, id |-> op.child]
             gone == IF op.at = "unlink" THEN {old} ELSE {}
  <1>1. TreeEntries = {Full(r) : r \in {Rec(q) : q \in Spots} \ gone}
    BY DEF TreeEntries, Spots, At
  <1>2. \A q : Full(Rec(q)) = Entry(q)
    BY DEF Entry
  <1>3. \A q : Rec(q) = old <=> q[1] = op.par /\ At(q).name = op.name /\ At(q).id = op.child
    OBVIOUS
  <1>4. \A q : q \in Live <=> q \in Spots /\ Rec(q) \notin gone
    BY <1>3 DEF Live
  <1> HIDE DEF Rec, Full, gone
  <1>5. ASSUME NEW e \in TreeEntries PROVE e \in {Entry(q) : q \in Live}
    <2>1. PICK q \in Spots : Rec(q) \notin gone /\ e = Full(Rec(q))
      BY <1>1
    <2> QED
      BY <1>2, <1>4, <2>1
  <1>6. ASSUME NEW q \in Live PROVE Entry(q) \in TreeEntries
    BY <1>1, <1>2, <1>4
  <1> QED
    BY <1>5, <1>6

LEMMA EntriesWillBeLive == (TreeEntries = {Entry(q) : q \in Live})'
  BY EntriesAreLive, PTL

\* An item counts once.
LEMMA LiveOnce ==
    ASSUME Whole, NEW q \in Live, NEW r \in Live, At(q).id = At(r).id
    PROVE  q = r
  <1> SUFFICES ASSUME q # r PROVE FALSE
    OBVIOUS
  <1>1. q \in Spots /\ r \in Spots /\ op.at = "unlink" /\ op.child = At(q).id
    BY DEF Live, Whole, Once
  <1>2. PICK s \in Spots, t \in Spots :
          /\ {u \in Spots : At(u).id = op.child} = {s, t}
          /\ s[1] = op.par /\ At(s) = Item(op.name, op.child)
    BY <1>1 DEF Whole, OpKnown, Moving
  <1>3. s \notin Live
    BY <1>1, <1>2 DEF Live, Item
  <1> QED
    BY <1>1, <1>2, <1>3

\* A directory in use is one of the tree ...
LEMMA DirectoriesInTree ==
    ASSUME Whole, op.at # "unlink", NEW p \in Inodes \ Pending, itype[p] = "dirc"
    PROVE  p \in T!Dirs
  <1>1. CASE p = RootId
    BY <1>1 DEF T!Dirs
  <1>2. CASE p # RootId
    <2>1. PICK q \in Spots : At(q).id = p
      BY <1>2, HangsSomewhere DEF InUse
    <2>2. Entry(q) \in TreeEntries
      BY <2>1, EntriesAreLive DEF Live
    <2>3. Entry(q).id = p /\ Entry(q).type = "dirc"
      BY <2>1 DEF Entry
    <2> QED
      BY <2>2, <2>3 DEF T!Dirs
  <1> QED
    BY <1>1, <1>2

\* ... and a name that none of its records has is free in it.
LEMMA NameIsFree ==
    ASSUME Whole, op.at # "unlink", NEW p \in Inodes \ Pending, itype[p] = "dirc",
           NEW n, ~Has(dir[p], n)
    PROVE  T!Free(p, n)
  <1>1. p \in T!Dirs
    BY DirectoriesInTree
  <1>2. ASSUME NEW e \in TreeEntries, e.par = p, e.name = n PROVE FALSE
    <2>1. PICK q \in Spots : e = Entry(q)
      BY EntriesAreLive DEF Live
    <2>2. q[1] = p /\ At(q).name = n
      BY <1>2, <2>1 DEF Entry
    <2>3. q[2] \in DOMAIN dir[p] /\ dir[p][q[2]].name = n
      BY <2>2, SpotShape DEF Whole, Ordinary, At
    <2> QED
      BY <2>3 DEF Has, Named
  <1> QED
    BY <1>1, <1>2 DEF T!Free

\* Entries stay as long as their records and types do.
LEMMA EntriesStay ==
    ASSUME NEW S, \A q \in S : At(q)' = At(q) /\ itype'[At(q).id] = itype[At(q).id]
    PROVE  \A q \in S : Entry(q)' = Entry(q)
  BY DEF Entry

LEMMA QuietChangesNoEntry == ASSUME Whole, Quiet PROVE TreeEntries' = TreeEntries
  <1>1. Live = Spots /\ Live' = Spots /\ \A q \in Spots : Entry(q)' = Entry(q)
    BY EntriesStay DEF Quiet, SameRecords, Live
  <1> QED
    BY <1>1, EntriesAreLive, EntriesWillBeLive

LEMMA StutterChangesNoEntry == ASSUME UNCHANGED vars PROVE TreeEntries' = TreeEntries
  BY DEF vars, TreeEntries, Ordinary

LEMMA UnlinkChangesNoEntry == ASSUME Whole, Unlinks PROVE TreeEntries' = TreeEntries
  <1>1. PICK q : LosesAt(q) /\ q[1] = op.par /\ At(q) = Item(op.name, op.child)
    BY DEF Unlinks
  <1>2. op.at = "unlink" /\ op'.at = "idle" /\ UNCHANGED itype /\ q \in Spots
    BY <1>1 DEF Unlinks, LosesAt
  <1>3. PICK s \in Spots, t \in Spots :
          /\ {u \in Spots : At(u).id = op.child} = {s, t}
          /\ t[1] # op.par \/ At(t).name # op.name
    BY <1>2 DEF Whole, OpKnown, Moving
  <1>4. q = s
    BY <1>1, <1>2, <1>3 DEF Item
  <1>5. Live = Spots \ {q}
    BY <1>1, <1>2, <1>3, <1>4 DEF Live, Item
  <1>6. Live' = Spots \ {q} /\ \A u \in Spots \ {q} : Entry(u)' = Entry(u)
    BY <1>1, <1>2, EntriesStay DEF Live, LosesAt
  <1> QED
    BY <1>5, <1>6, EntriesAreLive, EntriesWillBeLive

LEMMA CreatesImplements == ASSUME Whole, Creates PROVE T!Create
  <1>1. PICK n : n[1] = op.par /\ GainsAt(n, NewItem)
    BY DEF Creates
  <1> DEFINE new == Entry(n)'
  <1>2. op.at = "add" /\ op'.at = "idle" /\ UNCHANGED itype
    BY DEF Creates
  <1>3. /\ op.child \in Inodes \ {RootId} /\ \A q \in Spots : At(q).id # op.child
        /\ op.par \in Inodes /\ op.par # op.child /\ itype[op.par] = "dirc"
        /\ ~Has(dir[op.par], op.name)
    <2>1. Making /\ PendingKnown /\ op.par \in Inodes
      BY <1>2 DEF Whole, OpKnown, IInv
    <2> QED
      BY <1>2, <2>1 DEF PendingKnown, Making
  <1>4. Live = Spots /\ Live' = Spots \union {n} /\ \A q \in Spots : Entry(q)' = Entry(q)
    BY <1>1, <1>2, EntriesStay DEF Live, GainsAt
  <1>5. TreeEntries' = TreeEntries \union {new}
    BY <1>4, EntriesAreLive, EntriesWillBeLive
  <1>6. new.par = op.par /\ new.name = op.name /\ new.id = op.child
    BY <1>1 DEF Entry, GainsAt, NewItem, Item
  <1> HIDE DEF new
  <1>7. \A e \in TreeEntries : e.id # op.child
    BY <1>3, <1>4, EntriesAreLive DEF Entry
  <1>8. T!Free(op.par, op.name)
    BY <1>2, <1>3, NameIsFree DEF Pending
  <1>9. new \in TreeEntries' \ TreeEntries
    BY <1>5, <1>6, <1>7
  <1>10. new.id \in Inodes \ ({RootId} \union {e.id : e \in TreeEntries})
    BY <1>3, <1>6, <1>7
  <1> QED
    BY <1>5, <1>6, <1>8, <1>9, <1>10 DEF T!Create

LEMMA RemovesImplements == ASSUME Whole, Removes PROVE T!Remove
  <1>1. PICK q \in Spots : LosesAt(q) /\ \A r \in Spots : r[1] # At(q).id
    BY DEF Removes
  <1> DEFINE old == Entry(q)
  <1>2. op.at = "idle" /\ op'.at = "free" /\ UNCHANGED itype
    BY DEF Removes
  <1>3. Live = Spots /\ Live' = Spots \ {q} /\ \A r \in Spots \ {q} : Entry(r)' = Entry(r)
    BY <1>1, <1>2, EntriesStay DEF Live, LosesAt
  <1>4. \A r \in Spots : Entry(r) = old => r = q
    BY <1>3, LiveOnce DEF Entry
  <1>5. \A r \in Spots : Entry(r).par # old.id
    BY <1>1 DEF Entry
  <1> HIDE DEF old
  <1>6. TreeEntries = {Entry(r) : r \in Spots} /\ old \in TreeEntries
    BY <1>3, EntriesAreLive DEF old
  <1>7. TreeEntries' = TreeEntries \ {old}
    <2>1. TreeEntries' = {Entry(r)' : r \in Spots \ {q}}
      BY <1>3, EntriesAreLive, EntriesWillBeLive
    <2>2. TreeEntries' = {Entry(r) : r \in Spots \ {q}}
      BY <1>3, <2>1
    <2> QED
      BY <1>4, <1>6, <2>2 DEF old
  <1>8. \A e \in TreeEntries : e.par # old.id
    BY <1>5, <1>6
  <1> QED
    BY <1>6, <1>7, <1>8 DEF T!Remove

LEMMA MovesImplements == ASSUME Whole, Moves PROVE T!Move
  <1>1. PICK q \in Spots : \E n, r :
          /\ itype[At(q).id] = "file" /\ r.id = At(q).id
          /\ GainsAt(n, r)
          /\ n[1] \in Inodes /\ itype[n[1]] = "dirc" /\ ~Has(dir[n[1]], r.name)
          /\ op'.par = q[1] /\ op'.name = At(q).name /\ op'.child = At(q).id
    BY DEF Moves
  <1>2. PICK n, r :
          /\ itype[At(q).id] = "file" /\ r.id = At(q).id
          /\ GainsAt(n, r)
          /\ n[1] \in Inodes /\ itype[n[1]] = "dirc" /\ ~Has(dir[n[1]], r.name)
          /\ op'.par = q[1] /\ op'.name = At(q).name /\ op'.child = At(q).id
    BY <1>1
  <1> DEFINE old == Entry(q)
             new == Entry(n)'
  <1>3. op.at = "idle" /\ op'.at = "unlink" /\ UNCHANGED itype
    BY DEF Moves
  <1>4. /\ n \notin Spots /\ Spots' = Spots \union {n}
        /\ At(n)' = r /\ \A s \in Spots : At(s)' = At(s)
    BY <1>2 DEF GainsAt
  <1>5. Live = Spots /\ \A s \in Spots : Entry(s)' = Entry(s)
    BY <1>3, <1>4, EntriesStay DEF Live
  <1>6. ~(n[1] = q[1] /\ r.name = At(q).name)
    <2> SUFFICES ASSUME n[1] = q[1], r.name = At(q).name PROVE FALSE
      OBVIOUS
    <2>1. q[2] \in DOMAIN dir[q[1]] /\ dir[q[1]][q[2]].name = r.name
      BY SpotShape DEF Whole, Ordinary, At
    <2> QED
      BY <1>2, <2>1 DEF Has, Named
  <1>7. \A s \in Spots : At(s).id = At(q).id => s = q
    BY <1>5, LiveOnce
  <1>8. Live' = (Spots \ {q}) \union {n}
    <2>1. \A s : s \in Live' <=> /\ s \in Spots'
                                 /\ ~(s[1] = q[1] /\ At(s)'.name = At(q).name /\ At(s)'.id = At(q).id)
      BY <1>2, <1>3 DEF Live
    <2>2. ASSUME NEW s \in Spots PROVE s \in Live' <=> s # q
      BY <1>4, <1>7, <2>1
    <2>3. n \in Live'
      BY <1>4, <1>6, <2>1
    <2> QED
      BY <1>4, <2>1, <2>2, <2>3
  <1>9. \A s \in Spots : Entry(s) = old => s = q
    BY <1>7 DEF Entry
  <1>10. /\ old.type = "file" /\ new.par = n[1] /\ new.name = r.name
         /\ new = [old EXCEPT !.par = n[1], !.name = r.name]
    <2>1. new = [par |-> n[1], name |-> r.name, id |-> At(q).id, type |-> itype[At(q).id]]
      BY <1>2, <1>3, <1>4 DEF Entry
    <2>2. old = [par |-> q[1], name |-> At(q).name, id |-> At(q).id, type |-> itype[At(q).id]]
      BY DEF Entry
    <2>3. old.type = "file"
      BY <1>2, <2>2
    <2>4. [old EXCEPT !.par = n[1], !.name = r.name] = new
      <3> DEFINE R == [par |-> q[1], name |-> At(q).name, id |-> At(q).id, type |-> itype[At(q).id]]
                 S == [par |-> n[1], name |-> At(q).name, id |-> At(q).id, type |-> itype[At(q).id]]
                 U == [par |-> n[1], name |-> r.name, id |-> At(q).id, type |-> itype[At(q).id]]
      <3>1. [R EXCEPT !.par = n[1]] = S
        OBVIOUS
      <3>2. [S EXCEPT !.name = r.name] = U
        OBVIOUS
      <3>3. old = R /\ new = U
        BY <2>1, <2>2
      <3> HIDE DEF R, S, U, old, new
      <3>4. [R EXCEPT !.par = n[1], !.name = r.name] = [[R EXCEPT !.par = n[1]] EXCEPT !.name = r.name]
        BY Zenon
      <3> QED
        BY <3>1, <3>2, <3>3, <3>4, Zenon
    <2>5. new.par = n[1] /\ new.name = r.name
      BY <2>1
    <2> HIDE DEF old, new
    <2> QED
      BY <2>3, <2>4, <2>5, Zenon
  <1> HIDE DEF old, new
  <1>11. TreeEntries = {Entry(s) : s \in Spots} /\ old \in TreeEntries
    BY <1>5, EntriesAreLive DEF old
  <1>12. TreeEntries' = (TreeEntries \ {old}) \union {new}
    <2>1. TreeEntries' = {Entry(s)' : s \in (Spots \ {q}) \union {n}}
      BY <1>8, EntriesAreLive, EntriesWillBeLive
    <2>2. TreeEntries' = {Entry(s) : s \in Spots \ {q}} \union {new}
      BY <1>5, <2>1 DEF new
    <2> QED
      BY <1>9, <1>11, <2>2 DEF old
  <1>13. T!Free(n[1], r.name)
    BY <1>2, <1>3, NameIsFree DEF Pending
  <1>14. new \in TreeEntries'
    BY <1>12
  <1> QED
    BY <1>10, <1>11, <1>12, <1>13, <1>14 DEF T!Move

LEMMA EmptyAtFirst == ASSUME Init PROVE TreeEntries = {}
  <1>1. Spots = {}
    BY NoneInitially
  <1> QED
    BY <1>1, EntriesAreLive DEF Live

\* In ordinary use every step of the commands is one of the tree or changes
\* nothing of it: mkdir, incp and cp create an item in the write of its record,
\* rm and rmdir remove it in the clearing of it, and mv moves it in the write of
\* the second record.
THEOREM TreeImplemented ==
    ASSUME OrdinaryUse PROVE Spec => ImplementsTree
  <1>1. Init => T!Init
    BY EmptyAtFirst DEF T!Init
  <1>2. Whole /\ [Next]_vars => [T!Next]_TreeEntries
    <2> SUFFICES ASSUME Whole, [Next]_vars PROVE [T!Next]_TreeEntries
      OBVIOUS
    <2>1. TreeStep
      BY StepIsWhole
    <2>2. CASE Quiet BY <2>2, QuietChangesNoEntry
    <2>3. CASE Creates BY <2>3, CreatesImplements DEF T!Next
    <2>4. CASE Removes BY <2>4, RemovesImplements DEF T!Next
    <2>5. CASE Moves BY <2>5, MovesImplements DEF T!Next
    <2>6. CASE Unlinks BY <2>6, UnlinkChangesNoEntry
    <2>7. CASE UNCHANGED vars BY <2>7, StutterChangesNoEntry
    <2> QED
      BY <2>1, <2>2, <2>3, <2>4, <2>5, <2>6, <2>7 DEF TreeStep
  <1> QED
    BY <1>1, <1>2, AlwaysWhole, PTL DEF Spec, ImplementsTree, T!Spec

------------------------------------------------------------------------------
(* What fsck saves                                                         *)

\* An inode that is free in the bitmap is free in the table.
FreeIsUnused == \A i \in Inodes : ibm[i] => itype[i] = "free"

LEMMA UnusedInitially == Init => FreeIsUnused
  BY DEF Init, FreeIsUnused

LEMMA TakenIsUsed ==
    ASSUME IInv, FreeIsUnused, NEW i \in Inodes, NEW t,
           ibm' = [ibm EXCEPT ![i] = FALSE], itype' = [itype EXCEPT ![i] = t]
    PROVE  FreeIsUnused'
  BY DEF IInv, FreeIsUnused

LEMMA FreedIsUnused ==
    ASSUME IInv, FreeIsUnused, NEW i \in Inodes,
           ibm' = [ibm EXCEPT ![i] = TRUE], itype' = [itype EXCEPT ![i] = "free"]
    PROVE  FreeIsUnused'
  BY DEF IInv, FreeIsUnused

LEMMA SameIsUnused ==
    ASSUME FreeIsUnused, UNCHANGED <<itype, ibm>>
    PROVE  FreeIsUnused'
  BY DEF FreeIsUnused

LEMMA StepIsUnused ==
    ASSUME IInv, FreeIsUnused, [Next]_vars
    PROVE  FreeIsUnused'
  <1>1. CASE StartMkdir
    <2>1. CASE \E i \in Inodes : /\ ibm' = [ibm EXCEPT ![i] = FALSE]
                                 /\ itype' = [itype EXCEPT ![i] = "dirc"]
      BY <2>1, TakenIsUsed
    <2>2. CASE UNCHANGED <<itype, ibm>>
      BY <2>2, SameIsUnused
    <2> QED
      BY <1>1, <2>1, <2>2 DEF StartMkdir, TakeInode, NewDirectory
  <1>2. CASE StartCopy \/ StartIncp \/ IncpNowhere
    <2>1. \E i \in Inodes : /\ ibm' = [ibm EXCEPT ![i] = FALSE]
                            /\ itype' = [itype EXCEPT ![i] = "file"]
      BY <1>2 DEF StartCopy, StartIncp, IncpNowhere, TakeInode
    <2> QED
      BY <2>1, TakenIsUsed
  <1>3. CASE AddRecord
    <2>1. ibm' = ibm /\ (itype' = itype \/ itype' = [itype EXCEPT ![op.par] = "free"])
      BY <1>3 DEF AddRecord, AddedInPlace, AddedInNewBlock
    <2> QED
      BY <2>1 DEF IInv, FreeIsUnused
  <1>4. CASE CopyNothing
    <2>1. /\ ibm' = [ibm EXCEPT ![op.child] = TRUE]
          /\ itype' = [itype EXCEPT ![op.child] = "free"]
      BY <1>4 DEF CopyNothing
    <2> QED
      BY <2>1 DEF IInv, FreeIsUnused
  <1>5. CASE AddFails \/ FreeInode
    <2>1. CASE UNCHANGED <<itype, ibm>>
      BY <2>1, SameIsUnused
    <2>2. CASE Freed(op.child)
      BY <2>2 DEF Freed, IInv, FreeIsUnused
    <2> QED
      BY <1>5, <2>1, <2>2 DEF AddFails, FreeInode
  <1>6. CASE FsckFindsLost
    <2>1. CASE UNCHANGED <<itype, ibm>>
      BY <2>1, SameIsUnused
    <2>2. CASE \E i \in Inodes : /\ ibm' = [ibm EXCEPT ![i] = FALSE]
                                 /\ itype' = [itype EXCEPT ![i] = "dirc"]
      BY <2>2, TakenIsUsed
    <2>3. \/ UNCHANGED <<itype, ibm>>
          \/ \E i \in Inodes : /\ ibm' = [ibm EXCEPT ![i] = FALSE]
                             /\ itype' = [itype EXCEPT ![i] = "dirc"]
      BY <1>6, FindingLost, Zenon
    <2> QED
      BY <2>1, <2>2, <2>3
  <1>7. CASE \/ IncpOver \/ StartRm \/ StartRmdir \/ StartMv \/ Unlink \/ Cd \/ Corrupt
             \/ FsckFindsNoSpace \/ Rescue \/ RescueFails \/ FsckDone \/ Refuse
    <2>1. UNCHANGED <<itype, ibm>>
      BY <1>7 DEF IncpOver, StartRm, StartRmdir, StartMv, Unlink, Cd, Corrupt,
                  FsckFindsNoSpace, Rescue, RescueFails, FsckDone, Refuse
    <2> QED
      BY <2>1, SameIsUnused
  <1>8. CASE FsckFindsNothing \/ FsckOverflows \/ FsckMisreads \/ Kill \/ UNCHANGED vars
    <2>1. UNCHANGED <<itype, ibm>>
      BY <1>8 DEF FsckFindsNothing, FsckOverflows, FsckMisreads, Kill, Restart, vars
    <2> QED
      BY <2>1, SameIsUnused
  <1> QED
    BY <1>1, <1>2, <1>3, <1>4, <1>5, <1>6, <1>7, <1>8 DEF Next

\* What the search meets, in a state and in the next.
SoundSeen ==
    TargetsAreInodes =>
        \A i \in Inodes :
            /\ Targets(i) \subseteq Seen(i) /\ Seen(i) \subseteq Inodes
            /\ \A j \in Seen(i) : itype[j] = "dirc" => Targets(j) \subseteq Seen(i)
            /\ \A Q \in SUBSET Inodes :
                 /\ Targets(i) \subseteq Q
                 /\ \A j \in Q : itype[j] = "dirc" => Targets(j) \subseteq Q
                 => Seen(i) \subseteq Q

LEMMA SoundSeenIs == SoundSeen
  <1> SUFFICES ASSUME TargetsAreInodes, NEW i \in Inodes
               PROVE  /\ Targets(i) \subseteq Seen(i) /\ Seen(i) \subseteq Inodes
                      /\ \A j \in Seen(i) : itype[j] = "dirc" => Targets(j) \subseteq Seen(i)
                      /\ \A Q \in SUBSET Inodes :
                           /\ Targets(i) \subseteq Q
                           /\ \A j \in Q : itype[j] = "dirc" => Targets(j) \subseteq Q
                           => Seen(i) \subseteq Q
    BY DEF SoundSeen
  <1>1. ASSUME NEW Q \in SUBSET Inodes, Targets(i) \subseteq Q,
               \A j \in Q : itype[j] = "dirc" => Targets(j) \subseteq Q
        PROVE  Seen(i) \subseteq Q
    BY <1>1, SeenIsLeast
  <1> QED
    BY <1>1, SeenIsClosed

LEMMA SoundSeenWillBe == SoundSeen'
  BY SoundSeenIs, PTL

\* The records of a directory lead to inodes in use.
LEMMA SoundTargets ==
    ASSUME Sound
    PROVE  /\ TargetsAreInodes
           /\ \A i \in Inodes : Seen(i) \subseteq InUse
           /\ \A i \in Inodes : itype[i] # "dirc" => Seen(i) = {}
  <1>1. TargetsAreInodes
    BY DEF Sound, TargetsAreInodes, InUse
  <1>2. InUse \in SUBSET Inodes /\ {} \in SUBSET Inodes
    BY DEF InUse
  <1>3. \A i \in Inodes : Seen(i) \subseteq InUse
    BY <1>1, <1>2, SoundSeenIs DEF SoundSeen, Sound
  <1>4. ASSUME NEW i \in Inodes, itype[i] # "dirc" PROVE Seen(i) = {}
    <2>1. Targets(i) \subseteq {}
      BY <1>4 DEF Sound
    <2>2. Seen(i) \subseteq {}
      BY <1>1, <1>2, <2>1, SoundSeenIs DEF SoundSeen
    <2> QED
      BY <2>2
  <1> QED
    BY <1>1, <1>3, <1>4

\* What is met below an inode that is met.
LEMMA SeenBelow ==
    ASSUME Sound, NEW i \in Inodes, NEW j \in Seen(i)
    PROVE  j \in Inodes /\ Seen(j) \subseteq Seen(i)
  <1>1. /\ TargetsAreInodes /\ j \in Inodes
        /\ \A h \in Seen(i) : itype[h] = "dirc" => Targets(h) \subseteq Seen(i)
    BY SoundTargets, SoundSeenIs DEF SoundSeen
  <1>2. CASE itype[j] # "dirc"
    BY <1>1, <1>2, SoundTargets
  <1>3. CASE itype[j] = "dirc"
    <2>1. Seen(i) \in SUBSET Inodes /\ Targets(j) \subseteq Seen(i)
      BY <1>1, <1>3, SoundSeenIs DEF SoundSeen
    <2> QED
      BY <1>1, <2>1, SoundSeenIs DEF SoundSeen
  <1> QED
    BY <1>1, <1>2, <1>3

LEMMA NotBelowItself ==
    ASSUME Sound, NEW i \in Inodes, ~Loops(i)
    PROVE  i \notin Seen(i)
  <1> SUFFICES ASSUME i \in Seen(i) PROVE FALSE
    OBVIOUS
  <1>1. itype[i] = "dirc"
    BY SoundTargets
  <1>2. i # NoInode
    BY RootIsInode
  <1> QED
    BY <1>1, <1>2 DEF Loops

\* filter_correct_ids() of one inode after the other.
RemainingOf(n, l, junk) == IF n \in l THEN l \ MetBelow(n, junk) ELSE l
Remaining(n, l) == IF n \in l THEN l \ Seen(n) ELSE l

LEMMA LostSteps ==
    ASSUME NEW junk
    PROVE  \E L \in [0 .. InodeCount -> SUBSET Marked] :
             /\ L[0] = Marked
             /\ \A n \in 1 .. InodeCount : L[n] = RemainingOf(n, L[n - 1], junk)
             /\ TrulyLost(junk) = L[InodeCount]
  <1> DEFINE N == InodeCount
             X == SUBSET Marked
             Step == [n \in 1 .. N |-> [l \in X |-> RemainingOf(n, l, junk)]]
             Is(f) == f = [k \in 0 .. N |->
                            IF k = 0 THEN Marked
                            ELSE LET l == f[k - 1] IN IF k \in l THEN l \ MetBelow(k, junk) ELSE l]
             L == CHOOSE f : Is(f)
  <1>1. N \in Nat
    BY NamespaceAssumption
  <1>2. PICK g \in [0 .. N -> X] : g[0] = Marked /\ \A n \in 1 .. N : g[n] = Step[n][g[n - 1]]
    <2>1. Step \in [1 .. N -> [X -> X]]
      BY DEF RemainingOf
    <2>2. Marked \in X
      OBVIOUS
    <2> HIDE DEF N, Step, X
    <2>3. Recursion(N, X, Marked, Step) # {}
      BY <1>1, <2>1, <2>2, RecursionExists
    <2> QED
      BY <2>3 DEF Recursion
  <1>3. \A n \in 1 .. N : g[n] = RemainingOf(n, g[n - 1], junk)
    <2> SUFFICES ASSUME NEW n \in 1 .. N PROVE g[n] = RemainingOf(n, g[n - 1], junk)
      OBVIOUS
    <2>1. n - 1 \in 0 .. N
      BY <1>1
    <2>2. g[n - 1] \in X
      BY <2>1
    <2> QED
      BY <1>2, <2>2
  <1>4. Is(g)
    <2>1. \A k \in 0 .. N : g[k] = IF k = 0 THEN Marked ELSE RemainingOf(k, g[k - 1], junk)
      BY <1>1, <1>2, <1>3
    <2>2. g = [k \in 0 .. N |-> IF k = 0 THEN Marked ELSE RemainingOf(k, g[k - 1], junk)]
      BY <2>1
    <2> QED
      BY <2>2 DEF RemainingOf
  <1>5. Is(L)
    <2> HIDE DEF Is
    <2> QED
      BY <1>4
  <1>6. TrulyLost(junk) = Marked \intersect L[N]
    BY DEF TrulyLost
  <1>7. L[0] = Marked /\ \A n \in 1 .. N : L[n] = RemainingOf(n, L[n - 1], junk)
    <2> HIDE DEF L
    <2>1. L = [k \in 0 .. N |-> IF k = 0 THEN Marked ELSE RemainingOf(k, L[k - 1], junk)]
      BY <1>5 DEF RemainingOf
    <2>2. 0 \in 0 .. N /\ \A n \in 1 .. N : n \in 0 .. N /\ n # 0
      BY <1>1
    <2> HIDE DEF N
    <2> QED
      BY <2>1, <2>2, Zenon
  <1>8. L \in [0 .. N -> X]
    <2> DEFINE G == {n \in 0 .. N : L[n] \in X}
    <2>1. L = [k \in 0 .. N |-> L[k]]
      <3> HIDE DEF L
      <3> QED
        BY <1>5
    <2> HIDE DEF L
    <2>2. 0 \in G
      BY <1>1, <1>7
    <2>3. ASSUME NEW n \in 0 .. N - 1, n \in G PROVE n + 1 \in G
      <3>1. n + 1 \in 1 .. N /\ n + 1 \in 0 .. N /\ (n + 1) - 1 = n
        BY <1>1
      <3>2. L[n + 1] = RemainingOf(n + 1, L[n], junk)
        BY <1>7, <3>1
      <3> QED
        BY <2>3, <3>1, <3>2 DEF RemainingOf
    <2>4. 0 .. N \subseteq G
      <3> HIDE DEF G
      <3> QED
        BY <1>1, <2>2, <2>3, SetInduction
    <2>5. \A n \in 0 .. N : L[n] \in X
      BY <2>4
    <2> HIDE DEF X
    <2> QED
      BY <2>1, <2>5
  <1>9. L[N] \in X
    <2> HIDE DEF L
    <2> QED
      BY <1>1, <1>8
  <1> HIDE DEF L
  <1> QED
    BY <1>6, <1>7, <1>8, <1>9

\* No data is read as records.
LEMMA LostStepsAlone ==
    ASSUME NEW junk, DOMAIN junk = {}
    PROVE  \E L \in [0 .. InodeCount -> SUBSET Marked] :
             /\ L[0] = Marked
             /\ \A n \in 1 .. InodeCount : L[n] = Remaining(n, L[n - 1])
             /\ TrulyLost(junk) = L[InodeCount]
  <1>1. \A n, l : RemainingOf(n, l, junk) = Remaining(n, l)
    BY DEF RemainingOf, Remaining, MetBelow
  <1> QED
    BY <1>1, LostSteps

\* An inode that does not stay to be saved is met below one that does.
LEMMA LostCovers ==
    ASSUME Sound, \A i \in Marked : ~Loops(i), NEW junk, DOMAIN junk = {}
    PROVE  /\ TrulyLost(junk) \subseteq Marked
           /\ \A x \in Marked : x \in TrulyLost(junk) \/ \E p \in TrulyLost(junk) : x \in Seen(p)
  <1> DEFINE N == InodeCount
  <1>1. PICK L \in [0 .. N -> SUBSET Marked] :
          /\ L[0] = Marked
          /\ \A n \in 1 .. N : L[n] = Remaining(n, L[n - 1])
          /\ TrulyLost(junk) = L[N]
    BY LostStepsAlone
  <1>2. N \in Nat /\ Marked \subseteq Inodes
    BY NamespaceAssumption DEF Marked, InUse
  <1> HIDE DEF N
  <1> DEFINE Covered(n) == \A x \in Marked : x \in L[n] \/ \E p \in L[n] : x \in Seen(p)
             G == {n \in 0 .. N : Covered(n)}
  <1>3. 0 \in G
    BY <1>1, <1>2
  <1>4. ASSUME NEW n \in 0 .. N - 1, n \in G PROVE n + 1 \in G
    <2> DEFINE h == n + 1
    <2>1. h \in 1 .. N /\ h \in 0 .. N /\ h - 1 = n /\ n \in 0 .. N
      BY <1>2
    <2>2. L[h] = Remaining(h, L[n]) /\ L[n] \subseteq Marked
      BY <1>1, <2>1
    <2> HIDE DEF h
    <2>3. Covered(n)
      BY <1>4
    <2>4. CASE h \notin L[n]
      BY <2>1, <2>2, <2>3, <2>4 DEF Remaining
    <2>5. CASE h \in L[n]
      <3>1. L[h] = L[n] \ Seen(h) /\ h \in Inodes /\ h \notin Seen(h)
        BY <1>2, <2>2, <2>5, NotBelowItself DEF Remaining
      <3>2. h \in L[h]
        BY <2>5, <3>1
      <3>3. ASSUME NEW x \in Marked PROVE x \in L[h] \/ \E p \in L[h] : x \in Seen(p)
        <4>1. CASE x \in L[n]
          BY <3>1, <3>2, <4>1
        <4>2. CASE \E p \in L[n] : x \in Seen(p)
          <5>1. PICK p \in L[n] : x \in Seen(p)
            BY <4>2
          <5>2. CASE p \in Seen(h)
            BY <3>1, <3>2, <5>1, <5>2, SeenBelow
          <5>3. CASE p \notin Seen(h)
            BY <3>1, <5>1, <5>3
          <5> QED
            BY <5>2, <5>3
        <4> QED
          BY <2>3, <4>1, <4>2
      <3> QED
        BY <2>1, <3>3 DEF h
    <2> QED
      BY <2>4, <2>5
  <1>5. Covered(N)
    <2>1. 0 .. N \subseteq G
      <3> HIDE DEF G
      <3> QED
        BY <1>2, <1>3, <1>4, SetInduction
    <2>2. N \in G
      BY <1>2, <2>1
    <2> QED
      BY <2>2
  <1>6. L[N] \in SUBSET Marked
    BY <1>1, <1>2
  <1> QED
    BY <1>1, <1>5, <1>6

\* What is to be saved is named by no other inode.
LEMMA LostIsUnnamed ==
    ASSUME Sound, NEW junk, DOMAIN junk = {}
    PROVE  \A h \in Inodes : Targets(h) \intersect TrulyLost(junk) = {}
  <1> DEFINE N == InodeCount
  <1>1. PICK L \in [0 .. N -> SUBSET Marked] :
          /\ L[0] = Marked
          /\ \A n \in 1 .. N : L[n] = Remaining(n, L[n - 1])
          /\ TrulyLost(junk) = L[N]
    BY LostStepsAlone
  <1>2. N \in Nat /\ Marked \subseteq Inodes /\ Inodes = 1 .. N
    BY NamespaceAssumption DEF Marked, InUse, Inodes
  <1>3. TargetsAreInodes /\ \A h \in Inodes : Targets(h) \subseteq Seen(h)
    BY SoundTargets, SoundSeenIs DEF SoundSeen
  <1> HIDE DEF N
  <1> DEFINE Named1(n) == \A h \in Marked : h <= n \/ h \notin L[n] =>
                                              Targets(h) \intersect L[n] = {}
             G == {n \in 0 .. N : Named1(n)}
  <1>4. 0 \in G
    <2>1. 0 \in 0 .. N
      BY <1>2
    <2>2. Named1(0)
      BY <1>1, <1>2
    <2> QED
      BY <2>1, <2>2
  <1>5. ASSUME NEW n \in 0 .. N - 1, n \in G PROVE n + 1 \in G
    <2> DEFINE m == n + 1
    <2>1. m \in 1 .. N /\ m \in 0 .. N /\ m - 1 = n /\ n \in 0 .. N
      BY <1>2
    <2>2. L[m] = Remaining(m, L[n]) /\ L[n] \subseteq Marked
      BY <1>1, <2>1
    <2>3. L[m] \subseteq L[n]
      BY <2>2 DEF Remaining
    <2>4. \A h \in Marked : h <= m => h <= n \/ h = m
      BY <1>2, <2>1
    <2> HIDE DEF m
    <2>5. Named1(n)
      BY <1>5
    <2>6. ASSUME NEW h \in Marked, h <= m \/ h \notin L[m]
          PROVE  Targets(h) \intersect L[m] = {}
      <3>1. CASE h <= n \/ h \notin L[n]
        BY <2>3, <2>5, <3>1
      <3>2. CASE h \in L[n] /\ h = m
        <4>1. L[m] = L[n] \ Seen(h) /\ Targets(h) \subseteq Seen(h)
          BY <1>2, <1>3, <2>2, <3>2 DEF Remaining
        <4> QED
          BY <4>1
      <3>3. CASE h \in L[n] /\ h \notin L[m]
        <4>1. m \in L[n] /\ h \in Seen(m) /\ L[m] = L[n] \ Seen(m)
          BY <2>2, <3>3 DEF Remaining
        <4>2. m \in Inodes /\ h \in Inodes
          BY <1>2, <2>2, <4>1
        <4>3. Targets(h) \subseteq Seen(m)
          BY <1>3, <4>1, <4>2, SeenBelow
        <4> QED
          BY <4>1, <4>3
      <3> QED
        BY <2>4, <2>6, <3>1, <3>2, <3>3
    <2>7. Named1(m)
      BY <2>6
    <2> QED
      BY <2>1, <2>7 DEF m
  <1>6. Named1(N)
    <2>1. 0 .. N \subseteq G
      <3> HIDE DEF G
      <3> QED
        BY <1>2, <1>4, <1>5, SetInduction
    <2>2. N \in G
      BY <1>2, <2>1
    <2> QED
      BY <2>2
  <1>7. TrulyLost(junk) \subseteq Marked
    BY <1>1, <1>2
  <1>8. ASSUME NEW h \in Inodes PROVE Targets(h) \intersect TrulyLost(junk) = {}
    <2>1. CASE h \in Marked
      BY <1>1, <1>2, <1>6, <2>1
    <2>2. CASE h \notin InUse
      <3>1. Targets(h) = {}
        BY <2>2 DEF InUse, Sound
      <3> QED
        BY <3>1
    <2>3. CASE h \in {RootId} \union Seen(RootId)
      <3>1. Targets(h) \subseteq Seen(RootId)
        <4>1. CASE h = RootId
          BY <1>3, <4>1
        <4>2. CASE h \in Seen(RootId)
          BY <1>3, <4>2, RootIsInode, SeenBelow
        <4> QED
          BY <2>3, <4>1, <4>2
      <3> QED
        BY <1>7, <3>1 DEF Marked
    <2> QED
      BY <2>1, <2>2, <2>3 DEF Marked
  <1> QED
    BY <1>8

\* The targets of a directory that gets a record.
LEMMA ReceivedTargets ==
    ASSUME NEW d, NEW e, NEW p, NEW r, Receives(d, e, p, r), Plain(r.name),
           \A k \in Ordinary(d) : d[k].id # NoInode
    PROVE  \A x : (\E k \in Ordinary(e) : x = e[k].id)
                    <=> x = r.id \/ \E k \in Ordinary(d) : x = d[k].id
  <1>1. p \in Ordinary(e) /\ e[p].id = r.id /\ p \notin Ordinary(d)
    BY DEF Receives, Plain, Ordinary
  <1>2. ASSUME NEW k \in Ordinary(d) PROVE k \in Ordinary(e) /\ e[k] = d[k]
    BY <1>1, <1>2 DEF Receives, Ordinary
  <1>3. ASSUME NEW k \in Ordinary(e), k # p PROVE k \in Ordinary(d) /\ e[k] = d[k]
    <2>1. EmptyItem.name = ""
      BY DEF EmptyItem
    <2> QED
      BY <1>3, <2>1 DEF Receives, Ordinary
  <1> QED
    BY <1>1, <1>2, <1>3

\* fsck makes lost+found.
LostFoundMade(i) ==
    /\ itype' = [itype EXCEPT ![i] = "dirc"]
    /\ dir' = [dir EXCEPT ![i] = LostFoundDir(i), ![RootId] = LostFoundInRoot(i)]

\* The inode may link blocks still, but no records are in them.
LEMMA LostFoundEmpty ==
    ASSUME NEW i \in Inodes, dir[i] \in Dirs, Ordinary(dir[i]) = {}
    PROVE  Ordinary(LostFoundDir(i)) = {}
  <1> DEFINE a == NewDirItems(i, RootId)
             d == dir[i]
             b == SubSeq(d, DirItems + 1, Len(d))
  <1>1. DirItems \in Nat /\ DirItems + 1 \in Nat \ {0}
    BY NamespaceAssumption
  <1>2. a \in Seq(Records) /\ Ordinary(a) = {}
    <2>1. i \in Ids /\ RootId \in Ids
      BY RootIsInode DEF Ids
    <2>2. a \in Dirs
      BY <2>1, NewDirItemsKeep
    <2> QED
      BY <2>2, RootIsInode, FirstBlockShape DEF Dirs
  <1>3. /\ b \in Dirs /\ Len(b) = IF DirItems + 1 <= Len(d) THEN Len(d) - (DirItems + 1) + 1 ELSE 0
    BY <1>1, RestKeeps
  <1>4. \A k \in 1 .. Len(d) - (DirItems + 1) + 1 : b[k] = d[DirItems + 1 + k - 1]
    BY <1>1
  <1>5. d \in Seq(Records) /\ DOMAIN d = 1 .. Len(d) /\ Len(d) \in Nat
    BY LenProperties DEF Dirs
  <1>6. b \in Seq(Records) /\ DOMAIN b = 1 .. Len(b) /\ Len(b) \in Nat
    BY <1>3, LenProperties DEF Dirs
  <1>7. a \in Seq(Records) /\ DOMAIN a = 1 .. Len(a) /\ Len(a) \in Nat
    BY <1>2, LenProperties
  <1> HIDE DEF a, b
  <1>8. ASSUME NEW k \in DOMAIN b PROVE b[k].name \in {"", Dot, DotDot}
    <2>1. DirItems + 1 <= Len(d) /\ k \in 1 .. Len(d) - (DirItems + 1) + 1
      BY <1>1, <1>3, <1>5, <1>6, <1>8
    <2>2. DirItems + 1 + k - 1 \in DOMAIN d /\ b[k] = d[DirItems + 1 + k - 1]
      BY <1>1, <1>4, <1>5, <2>1
    <2> QED
      BY <2>2 DEF Ordinary
  <1>9. /\ a \o b \in Seq(Records) /\ Len(a \o b) = Len(a) + Len(b)
        /\ \A k \in 1 .. Len(a) + Len(b) : (a \o b)[k] = IF k <= Len(a) THEN a[k] ELSE b[k - Len(a)]
    BY <1>6, <1>7, ConcatProperties
  <1>10. DOMAIN (a \o b) = 1 .. Len(a) + Len(b)
    BY <1>9, LenProperties
  <1>11. ASSUME NEW k \in 1 .. Len(a) + Len(b) PROVE (a \o b)[k].name \in {"", Dot, DotDot}
    <2>1. CASE k <= Len(a)
      <3>1. k \in DOMAIN a /\ (a \o b)[k] = a[k]
        BY <1>6, <1>7, <1>9, <2>1
      <3> QED
        BY <1>2, <3>1 DEF Ordinary
    <2>2. CASE k > Len(a)
      <3>1. k - Len(a) \in DOMAIN b /\ (a \o b)[k] = b[k - Len(a)]
        BY <1>6, <1>7, <1>9, <2>2
      <3> QED
        BY <1>8, <3>1
    <2>3. k <= Len(a) \/ k > Len(a)
      BY <1>6, <1>7
    <2> QED
      BY <2>1, <2>2, <2>3
  <1>12. Ordinary(a \o b) = {}
    BY <1>10, <1>11 DEF Ordinary
  <1> QED
    BY <1>12 DEF LostFoundDir, a, b

LEMMA LostFoundTargets ==
    ASSUME IInv, Sound, FsckDefined, NEW i \in Inodes \ {RootId}, itype[i] = "free",
           LostFoundMade(i)
    PROVE  /\ Targets(i)' = {}
           /\ Targets(RootId)' = Targets(RootId) \union {i}
           /\ \A j \in Inodes \ {i, RootId} : Targets(j)' = Targets(j)
  <1> DEFINE item == Item(LostFound, i)
             d == dir[RootId]
             e == IF HasPlace(d) THEN Added(d, item) ELSE Grown(d, item)
  <1>1. /\ dir'[i] = LostFoundDir(i) /\ dir'[RootId] = e
        /\ \A j \in Inodes \ {i, RootId} : dir'[j] = dir[j]
    BY RootIsInode DEF LostFoundMade, LostFoundInRoot, IInv
  <1>2. Targets(i)' = {}
    <2>1. Ordinary(LostFoundDir(i)) = {}
      <3>1. Targets(i) = {} /\ dir[i] \in Dirs
        BY DEF Sound, IInv
      <3>2. Ordinary(dir[i]) = {}
        BY <3>1 DEF Targets
      <3> QED
        BY <3>1, <3>2, LostFoundEmpty
    <2> QED
      BY <1>1, <2>1 DEF Targets
  <1>3. Targets(RootId)' = Targets(RootId) \union {i}
    <2>1. item \in Records /\ Plain(item.name) /\ item.id = i
      BY FsckNames DEF Item, Records, Ids, Plain, LostFound, Dot, DotDot
    <2>2. d \in Seq(Records)
      BY RootIsInode DEF IInv, Dirs
    <2> HIDE DEF item
    <2>3. \E p \in Nat : Receives(d, e, p, item)
      BY <2>1, <2>2, AddedReceives, GrownReceives
    <2>4. \A k \in Ordinary(d) : d[k].id # NoInode
      BY RootIsInode DEF FsckDefined, Targets
    <2> HIDE DEF d, e
    <2>5. \A x : (\E k \in Ordinary(e) : x = e[k].id)
                    <=> x = item.id \/ \E k \in Ordinary(d) : x = d[k].id
      BY <2>1, <2>3, <2>4, ReceivedTargets
    <2>6. Targets(RootId)' = {e[k].id : k \in Ordinary(e)}
      BY <1>1 DEF Targets
    <2>7. Targets(RootId) = {d[k].id : k \in Ordinary(d)}
      BY DEF Targets, d
    <2> QED
      BY <2>1, <2>5, <2>6, <2>7
  <1>4. \A j \in Inodes \ {i, RootId} : Targets(j)' = Targets(j)
    BY <1>1 DEF Targets
  <1> QED
    BY <1>2, <1>3, <1>4

\* When records are added that name empty directories of E, the search meets
\* what it met, and of the rest only these.
LEMMA SeenGrows ==
    ASSUME Sound, NEW E \in SUBSET Inodes,
           \A j \in Inodes : /\ Targets(j) \subseteq Targets(j)'
                             /\ Targets(j)' \subseteq Targets(j) \union E,
           \A j \in E : Targets(j)' = {},
           \A j \in Inodes \ E : itype'[j] = itype[j]
    PROVE  \A x \in Inodes : Seen(x) \subseteq Seen(x)' /\ Seen(x)' \subseteq Seen(x) \union E
  <1>1. TargetsAreInodes
    BY SoundTargets
  <1>2. TargetsAreInodes'
    BY <1>1 DEF TargetsAreInodes, Inodes
  <1>3. \A j \in E : Targets(j) = {}
    OBVIOUS
  <1> TAKE x \in Inodes
  <1>4. /\ Targets(x) \subseteq Seen(x) /\ Seen(x) \subseteq Inodes
        /\ \A j \in Seen(x) : itype[j] = "dirc" => Targets(j) \subseteq Seen(x)
        /\ \A Q \in SUBSET Inodes :
             /\ Targets(x) \subseteq Q
             /\ \A j \in Q : itype[j] = "dirc" => Targets(j) \subseteq Q
             => Seen(x) \subseteq Q
    BY <1>1, SoundSeenIs DEF SoundSeen
  <1>5. /\ Targets(x)' \subseteq Seen(x)' /\ Seen(x)' \subseteq Inodes
        /\ \A j \in Seen(x)' : itype'[j] = "dirc" => Targets(j)' \subseteq Seen(x)'
        /\ \A Q \in SUBSET Inodes :
             /\ Targets(x)' \subseteq Q
             /\ \A j \in Q : itype'[j] = "dirc" => Targets(j)' \subseteq Q
             => Seen(x)' \subseteq Q
    BY <1>2, SoundSeenWillBe DEF SoundSeen, Inodes
  <1>6. Seen(x) \subseteq Seen(x)'
    <2>1. Targets(x) \subseteq Seen(x)' /\ Seen(x)' \in SUBSET Inodes
      BY <1>5
    <2>2. ASSUME NEW j \in Seen(x)', itype[j] = "dirc" PROVE Targets(j) \subseteq Seen(x)'
      <3>1. CASE j \in E
        BY <1>3, <3>1
      <3>2. CASE j \notin E
        <4>1. j \in Inodes /\ itype'[j] = "dirc"
          BY <2>1, <2>2, <3>2
        <4> QED
          BY <1>5, <4>1
      <3> QED
        BY <3>1, <3>2
    <2> QED
      BY <1>4, <2>1, <2>2
  <1>7. Seen(x)' \subseteq Seen(x) \union E
    <2> DEFINE Q == Seen(x) \union E
    <2>1. Targets(x)' \subseteq Q /\ Q \in SUBSET Inodes
      BY <1>4
    <2>2. ASSUME NEW j \in Q, itype'[j] = "dirc" PROVE Targets(j)' \subseteq Q
      <3>1. CASE j \in E
        BY <3>1
      <3>2. CASE j \notin E
        <4>1. j \in Seen(x) /\ j \in Inodes /\ itype[j] = "dirc"
          BY <1>4, <2>1, <2>2, <3>2
        <4> QED
          BY <1>4, <4>1
      <3> QED
        BY <3>1, <3>2
    <2> HIDE DEF Q
    <2>3. Seen(x)' \subseteq Q
      BY <1>5, <2>1, <2>2
    <2> QED
      BY <2>3 DEF Q
  <1> QED
    BY <1>6, <1>7

\* With lost+found the search meets lost+found as well, and nothing else.
LEMMA LostFoundSeen ==
    ASSUME IInv, Sound, FsckDefined, NEW i \in Inodes \ {RootId}, itype[i] = "free",
           LostFoundMade(i)
    PROVE  /\ i \in Seen(RootId)' /\ InUse' = InUse \union {i}
           /\ \A x \in Inodes : Seen(x) \subseteq Seen(x)' /\ Seen(x)' \subseteq Seen(x) \union {i}
  <1>1. /\ Targets(i)' = {} /\ Targets(RootId)' = Targets(RootId) \union {i}
        /\ \A j \in Inodes \ {i, RootId} : Targets(j)' = Targets(j)
    BY LostFoundTargets
  <1>2. /\ itype'[i] = "dirc" /\ \A j \in Inodes \ {i} : itype'[j] = itype[j]
        /\ InUse' = InUse \union {i}
    BY DEF LostFoundMade, IInv, InUse
  <1>3. TargetsAreInodes /\ Targets(i) = {}
    BY SoundTargets DEF Sound
  <1>4. \A j \in Inodes : /\ Targets(j) \subseteq Targets(j)'
                          /\ Targets(j)' \subseteq Targets(j) \union {i}
    BY <1>1, <1>3
  <1>5. \A x \in Inodes : Seen(x) \subseteq Seen(x)' /\ Seen(x)' \subseteq Seen(x) \union {i}
    <2>1. {i} \in SUBSET Inodes /\ \A j \in {i} : Targets(j)' = {}
      BY <1>1
    <2>2. \A j \in Inodes \ {i} : itype'[j] = itype[j]
      BY <1>2
    <2> QED
      BY <1>4, <2>1, <2>2, SeenGrows
  <1>6. i \in Seen(RootId)'
    <2>1. TargetsAreInodes'
      BY <1>3, <1>4 DEF TargetsAreInodes, Inodes
    <2>2. \A x \in Inodes : Targets(x)' \subseteq Seen(x)'
      BY <2>1, SoundSeenWillBe DEF SoundSeen, Inodes
    <2> QED
      BY <1>1, <2>2, RootIsInode
  <1> QED
    BY <1>2, <1>5, <1>6

\* The lost+found that is looked up from the current directory is in the tree.
LEMMA LostFoundIsSeen ==
    ASSUME IInv, Sound, Charted, Has(dir[cwd], LostFound),
           IdOf(dir[cwd], LostFound) # NoInode
    PROVE  IdOf(dir[cwd], LostFound) \in Seen(RootId)
  <1> DEFINE k == Min(Named(dir[cwd], LostFound))
             i == IdOf(dir[cwd], LostFound)
  <1>1. cwd \in Inodes /\ {RootId, cwd} \in SUBSET Inodes
    BY RootIsInode DEF IInv
  <1>2. cwd \in {RootId} \union Seen(RootId)
    BY <1>1, PathsAre DEF PathFacts, Walked, Charted
  <1>3. k \in Named(dir[cwd], LostFound)
    <2>1. Named(dir[cwd], LostFound) \subseteq Nat
      <3>1. DOMAIN dir[cwd] = 1 .. Len(dir[cwd])
        BY <1>1, DirShape
      <3> QED
        BY <3>1 DEF Named
    <2> QED
      BY <2>1, MinIsLeast DEF Has
  <1>4. i = dir[cwd][k].id
    BY DEF IdOf
  <1> HIDE DEF k
  <1>5. k \in Ordinary(dir[cwd])
    BY <1>3 DEF Named, Ordinary, LostFound, Dot, DotDot
  <1>6. i \in Targets(cwd)
    BY <1>4, <1>5 DEF Targets
  <1>7. itype[cwd] = "dirc"
    BY <1>1, <1>6 DEF Sound
  <1>8. /\ TargetsAreInodes /\ Targets(RootId) \subseteq Seen(RootId)
        /\ \A j \in Seen(RootId) : itype[j] = "dirc" => Targets(j) \subseteq Seen(RootId)
    BY RootIsInode, SoundTargets, SoundSeenIs DEF SoundSeen
  <1> QED
    BY <1>2, <1>6, <1>7, <1>8

\* The places of records of i are records of i.
LEMMA UnnamedHasNoRecords ==
    ASSUME NEW i, \A h \in Inodes : i \notin Targets(h)
    PROVE  RecordsOf(i) = {}
  BY DEF RecordsOf, Targets

\* The search depends on the records and the types.
LEMMA SeenStays ==
    ASSUME Sound, UNCHANGED <<itype, dir>>
    PROVE  \A i \in Inodes : Seen(i)' = Seen(i)
  <1>1. \A i \in Inodes : Targets(i)' = Targets(i)
    BY DEF Targets
  <1>2. \A x \in Inodes : Seen(x) \subseteq Seen(x)' /\ Seen(x)' \subseteq Seen(x) \union {}
    BY <1>1, SeenGrows
  <1> QED
    BY <1>2

\* All inodes in use but those in the tree and those to be saved are met below
\* one to be saved.
LEMMA SavedIsAll ==
    ASSUME Sound, itype[RootId] = "dirc", \A i \in Marked : ~Loops(i),
           NEW junk, DOMAIN junk = {}
    PROVE  /\ TrulyLost(junk) \subseteq InUse
           /\ \A i \in TrulyLost(junk) : RecordsOf(i) = {}
           /\ \A x \in InUse : \/ x \in {RootId} \union Seen(RootId) \union TrulyLost(junk)
                               \/ \E i \in TrulyLost(junk) : x \in Seen(i)
  <1>1. /\ TrulyLost(junk) \subseteq Marked
        /\ \A x \in Marked : x \in TrulyLost(junk) \/ \E p \in TrulyLost(junk) : x \in Seen(p)
    BY LostCovers
  <1>2. \A i \in TrulyLost(junk) : RecordsOf(i) = {}
    BY LostIsUnnamed, UnnamedHasNoRecords
  <1> QED
    BY <1>1, <1>2 DEF Marked

\* What FsckSaves says of a step.
SavesAll ==
    Without({"data"}) /\ op.at = "idle" /\ op'.at = "rescue" /\ Sound /\ Charted
      /\ itype[RootId] = "dirc" /\ itype'[op'.par] = "dirc"
    => /\ op'.par \in Seen(RootId)'
       /\ \A i \in op'.lost : RecordsOf(i) = {}
       /\ InUse' = {RootId} \union Seen(RootId)' \union op'.lost
                    \union UNION {Seen(i)' : i \in op'.lost}

LEMMA FindingSaves ==
    ASSUME IInv, FreeIsUnused, FsckFindsLost, Without({"data"}), Sound, Charted, itype[RootId] = "dirc"
    PROVE  /\ op'.par \in Seen(RootId)'
           /\ \A i \in op'.lost : RecordsOf(i) = {}
           /\ InUse' = {RootId} \union Seen(RootId)' \union op'.lost
                        \union UNION {Seen(i)' : i \in op'.lost}
  <1>1. FsckDefined /\ \A i \in Marked : ~Loops(i)
    BY DEF FsckFindsLost, FsckReturns
  <1>0. \A junk \in Harmless : DOMAIN junk = {}
    BY DEF Harmless, Junk, LostFiles, Without
  <1>2. ASSUME NEW junk \in Harmless
        PROVE  /\ TrulyLost(junk) \subseteq InUse
               /\ \A i \in TrulyLost(junk) : RecordsOf(i) = {}
               /\ \A x \in InUse : \/ x \in {RootId} \union Seen(RootId) \union TrulyLost(junk)
                                   \/ \E i \in TrulyLost(junk) : x \in Seen(i)
    BY <1>0, <1>1, <1>2, SavedIsAll
  <1>3. /\ RootId \in InUse /\ InUse \subseteq Inodes
        /\ \A i \in Inodes : Seen(i) \subseteq InUse
    BY RootIsInode, SoundTargets DEF InUse
  <1>4. CASE /\ Has(dir[cwd], LostFound)
             /\ IdOf(dir[cwd], LostFound) # NoInode
             /\ \E junk \in Harmless :
                  op' = [Begin("rescue", "fsck", NoInode, "", IdOf(dir[cwd], LostFound))
                           EXCEPT !.lost = TrulyLost(junk)]
             /\ UNCHANGED <<itype, ibm, dir, void, cwd, err>>
    <2>0. PICK junk \in Harmless :
                  op' = [Begin("rescue", "fsck", NoInode, "", IdOf(dir[cwd], LostFound))
                           EXCEPT !.lost = TrulyLost(junk)]
      BY <1>4
    <2>1. op'.lost = TrulyLost(junk) /\ op'.par = IdOf(dir[cwd], LostFound)
      BY <2>0 DEF Begin
    <2>2. op'.par \in Seen(RootId)
      BY <1>4, <2>1, LostFoundIsSeen
    <2>3. InUse' = InUse /\ \A i \in Inodes : Seen(i)' = Seen(i)
      BY <1>4, SeenStays DEF InUse
    <2>4. InUse = {RootId} \union Seen(RootId) \union TrulyLost(junk)
                    \union UNION {Seen(i) : i \in TrulyLost(junk)}
      BY <1>2, <1>3, RootIsInode
    <2> QED
      BY <1>2, <1>3, <2>1, <2>2, <2>3, <2>4, RootIsInode
  <1>5. CASE \E i \in Inodes, junk \in Harmless :
               /\ FirstFree(i) /\ LostFoundMade(i)
               /\ op' = [Begin("rescue", "fsck", NoInode, "", i) EXCEPT !.lost = TrulyLost(junk)]
    <2>1. PICK i \in Inodes, junk \in Harmless :
               /\ FirstFree(i) /\ LostFoundMade(i)
               /\ op' = [Begin("rescue", "fsck", NoInode, "", i) EXCEPT !.lost = TrulyLost(junk)]
      BY <1>5
    <2>2. op'.lost = TrulyLost(junk) /\ op'.par = i
      BY <2>1 DEF Begin
    <2>3. itype[i] = "free" /\ i \in Inodes \ {RootId}
      BY <2>1 DEF FirstFree, FreeIsUnused
    <2>4. /\ i \in Seen(RootId)' /\ InUse' = InUse \union {i}
          /\ \A x \in Inodes : Seen(x) \subseteq Seen(x)' /\ Seen(x)' \subseteq Seen(x) \union {i}
      BY <1>1, <2>1, <2>3, LostFoundSeen
    <2> DEFINE All == {RootId} \union Seen(RootId)' \union TrulyLost(junk)
                        \union UNION {Seen(x)' : x \in TrulyLost(junk)}
    <2>5. InUse \union {i} \subseteq All
      <3> SUFFICES ASSUME NEW x \in InUse \union {i} PROVE x \in All
        OBVIOUS
      <3>1. CASE x = i
        BY <2>4, <3>1
      <3>2. CASE x \in {RootId} \union Seen(RootId) \union TrulyLost(junk)
        BY <2>4, <3>2, RootIsInode
      <3>3. CASE \E p \in TrulyLost(junk) : x \in Seen(p)
        BY <1>2, <1>3, <2>4, <3>3
      <3> QED
        BY <1>2, <3>1, <3>2, <3>3
    <2>6. All \subseteq InUse \union {i}
      BY <1>2, <1>3, <2>4, RootIsInode
    <2> QED
      BY <1>2, <2>2, <2>4, <2>5, <2>6
  <1> QED
    BY <1>4, <1>5, FindingLost, Zenon DEF LostFoundMade

LEMMA StepSavesAll == IInv /\ FreeIsUnused /\ [Next]_vars => [SavesAll]_vars
  <1> SUFFICES ASSUME IInv, FreeIsUnused, [Next]_vars,
                      Without({"data"}), op.at = "idle", op'.at = "rescue", Sound, Charted,
                      itype[RootId] = "dirc"
               PROVE  /\ op'.par \in Seen(RootId)'
                      /\ \A i \in op'.lost : RecordsOf(i) = {}
                      /\ InUse' = {RootId} \union Seen(RootId)' \union op'.lost
                                   \union UNION {Seen(i)' : i \in op'.lost}
    BY DEF SavesAll
  <1>1. CASE FsckFindsLost
    BY <1>1, FindingSaves
  <1>2. CASE ~FsckFindsLost
    <2>1. CASE StartMkdir \/ StartCopy \/ StartIncp
      <3>1. ASSUME NEW i, NEW cmd, NEW n, NEW p, TakeInode(i, cmd, n, p) PROVE op'.at = "add"
        BY <3>1 DEF TakeInode, Begin
      <3>2. ASSUME NEW n, NEW p, op' = Begin("add", "mkdir", NoInode, n, p) PROVE op'.at = "add"
        BY <3>2 DEF Begin
      <3>3. op'.at = "add"
        <4>1. CASE StartMkdir
          BY <3>1, <3>2, <4>1 DEF StartMkdir
        <4>2. CASE StartCopy
          BY <3>1, <4>2 DEF StartCopy
        <4>3. CASE StartIncp
          BY <3>1, <4>3 DEF StartIncp
        <4> QED
          BY <2>1, <4>1, <4>2, <4>3
      <3> QED
        BY <3>3
    <2>2. CASE \/ IncpNowhere \/ IncpOver \/ Cd \/ Corrupt \/ FsckFindsNoSpace \/ Refuse
               \/ FsckFindsNothing \/ UNCHANGED vars
      <3>1. op' = op
        BY <2>2 DEF IncpNowhere, IncpOver, Cd, Corrupt, FsckFindsNoSpace, Refuse,
                    FsckFindsNothing, vars
      <3> QED
        BY <3>1
    <2>3. CASE StartRm \/ StartRmdir \/ StartMv
      <3>1. ASSUME NEW at, NEW cmd, NEW i, NEW n, NEW p, op' = Begin(at, cmd, i, n, p)
            PROVE  op'.at = at
        BY <3>1 DEF Begin
      <3>2. CASE StartRm
        <4>1. PICK f \in Found : op' = Begin("free", "rm", f.id, "", NoInode)
          BY <3>2 DEF StartRm
        <4>2. op'.at = "free"
          BY <3>1, <4>1
        <4> QED
          BY <4>2
      <3>3. CASE StartRmdir
        <4>1. PICK f \in Found : op' = Begin("free", "rmdir", f.id, "", NoInode)
          BY <3>3 DEF StartRmdir
        <4>2. op'.at = "free"
          BY <3>1, <4>1
        <4> QED
          BY <4>2
      <3>4. CASE StartMv
        BY <3>1, <3>4 DEF StartMv
      <3> QED
        BY <2>3, <3>2, <3>3, <3>4
    <2>4. CASE \/ AddRecord \/ CopyNothing \/ AddFails \/ FreeInode \/ Unlink
               \/ Rescue \/ RescueFails \/ FsckDone
      BY <2>4 DEF AddRecord, CopyNothing, AddFails, FreeInode, Unlink, Rescue,
                  RescueFails, FsckDone
    <2>5. CASE FsckOverflows \/ FsckMisreads \/ Kill
      BY <2>5, IdleIsOp DEF FsckOverflows, FsckMisreads, Kill, Restart
    <2> QED
      BY <1>2, <2>1, <2>2, <2>3, <2>4, <2>5 DEF Next
  <1> QED
    BY <1>1, <1>2

\* What fsck writes into lost+found is all that is lost, and only what no record
\* names, whatever the disk looks like, as long as no record dangles, the root is
\* there and no lost file's data reads as records.
THEOREM FsckSavesAll == Spec => FsckSaves
  <1>1. Init => IInv /\ FreeIsUnused
    BY IInvInitially, UnusedInitially
  <1>2. IInv /\ FreeIsUnused /\ [Next]_vars => (IInv /\ FreeIsUnused)'
    BY StepKeeps, StepIsUnused
  <1> QED
    BY <1>1, <1>2, StepSavesAll, PTL DEF Spec, FsckSaves, SavesAll

------------------------------------------------------------------------------
(* What stays in the tree                                                  *)

Hanging == {RootId} \union Seen(RootId)

LEMMA TargetsHaveIds == IInv => TargetsAreIds
  <1> SUFFICES ASSUME IInv, NEW i \in Inodes, NEW k \in Ordinary(dir[i])
               PROVE  dir[i][k].id \in Ids
    BY DEF TargetsAreIds, Targets
  <1>1. k \in DOMAIN dir[i]
    BY DEF Ordinary
  <1>2. dir[i][k] \in Records
    BY <1>1, DirShape
  <1> QED
    BY <1>2 DEF Records

LEMMA TargetsWillHaveIds == IInv' => TargetsAreIds'
  BY TargetsHaveIds, PTL

\* A step may take x out of the tree, and nothing else, when every directory of
\* the tree keeps its type and its records, but for those of x, which is no
\* directory or an empty one.
KeepsBut(x, j) ==
    Targets(j) # {} => Targets(j) \subseteq Targets(j)' \union {x} /\ itype'[j] = "dirc"

LEMMA SeenKeptBut ==
    ASSUME IInv, IInv', NEW x, x \in Inodes => Targets(x) = {},
           \A j \in Hanging \intersect Inodes : KeepsBut(x, j)
    PROVE  Seen(RootId) \subseteq Seen(RootId)' \union {x}
  <1> DEFINE Now == Seen(RootId)
             Then == Seen(RootId)'
             Q == (Then \union {x}) \intersect Now
  <1>1. /\ Targets(RootId) \subseteq Now /\ Now \subseteq Ids
        /\ \A j \in Now \intersect Inodes : itype[j] = "dirc" => Targets(j) \subseteq Now
        /\ \A P \in SUBSET Ids :
             /\ Targets(RootId) \subseteq P
             /\ \A j \in P \intersect Inodes : itype[j] = "dirc" => Targets(j) \subseteq P
             => Now \subseteq P
    BY RootIsInode, TargetsHaveIds, SeenIs DEF SeenFacts
  <1>2. /\ Targets(RootId)' \subseteq Then
        /\ \A j \in Then \intersect Inodes : itype'[j] = "dirc" => Targets(j)' \subseteq Then
    BY RootIsInode, TargetsWillHaveIds, SeenWillBe DEF SeenFacts, Inodes, RootId
  <1>3. \A j \in Now \intersect Inodes : KeepsBut(x, j)
    BY DEF Hanging
  <1>4. KeepsBut(x, RootId)
    BY RootIsInode DEF Hanging
  <1> HIDE DEF Now, Then
  <1>5. Q \in SUBSET Ids /\ Targets(RootId) \subseteq Q
    BY <1>1, <1>2, <1>4 DEF KeepsBut
  <1>6. ASSUME NEW j \in Q \intersect Inodes, itype[j] = "dirc" PROVE Targets(j) \subseteq Q
    <2>1. j \in Now /\ Targets(j) \subseteq Now /\ KeepsBut(x, j)
      BY <1>1, <1>3, <1>6
    <2>2. CASE Targets(j) = {}
      BY <2>2
    <2>3. CASE Targets(j) # {}
      <3>1. j # x /\ j \in Then
        BY <1>6, <2>3
      <3>2. Targets(j) \subseteq Targets(j)' \union {x} /\ itype'[j] = "dirc"
        BY <2>1, <2>3 DEF KeepsBut
      <3>3. Targets(j)' \subseteq Then
        BY <1>2, <1>6, <3>1, <3>2
      <3> QED
        BY <2>1, <3>2, <3>3
    <2> QED
      BY <2>2, <2>3
  <1> HIDE DEF Q
  <1>7. Now \subseteq Q
    BY <1>1, <1>5, <1>6
  <1> QED
    BY <1>7 DEF Q, Now, Then

\* What NothingFallsOut says of the inodes of a step.
NoneFalls ==
    \A i \in InUse \intersect Seen(RootId) :
        \/ i \in Seen(RootId)'
        \/ op'.at = "free" /\ op'.child = i
        \/ Corrupt

\* An inode that keeps what it is, or gets one record more.
Stays(j) == dir'[j] = dir[j] /\ itype'[j] = itype[j]
Gets(j) == itype'[j] = itype[j] /\ \E p : \E r : Receives(dir[j], dir'[j], p, r)
OnlyGains == \A j \in Hanging : Targets(j) = {} \/ Stays(j) \/ Gets(j)

LEMMA GainsKeepAll ==
    ASSUME IInv, IInv', Sound, OnlyGains
    PROVE  NoneFalls
  <1>1. NoInode \notin Inodes
    BY RootIsInode
  <1>2. ASSUME NEW j \in Hanging \intersect Inodes PROVE KeepsBut(NoInode, j)
    <2> SUFFICES ASSUME Targets(j) # {}
                 PROVE  Targets(j) \subseteq Targets(j)' \union {NoInode} /\ itype'[j] = "dirc"
      BY DEF KeepsBut
    <2>1. itype[j] = "dirc"
      BY DEF Sound
    <2>2. Stays(j) \/ Gets(j)
      BY <1>2 DEF OnlyGains
    <2>3. CASE Stays(j)
      BY <2>1, <2>3 DEF Stays, Targets
    <2>4. CASE Gets(j)
      <3>1. PICK p : \E r : Receives(dir[j], dir'[j], p, r)
        BY <2>4 DEF Gets
      <3>2. PICK r : Receives(dir[j], dir'[j], p, r)
        BY <3>1
      <3> DEFINE d == dir[j]
                 e == dir'[j]
      <3>3. Targets(j) = {d[k].id : k \in Ordinary(d)} /\ Targets(j)' = {e[k].id : k \in Ordinary(e)}
        BY DEF Targets
      <3>4. Receives(d, e, p, r) /\ itype'[j] = "dirc"
        BY <2>1, <2>4, <3>2 DEF Gets
      <3> HIDE DEF d, e
      <3>5. \A k \in Ordinary(d) : d[k].id # NoInode => k \in Ordinary(e) /\ e[k] = d[k]
        BY <3>4 DEF Receives, Ordinary
      <3> QED
        BY <3>3, <3>4, <3>5
    <2> QED
      BY <2>2, <2>3, <2>4
  <1>3. Seen(RootId) \subseteq Seen(RootId)' \union {NoInode}
    BY <1>1, <1>2, SeenKeptBut
  <1> QED
    BY <1>1, <1>3 DEF NoneFalls, InUse

LEMMA HangingAreInodes == ASSUME Sound PROVE Hanging \subseteq Inodes
  BY RootIsInode, SoundTargets DEF Hanging, InUse

\* What a command takes or frees has no records.
LEMMA FreeIsEmpty ==
    ASSUME FreeIsUnused, Sound, NEW i \in Inodes, FirstFree(i)
    PROVE  Targets(i) = {}
  BY DEF FreeIsUnused, Sound, FirstFree

LEMMA OthersStay ==
    ASSUME IInv, Sound, NEW i \in Inodes, Targets(i) = {},
           \A j \in Inodes \ {i} : dir'[j] = dir[j] /\ itype'[j] = itype[j]
    PROVE  OnlyGains
  BY HangingAreInodes DEF OnlyGains, Stays

\* A record is written in a directory.
LEMMA WritingGets ==
    ASSUME IInv, NEW p \in Inodes, NEW r \in Records, itype'[p] = itype[p],
           \/ HasPlace(dir[p]) /\ dir'[p] = Added(dir[p], r)
           \/ dir'[p] = Grown(dir[p], r)
    PROVE  Gets(p)
  <1>1. dir[p] \in Seq(Records)
    BY DEF IInv, Dirs
  <1>2. \E q \in Nat : Receives(dir[p], dir'[p], q, r)
    BY <1>1, AddedReceives, GrownReceives
  <1> QED
    BY <1>2 DEF Gets

LEMMA CreationKeepsAll ==
    ASSUME IInv, Sound, FreeIsUnused,
           StartMkdir \/ StartCopy \/ StartIncp \/ IncpNowhere
    PROVE  OnlyGains
  <1>1. CASE UNCHANGED <<itype, dir>>
    BY <1>1 DEF OnlyGains, Stays
  <1>2. CASE StartMkdir
    <2>1. \/ UNCHANGED <<itype, dir>>
          \/ \E p \in DirPaths, n \in Names, i \in Inodes :
               TakeInode(i, "mkdir", n, p) /\ NewDirectory(i, p)
      BY <1>2 DEF StartMkdir
    <2>2. CASE \E p \in DirPaths, n \in Names, i \in Inodes :
                 TakeInode(i, "mkdir", n, p) /\ NewDirectory(i, p)
      <3>1. PICK p \in DirPaths, n \in Names, i \in Inodes :
               TakeInode(i, "mkdir", n, p) /\ NewDirectory(i, p)
        BY <2>2
      <3>2. Targets(i) = {}
        BY <3>1, FreeIsEmpty DEF TakeInode
      <3>3. \A j \in Inodes \ {i} : dir'[j] = dir[j] /\ itype'[j] = itype[j]
        BY <3>1 DEF NewDirectory, IInv
      <3> QED
        BY <3>2, <3>3, OthersStay
    <2> QED
      BY <1>1, <2>1, <2>2
  <1>3. CASE StartCopy \/ StartIncp \/ IncpNowhere
    <2>1. \E i \in Inodes : FirstFree(i) /\ dir' = dir /\ itype' = [itype EXCEPT ![i] = "file"]
      BY <1>3 DEF StartCopy, StartIncp, IncpNowhere, TakeInode
    <2>2. PICK i \in Inodes : FirstFree(i) /\ dir' = dir /\ itype' = [itype EXCEPT ![i] = "file"]
      BY <2>1
    <2>3. \A j \in Inodes \ {i} : dir'[j] = dir[j] /\ itype'[j] = itype[j]
      BY <2>2 DEF IInv
    <2> QED
      BY <2>2, <2>3, FreeIsEmpty, OthersStay
  <1> QED
    BY <1>2, <1>3

LEMMA IncpOverKeepsAll == ASSUME IInv, Sound, IncpOver PROVE OnlyGains
  <1>1. PICK f \in Found : \E d \in {dir[f.id], <<>>} :
          itype[f.id] = "file" /\ dir' = [dir EXCEPT ![f.id] = d]
    BY DEF IncpOver
  <1>2. f.id \in Inodes /\ Targets(f.id) = {}
    BY <1>1, FoundItems DEF Sound
  <1>3. \A j \in Inodes \ {f.id} : dir'[j] = dir[j] /\ itype'[j] = itype[j]
    BY <1>1, <1>2 DEF IncpOver, IInv
  <1> QED
    BY <1>2, <1>3, OthersStay

\* What is being made is not in the tree.
LEMMA AddingKeepsAll ==
    ASSUME IInv, Sound, op.at = "add", op.child \notin Hanging,
           AddRecord \/ CopyNothing \/ AddFails
    PROVE  OnlyGains
  <1>1. op.par \in Inodes /\ NewItem \in Records
    BY DEF IInv, NewItem, Item, Records, Ops
  <1> SUFFICES ASSUME NEW j \in Hanging PROVE Stays(j) \/ Gets(j)
    BY DEF OnlyGains
  <1>2. j \in Inodes /\ j # op.child
    BY HangingAreInodes
  <1>3. itype'[j] = itype[j]
    BY <1>1, <1>2 DEF AddRecord, AddedInPlace, AddedInNewBlock, CopyNothing, AddFails, Freed, IInv
  <1>4. CASE j # op.par \/ AddFails
    <2>1. dir'[j] = dir[j]
      BY <1>1, <1>2, <1>4 DEF AddRecord, AddedInPlace, AddedInNewBlock, CopyNothing, AddFails,
                             Freed, IInv
    <2> QED
      BY <1>3, <2>1 DEF Stays
  <1>5. CASE j = op.par /\ (AddRecord \/ CopyNothing)
    <2>1. ParentDir = dir[j]
      BY <1>2, <1>5 DEF ParentDir
    <2>2. CASE AddRecord
      <3>1. \/ HasPlace(dir[j]) /\ dir'[j] = Added(dir[j], NewItem)
            \/ dir'[j] = Grown(dir[j], NewItem)
        <4>1. CASE AddedInPlace
          BY <1>1, <1>2, <1>5, <2>1, <4>1 DEF AddedInPlace, IInv
        <4>2. CASE AddedInNewBlock
          BY <1>1, <1>2, <1>5, <2>1, <4>2 DEF AddedInNewBlock, IInv
        <4> QED
          BY <2>2, <4>1, <4>2 DEF AddRecord
      <3> QED
        BY <1>1, <1>2, <1>3, <3>1, WritingGets
    <2>3. CASE CopyNothing
      <3>1. dir'[j] = IF HasPlace(ParentDir) THEN Added(ParentDir, NewItem)
                                             ELSE Grown(ParentDir, NewItem)
        BY <1>1, <1>2, <1>5, <2>3 DEF CopyNothing, IInv
      <3> QED
        BY <1>1, <1>2, <1>3, <2>1, <3>1, WritingGets
    <2> QED
      BY <1>5, <2>2, <2>3
  <1> QED
    BY <1>4, <1>5

LEMMA StartMvKeepsAll == ASSUME IInv, Sound, StartMv PROVE OnlyGains
  <1>1. PICK f \in Found : \E t \in Dests(f.name) :
          \/ HasPlace(dir[t.par]) /\ dir' = [dir EXCEPT ![t.par] = Added(@, Item(t.name, f.id))]
          \/ dir' = [dir EXCEPT ![t.par] = Grown(@, Item(t.name, f.id))]
    BY DEF StartMv
  <1>2. PICK t \in Dests(f.name) :
          \/ HasPlace(dir[t.par]) /\ dir' = [dir EXCEPT ![t.par] = Added(@, Item(t.name, f.id))]
          \/ dir' = [dir EXCEPT ![t.par] = Grown(@, Item(t.name, f.id))]
    BY <1>1
  <1>3. t.par \in Inodes /\ Item(t.name, f.id) \in Records
    BY FoundItems, DestItems DEF Item, Records, Ids
  <1>4. itype' = itype
    BY DEF StartMv
  <1>5. Gets(t.par)
    BY <1>2, <1>3, <1>4, WritingGets DEF IInv
  <1>6. \A j \in Inodes \ {t.par} : Stays(j)
    BY <1>2, <1>3, <1>4 DEF Stays, IInv
  <1> QED
    BY <1>5, <1>6, HangingAreInodes DEF OnlyGains

LEMMA FsckKeepsAll ==
    ASSUME IInv, Sound, FreeIsUnused, FsckFindsLost \/ FsckFindsNoSpace \/ Rescue
    PROVE  OnlyGains
  <1>1. CASE UNCHANGED <<itype, dir>>
    BY <1>1 DEF OnlyGains, Stays
  <1>2. CASE FsckFindsLost
    <2>1. \/ UNCHANGED <<itype, dir>>
          \/ \E i \in Inodes : FirstFree(i) /\ LostFoundMade(i)
      BY <1>2, FindingLost, Zenon DEF LostFoundMade
    <2>2. ASSUME NEW i \in Inodes, FirstFree(i), LostFoundMade(i) PROVE OnlyGains
      <3> SUFFICES ASSUME NEW j \in Hanging, Targets(j) # {} PROVE Stays(j) \/ Gets(j)
        BY DEF OnlyGains
      <3>1. j \in Inodes /\ j # i
        BY <2>2, HangingAreInodes, FreeIsEmpty
      <3>2. itype'[j] = itype[j]
        BY <2>2, <3>1 DEF LostFoundMade, IInv
      <3>3. CASE j # RootId
        BY <2>2, <3>1, <3>2, <3>3 DEF LostFoundMade, IInv, Stays
      <3>4. CASE j = RootId
        <4>1. Item(LostFound, i) \in Records
          BY DEF Item, Records, Ids, AllNames
        <4>2. dir'[j] = IF HasPlace(dir[j]) THEN Added(dir[j], Item(LostFound, i))
                                           ELSE Grown(dir[j], Item(LostFound, i))
          BY <2>2, <3>1, <3>4 DEF LostFoundMade, LostFoundInRoot, IInv
        <4> QED
          BY <3>1, <3>2, <4>1, <4>2, WritingGets
      <3> QED
        BY <3>3, <3>4
    <2> QED
      BY <1>1, <2>1, <2>2
  <1>3. ASSUME NEW p \in Inodes, NEW r \in Records, itype' = itype,
               \/ HasPlace(dir[p]) /\ dir' = [dir EXCEPT ![p] = Added(dir[p], r)]
               \/ dir' = [dir EXCEPT ![p] = Grown(dir[p], r)]
        PROVE  OnlyGains
    <2>1. Gets(p)
      BY <1>3, WritingGets DEF IInv
    <2>2. \A j \in Inodes \ {p} : Stays(j)
      BY <1>3 DEF Stays, IInv
    <2> QED
      BY <2>1, <2>2, HangingAreInodes DEF OnlyGains
  <1>4. CASE FsckFindsNoSpace
    <2>1. Item(LostFound, NoInode) \in Records
      BY DEF Item, Records, Ids, AllNames
    <2> QED
      BY <1>3, <1>4, <2>1, RootIsInode DEF FsckFindsNoSpace
  <1>5. CASE Rescue
    <2> DEFINE i == Min(op.lost)
               r == Item(RescueName(i), i)
    <2>1. op.par \in Inodes /\ op.lost \subseteq Inodes /\ op.lost # {}
      BY <1>5 DEF Rescue, IInv, Ops
    <2>2. i \in Inodes
      <3>1. op.lost \subseteq Nat
        BY <2>1 DEF Inodes
      <3> QED
        BY <2>1, <3>1, MinIsLeast
    <2>3. r \in Records
      <3> HIDE DEF i
      <3> QED
        BY <2>2 DEF Item, Records, Ids, AllNames
    <2>4. /\ itype' = itype
          /\ dir' = [dir EXCEPT ![op.par] = IF HasPlace(dir[op.par]) THEN Added(dir[op.par], r)
                                            ELSE Grown(dir[op.par], r)]
      BY <1>5 DEF Rescue
    <2> HIDE DEF r
    <2> QED
      BY <1>3, <2>1, <2>3, <2>4
  <1> QED
    BY <1>2, <1>4, <1>5

\* A record less.
LEMMA DeletedRecords ==
    ASSUME NEW d \in Seq(Records), NEW r
    PROVE  /\ \A k \in Ordinary(d) :
                (k \in Ordinary(Deleted(d, r)) /\ Deleted(d, r)[k] = d[k]) \/ d[k] = r
           /\ Ordinary(Deleted(d, r)) \subseteq Ordinary(d)
  <1>1. CASE Matches(d, r) = {}
    BY <1>1 DEF Deleted
  <1>2. CASE Matches(d, r) # {}
    <2> DEFINE m == Min(Matches(d, r))
    <2>1. m \in DOMAIN d /\ d[m] = r
      <3>1. DOMAIN d = 1 .. Len(d) /\ Len(d) \in Nat
        BY LenProperties
      <3>2. Matches(d, r) \subseteq Nat
        BY <3>1 DEF Matches
      <3>3. m \in Matches(d, r)
        BY <1>2, <3>2, MinIsLeast
      <3> QED
        BY <3>3 DEF Matches
    <2>2. Deleted(d, r) = [d EXCEPT ![m] = EmptyItem]
      BY <1>2 DEF Deleted
    <2> HIDE DEF m
    <2>3. EmptyItem.name = ""
      BY DEF EmptyItem
    <2> QED
      BY <2>1, <2>2, <2>3 DEF Ordinary
  <1> QED
    BY <1>1, <1>2

LEMMA DeletingKeepsBut ==
    ASSUME IInv, Sound, NEW p, NEW n, NEW x, itype' = itype,
           dir' = [dir EXCEPT ![p] = Deleted(@, Item(n, x))],
           NEW j \in Inodes
    PROVE  KeepsBut(x, j)
  <1> SUFFICES ASSUME Targets(j) # {}
               PROVE  Targets(j) \subseteq Targets(j)' \union {x} /\ itype'[j] = "dirc"
    BY DEF KeepsBut
  <1>1. itype'[j] = "dirc"
    BY DEF Sound
  <1> DEFINE d == dir[j]
             e == dir'[j]
             r == Item(n, x)
  <1>2. d \in Seq(Records) /\ r.id = x /\ (e = d \/ e = Deleted(d, r))
    BY DEF IInv, Dirs, Item
  <1>3. Targets(j) = {d[k].id : k \in Ordinary(d)} /\ Targets(j)' = {e[k].id : k \in Ordinary(e)}
    BY DEF Targets
  <1> HIDE DEF d, e, r
  <1>4. \A k \in Ordinary(d) : (k \in Ordinary(e) /\ e[k] = d[k]) \/ d[k] = r
    BY <1>2, DeletedRecords
  <1> QED
    BY <1>1, <1>2, <1>3, <1>4

\* What is removed goes with its record, unless it has another.
LEMMA RemovingKeepsRest ==
    ASSUME IInv, IInv', Sound, NEW f \in Found, Targets(f.id) = {}, itype' = itype,
           dir' = [dir EXCEPT ![f.par] = Deleted(@, Item(f.name, f.id))],
           op'.at = "free", op'.child = f.id
    PROVE  NoneFalls
  <1>1. \A j \in Hanging \intersect Inodes : KeepsBut(f.id, j)
    BY DeletingKeepsBut
  <1>2. Seen(RootId) \subseteq Seen(RootId)' \union {f.id}
    BY <1>1, SeenKeptBut
  <1> QED
    BY <1>2 DEF NoneFalls

\* What rm or rmdir has taken the record of holds nothing, and what mv is moving
\* has another record than the one to delete, in a directory paths lead through.
HalfDone ==
    /\ op.at = "free" => itype[op.child] # "dirc" \/ Targets(op.child) = {}
    /\ op.at = "unlink" =>
         /\ itype[op.child] # "dirc"
         /\ \E q \in Walked : \E k \in Ordinary(dir[q]) :
              dir[q][k].id = op.child /\ (q # op.par \/ dir[q][k].name # op.name)

LEMMA RecordRemoved ==
    ASSUME StartRm \/ StartRmdir
    PROVE  \E f \in Found : /\ itype[f.id] = "file" \/ IsEmpty(dir[f.id])
                            /\ dir' = [dir EXCEPT ![f.par] = Deleted(@, Item(f.name, f.id))]
                            /\ op'.at = "free" /\ op'.child = f.id
  <1>1. CASE StartRm
    <2>1. PICK f \in Found : /\ itype[f.id] = "file"
                             /\ dir' = [dir EXCEPT ![f.par] = Deleted(@, Item(f.name, f.id))]
                             /\ op' = Begin("free", "rm", f.id, "", NoInode)
      BY <1>1 DEF StartRm
    <2>2. op'.at = "free" /\ op'.child = f.id
      BY <2>1 DEF Begin
    <2> QED
      BY <2>1, <2>2
  <1>2. CASE StartRmdir
    <2>1. PICK f \in Found : /\ IsEmpty(dir[f.id])
                             /\ dir' = [dir EXCEPT ![f.par] = Deleted(@, Item(f.name, f.id))]
                             /\ op' = Begin("free", "rmdir", f.id, "", NoInode)
      BY <1>2 DEF StartRmdir
    <2>2. op'.at = "free" /\ op'.child = f.id
      BY <2>1 DEF Begin
    <2> QED
      BY <2>1, <2>2
  <1> QED
    BY <1>1, <1>2

LEMMA RemovingMoves ==
    ASSUME IInv, StartRm \/ StartRmdir
    PROVE  HalfDone'
  <1>1. PICK f \in Found : /\ itype[f.id] = "file" \/ IsEmpty(dir[f.id])
                           /\ dir' = [dir EXCEPT ![f.par] = Deleted(@, Item(f.name, f.id))]
                           /\ op'.at = "free" /\ op'.child = f.id
    BY RecordRemoved
  <1>2. itype' = itype /\ f.id \in Inodes
    BY FoundItems DEF StartRm, StartRmdir
  <1>3. ASSUME IsEmpty(dir[f.id]) PROVE Targets(f.id)' = {}
    <2>1. dir[f.id] \in Seq(Records)
      BY <1>2 DEF IInv, Dirs
    <2>2. Ordinary(dir'[f.id]) \subseteq Ordinary(dir[f.id])
      BY <1>1, <1>2, <2>1, DeletedRecords DEF IInv
    <2>3. Ordinary(dir'[f.id]) = {}
      BY <1>3, <2>2 DEF IsEmpty
    <2> QED
      BY <2>3 DEF Targets
  <1>4. Targets(f.id)' = {} => Targets(op.child)' = {}
    BY <1>1 DEF Targets
  <1> QED
    BY <1>1, <1>2, <1>3, <1>4 DEF HalfDone

LEMMA RemovingKeepsAll ==
    ASSUME IInv, IInv', Sound, StartRm \/ StartRmdir
    PROVE  NoneFalls
  <1>1. PICK f \in Found : /\ itype[f.id] = "file" \/ IsEmpty(dir[f.id])
                           /\ dir' = [dir EXCEPT ![f.par] = Deleted(@, Item(f.name, f.id))]
                           /\ op'.at = "free" /\ op'.child = f.id
    BY RecordRemoved
  <1>2. itype' = itype /\ f.id \in Inodes
    BY FoundItems DEF StartRm, StartRmdir
  <1>3. Targets(f.id) = {}
    BY <1>1, <1>2 DEF Sound, IsEmpty, Targets
  <1> QED
    BY <1>1, <1>2, <1>3, RemovingKeepsRest

LEMMA FreeingKeepsAll ==
    ASSUME IInv, Sound, HalfDone, FreeInode
    PROVE  OnlyGains
  <1>1. op.child \in Inodes /\ Targets(op.child) = {}
    BY DEF FreeInode, IInv, HalfDone, Sound
  <1>2. \A j \in Inodes \ {op.child} : dir'[j] = dir[j] /\ itype'[j] = itype[j]
    BY <1>1 DEF FreeInode, Freed, IInv
  <1> QED
    BY <1>1, <1>2, OthersStay

\* The other record keeps what mv has moved in the tree.
LEMMA UnlinkKeepsAll ==
    ASSUME IInv, IInv', Sound, Charted, HalfDone, Unlink
    PROVE  NoneFalls
  <1> DEFINE x == op.child
  <1>1. itype' = itype /\ dir' = [dir EXCEPT ![op.par] = Deleted(@, Item(op.name, x))]
    BY DEF Unlink
  <1>2. itype[x] # "dirc"
    BY DEF HalfDone, Unlink
  <1>3. PICK q \in Walked : \E k \in Ordinary(dir[q]) :
          dir[q][k].id = x /\ (q # op.par \/ dir[q][k].name # op.name)
    BY DEF HalfDone, Unlink
  <1>4. PICK k \in Ordinary(dir[q]) :
          dir[q][k].id = x /\ (q # op.par \/ dir[q][k].name # op.name)
    BY <1>3
  <1>5. q \in Inodes /\ q \in Hanging
    BY PathsAreInodes DEF Charted, Hanging
  <1>6. x \in Targets(q)
    BY <1>4 DEF Targets
  <1>7. itype[q] = "dirc" /\ q # x /\ itype'[q] = "dirc"
    BY <1>1, <1>2, <1>5, <1>6 DEF Sound
  <1>8. x \in Targets(q)'
    <2>1. k \in Ordinary(dir'[q]) /\ dir'[q][k] = dir[q][k]
      <3>1. CASE q # op.par
        BY <1>1, <1>5, <3>1 DEF IInv
      <3>2. CASE q = op.par
        <4>1. dir[q] \in Seq(Records) /\ dir[q][k] # Item(op.name, x)
          BY <1>4, <1>5, <3>2 DEF IInv, Dirs, Item
        <4>2. dir'[q] = Deleted(dir[q], Item(op.name, x))
          BY <1>1, <1>5, <3>2 DEF IInv
        <4> QED
          BY <4>1, <4>2, DeletedRecords
      <3> QED
        BY <3>1, <3>2
    <2> QED
      BY <1>4, <2>1 DEF Targets
  <1>9. Seen(RootId) \subseteq Seen(RootId)' \union {x}
    <2>1. x \in Inodes => Targets(x) = {}
      BY <1>2 DEF Sound
    <2>2. \A j \in Hanging \intersect Inodes : KeepsBut(x, j)
      BY <1>1, DeletingKeepsBut
    <2> HIDE DEF x
    <2> QED
      BY <2>1, <2>2, SeenKeptBut
  <1>10. x \in Seen(RootId)'
    <2>1. /\ Targets(RootId)' \subseteq Seen(RootId)'
          /\ \A j \in Seen(RootId)' \intersect Inodes :
               itype'[j] = "dirc" => Targets(j)' \subseteq Seen(RootId)'
      BY RootIsInode, TargetsWillHaveIds, SeenWillBe DEF SeenFacts, Inodes, RootId
    <2>2. CASE q = RootId
      BY <1>8, <2>1, <2>2
    <2>3. CASE q \in Seen(RootId)
      BY <1>5, <1>7, <1>8, <1>9, <2>1, <2>3
    <2> QED
      BY <1>5, <2>2, <2>3 DEF Hanging
  <1> QED
    BY <1>9, <1>10 DEF NoneFalls

\* Paths lead at least as far when directories only get records.
EntryFacts ==
    \A S \in SUBSET Inodes : \A x :
        x \in Entries(S) <=> x # NoInode /\ \E i \in S : \E k \in DOMAIN dir[i] : x = dir[i][k].id

LEMMA EntriesHold == IInv => EntryFacts
  BY EntriesAre DEF EntryFacts

LEMMA EntriesWillHold == IInv' => EntryFacts'
  BY EntriesHold, PTL

LEMMA PathsGrow ==
    ASSUME IInv, IInv', cwd' = cwd, \A j \in Inodes : Stays(j) \/ Gets(j)
    PROVE  Walked \subseteq Walked'
  <1> SUFFICES ASSUME NEW Q, Q = Walked' PROVE Walked \subseteq Q
    OBVIOUS
  <1>1. {RootId, cwd} \in SUBSET Inodes
    BY RootIsInode DEF IInv
  <1>2. {RootId, cwd} \subseteq Q /\ Q \in SUBSET Inodes /\ Entries(Q)' \subseteq Q
    <2>1. PathFacts'
      BY PathsWillBe
    <2>2. \A S \in SUBSET Inodes : /\ S \subseteq Walk(S)' /\ Walk(S)' \subseteq Inodes
                                   /\ Entries(Walk(S))' \subseteq Walk(S)'
      BY <2>1 DEF PathFacts, Inodes
    <2>3. Q = Walk({RootId, cwd})'
      BY DEF Walked
    <2>4. {RootId, cwd} \subseteq Q /\ Q \in SUBSET Inodes
      BY <1>1, <2>2, <2>3
    <2>5. Entries(Walk({RootId, cwd}))' \subseteq Q
      BY <1>1, <2>2, <2>3
    <2>6. Entries(Q)' \subseteq Q
      BY <2>3, <2>5 DEF Entries
    <2> QED
      BY <2>4, <2>6
  <1>3. Entries(Q) \subseteq Entries(Q)'
    <2> SUFFICES ASSUME NEW x \in Entries(Q) PROVE x \in Entries(Q)'
      OBVIOUS
    <2>1. PICK i \in Q : x # NoInode /\ \E k \in DOMAIN dir[i] : x = dir[i][k].id
      BY <1>2, EntriesHold DEF EntryFacts
    <2>2. PICK k \in DOMAIN dir[i] : x = dir[i][k].id
      BY <2>1
    <2>3. k \in DOMAIN dir'[i] /\ dir'[i][k] = dir[i][k]
      <3>1. Stays(i) \/ Gets(i)
        BY <1>2
      <3>2. CASE Stays(i)
        BY <3>2 DEF Stays
      <3>3. CASE Gets(i)
        <4>1. PICK p : \E r : Receives(dir[i], dir'[i], p, r)
          BY <3>3 DEF Gets
        <4>2. PICK r : Receives(dir[i], dir'[i], p, r)
          BY <4>1
        <4> QED
          BY <2>1, <2>2, <4>2 DEF Receives
      <3> QED
        BY <3>1, <3>2, <3>3
    <2>4. \E j \in Q : \E m \in DOMAIN dir'[j] : x = dir'[j][m].id
      BY <2>2, <2>3
    <2> QED
      BY <1>2, <2>1, <2>4, EntriesWillHold DEF EntryFacts, Inodes, NoInode
  <1>4. Walk({RootId, cwd}) \subseteq Q
    BY <1>1, <1>2, <1>3, PathsAre DEF PathFacts
  <1> QED
    BY <1>4 DEF Walked

\* The directory part of a path is one that paths lead through.
LEMMA DirPathsAreWalked == ASSUME IInv PROVE DirPaths \subseteq Walked
  <1>1. {RootId, cwd} \in SUBSET Inodes /\ cwd \in Inodes
    BY RootIsInode DEF IInv
  <1>2. {RootId, cwd} \subseteq Walked /\ Walked \in SUBSET Inodes /\ Entries(Walked) \subseteq Walked
    BY <1>1, PathsAre DEF PathFacts, Walked
  <1>3. Entries({cwd}) \subseteq Entries(Walked) /\ Entries({cwd}) \subseteq Inodes
    BY <1>1, <1>2, EntriesAre
  <1>4. {RootId} \union Entries({cwd}) \in SUBSET Inodes
    BY <1>3, RootIsInode
  <1> QED
    BY <1>2, <1>3, <1>4, PathsAre DEF PathFacts, DirPaths

\* What is found has a name, in a directory that paths lead through, and paths
\* lead through it.
LEMMA FoundIsWalked ==
    ASSUME IInv, NEW f \in Found
    PROVE  f.par \in Walked /\ f.name # "" /\ Has(dir[f.par], f.name) /\ f.id \in Walked
  <1>1. PICK p \in Walked, n \in UNION {NamesIn(i) : i \in Walked} :
          f = [par |-> p, name |-> n,
               id |-> IF Has(dir[p], n) THEN IdOf(dir[p], n) ELSE NoInode]
    BY DEF Found
  <1>2. f.id # NoInode
    BY DEF Found
  <1>3. n # ""
    BY NamesAssumption DEF NamesIn
  <1>4. Has(dir[p], n) /\ f.id = IdOf(dir[p], n) /\ p \in Inodes
    BY <1>1, <1>2, PathsAreInodes
  <1> DEFINE m == Min(Named(dir[p], n))
  <1>5. m \in DOMAIN dir[p] /\ f.id = dir[p][m].id
    <2>1. DOMAIN dir[p] = 1 .. Len(dir[p])
      BY <1>4, DirShape
    <2>2. Named(dir[p], n) \subseteq Nat /\ Named(dir[p], n) \subseteq DOMAIN dir[p]
      BY <2>1 DEF Named
    <2>3. m \in Named(dir[p], n)
      BY <1>4, <2>2, MinIsLeast DEF Has
    <2> QED
      BY <1>4, <2>2, <2>3 DEF IdOf
  <1> HIDE DEF m
  <1>6. Walked \in SUBSET Inodes /\ Entries(Walked) \subseteq Walked
    <2>1. {RootId, cwd} \in SUBSET Inodes
      BY RootIsInode DEF IInv
    <2> QED
      BY <2>1, PathsAre DEF PathFacts, Walked
  <1>7. f.id \in Entries(Walked)
    BY <1>2, <1>5, <1>6, EntriesAre
  <1> QED
    BY <1>1, <1>3, <1>4, <1>6, <1>7

LEMMA StartMvHalfDone ==
    ASSUME IInv, IInv', Without({"mvdot", "mvdir"}), StartMv
    PROVE  HalfDone'
  <1>1. PICK f \in {g \in Found : MayMove(g)} : \E t \in Dests(f.name) :
          /\ ~Has(dir[t.par], t.name)
          /\ \/ HasPlace(dir[t.par]) /\ dir' = [dir EXCEPT ![t.par] = Added(@, Item(t.name, f.id))]
             \/ dir' = [dir EXCEPT ![t.par] = Grown(@, Item(t.name, f.id))]
          /\ op' = Begin("unlink", "mv", f.id, f.name, f.par)
    BY DEF StartMv
  <1>2. PICK t \in Dests(f.name) :
          /\ ~Has(dir[t.par], t.name)
          /\ \/ HasPlace(dir[t.par]) /\ dir' = [dir EXCEPT ![t.par] = Added(@, Item(t.name, f.id))]
             \/ dir' = [dir EXCEPT ![t.par] = Grown(@, Item(t.name, f.id))]
          /\ op' = Begin("unlink", "mv", f.id, f.name, f.par)
    BY <1>1
  <1>3. /\ op'.at = "unlink" /\ op'.child = f.id /\ op'.name = f.name /\ op'.par = f.par
        /\ itype' = itype /\ cwd' = cwd
    BY <1>2 DEF Begin, StartMv
  <1>4. f.name \notin {Dot, DotDot} /\ itype[f.id] # "dirc"
    BY DEF MayMove, Without
  <1>5. f.par \in Walked /\ f.name # "" /\ Has(dir[f.par], f.name)
    BY FoundIsWalked
  <1>6. Plain(t.name) /\ t.par \in Walked
    <2>1. CASE t \in {[par |-> g.id, name |-> f.name] : g \in Found}
      <3>1. PICK g \in Found : t = [par |-> g.id, name |-> f.name]
        BY <2>1
      <3>2. g.id \in Walked
        BY FoundIsWalked
      <3> QED
        BY <1>4, <1>5, <3>1, <3>2 DEF Plain
    <2>2. CASE t = [par |-> RootId, name |-> f.name]
      <3>1. RootId \in Walked
        <4>1. {RootId, cwd} \in SUBSET Inodes
          BY RootIsInode DEF IInv
        <4> QED
          BY <4>1, PathsAre DEF PathFacts, Walked
      <3> QED
        BY <1>4, <1>5, <2>2, <3>1 DEF Plain
    <2>3. CASE t \in [par : DirPaths, name : Names]
      <3>1. t.name \in Names /\ t.par \in DirPaths
        BY <2>3
      <3> QED
        BY <3>1, NamesAssumption, DirPathsAreWalked DEF Plain, Dot, DotDot
    <2> QED
      BY <2>1, <2>2, <2>3 DEF Dests
  <1>7. t.par # f.par \/ t.name # f.name
    BY <1>2, <1>5
  <1> DEFINE r == Item(t.name, f.id)
  <1>8. t.par \in Inodes /\ r \in Records /\ r.name = t.name /\ r.id = f.id
    BY FoundItems, DestItems DEF Item, Records, Ids
  <1>9. \/ HasPlace(dir[t.par]) /\ dir'[t.par] = Added(dir[t.par], r)
        \/ dir'[t.par] = Grown(dir[t.par], r)
    BY <1>2, <1>8 DEF IInv
  <1> HIDE DEF r
  <1>10. PICK p \in Nat : Receives(dir[t.par], dir'[t.par], p, r)
    <2>1. dir[t.par] \in Seq(Records)
      BY <1>8 DEF IInv, Dirs
    <2> QED
      BY <1>8, <1>9, <2>1, AddedReceives, GrownReceives
  <1>11. p \in Ordinary(dir'[t.par]) /\ dir'[t.par][p] = r
    BY <1>6, <1>8, <1>10 DEF Receives, Ordinary, Plain
  <1>12. Walked \subseteq Walked'
    <2>1. ASSUME NEW j \in Inodes PROVE Stays(j) \/ Gets(j)
      <3>1. CASE j = t.par
        BY <1>3, <1>10, <3>1 DEF Gets
      <3>2. CASE j # t.par
        BY <1>2, <1>3, <3>2 DEF Stays, IInv
      <3> QED
        BY <3>1, <3>2
    <2> QED
      BY <1>3, <2>1, PathsGrow
  <1>13. \E q \in Walked' : \E k \in Ordinary(dir'[q]) :
           dir'[q][k].id = op'.child /\ (q # op'.par \/ dir'[q][k].name # op'.name)
    <2>1. t.par \in Walked' /\ dir'[t.par][p].id = op'.child
      BY <1>3, <1>6, <1>8, <1>11, <1>12
    <2>2. t.par # op'.par \/ dir'[t.par][p].name # op'.name
      BY <1>3, <1>7, <1>8, <1>11
    <2> QED
      BY <1>11, <2>1, <2>2
  <1>14. itype'[op'.child] # "dirc" /\ op'.at # "free"
    BY <1>3, <1>4
  <1> QED
    BY <1>13, <1>14 DEF HalfDone

\* What NothingFallsOut says of a step.
StepKeepsAll ==
    Without({"mvdot", "mvdir"}) /\ Sound /\ Charted
      /\ (op.at = "add" => op.child \notin {RootId} \union Seen(RootId))
    => NoneFalls

NFInv == IInv /\ FreeIsUnused /\ (Without({"mvdot", "mvdir"}) => HalfDone)

LEMMA StepIsHalfDone ==
    ASSUME Without({"mvdot", "mvdir"}), IInv, IInv', HalfDone, [Next]_vars
    PROVE  HalfDone'
  <1>1. CASE op'.at \notin {"free", "unlink"}
    BY <1>1 DEF HalfDone
  <1>2. CASE StartRm \/ StartRmdir
    BY <1>2, RemovingMoves
  <1>3. CASE StartMv
    BY <1>3, StartMvHalfDone
  <1>4. CASE UNCHANGED vars
    <2>1. op' = op /\ itype' = itype /\ dir' = dir /\ cwd' = cwd
      BY <1>4 DEF vars
    <2>2. Walked' = Walked
      BY <2>1 DEF Walked, Walk, Entries
    <2> QED
      BY <2>1, <2>2 DEF HalfDone, Targets
  <1>5. ASSUME [Next]_vars, ~(StartRm \/ StartRmdir \/ StartMv \/ UNCHANGED vars)
        PROVE  op'.at \notin {"free", "unlink"}
    <2>1. Idle.at = "idle"
      BY IdleIsOp
    <2>2. CASE StartMkdir \/ StartCopy \/ StartIncp
      <3>1. \A i, cmd, n, p : TakeInode(i, cmd, n, p) => op'.at = "add"
        BY DEF TakeInode, Begin
      <3>2. \A n, p : op' = Begin("add", "mkdir", NoInode, n, p) => op'.at = "add"
        BY DEF Begin
      <3> QED
        BY <2>2, <3>1, <3>2 DEF StartMkdir, StartCopy, StartIncp
    <2>3. CASE IncpNowhere \/ IncpOver \/ Cd \/ Corrupt \/ Refuse \/ FsckFindsNoSpace
      BY <2>3 DEF IncpNowhere, IncpOver, Cd, Corrupt, Refuse, FsckFindsNoSpace
    <2>4. CASE AddRecord \/ CopyNothing \/ AddFails \/ FreeInode \/ Unlink
      BY <2>1, <2>4 DEF AddRecord, CopyNothing, AddFails, FreeInode, Unlink
    <2>5. CASE FsckFindsLost
      BY <2>5, FindingLost, Zenon DEF Begin
    <2>6. CASE Rescue
      <3>1. op \in Ops
        BY DEF IInv
      <3> QED
        BY <2>6, <3>1 DEF Rescue, Ops
    <2>7. CASE RescueFails \/ FsckDone \/ FsckOverflows \/ FsckMisreads \/ Kill
      BY <2>1, <2>7 DEF RescueFails, FsckDone, FsckOverflows, FsckMisreads, Kill, Restart
    <2>8. CASE FsckFindsNothing
      BY <1>5, <2>8 DEF FsckFindsNothing
    <2> QED
      BY <1>5, <2>2, <2>3, <2>4, <2>5, <2>6, <2>7, <2>8 DEF Next
  <1> QED
    BY <1>1, <1>2, <1>3, <1>4, <1>5

LEMMA UnchangedKeepsAll ==
    ASSUME IInv, IInv', Sound, UNCHANGED <<itype, dir>>
    PROVE  NoneFalls
  <1>1. OnlyGains
    BY DEF OnlyGains, Stays
  <1> QED
    BY <1>1, GainsKeepAll

LEMMA NextKeepsAll ==
    ASSUME IInv, IInv', FreeIsUnused, HalfDone, Next, Sound, Charted,
           op.at = "add" => op.child \notin Hanging
    PROVE  NoneFalls
  <1>1. CASE StartMkdir \/ StartCopy \/ StartIncp \/ IncpNowhere
    BY <1>1, CreationKeepsAll, GainsKeepAll
  <1>2. CASE IncpOver
    BY <1>2, IncpOverKeepsAll, GainsKeepAll
  <1>3. CASE AddRecord \/ CopyNothing \/ AddFails
    <2>1. op.at = "add"
      BY <1>3 DEF AddRecord, CopyNothing, AddFails
    <2> QED
      BY <1>3, <2>1, AddingKeepsAll, GainsKeepAll
  <1>4. CASE StartRm \/ StartRmdir
    BY <1>4, RemovingKeepsAll
  <1>5. CASE FreeInode
    BY <1>5, FreeingKeepsAll, GainsKeepAll
  <1>6. CASE StartMv
    BY <1>6, StartMvKeepsAll, GainsKeepAll
  <1>7. CASE Unlink
    BY <1>7, UnlinkKeepsAll
  <1>8. CASE Corrupt
    BY <1>8 DEF NoneFalls
  <1>9. CASE FsckFindsLost \/ FsckFindsNoSpace \/ Rescue
    BY <1>9, FsckKeepsAll, GainsKeepAll
  <1>10. CASE \/ Cd \/ Refuse \/ FsckFindsNothing \/ RescueFails \/ FsckDone
              \/ FsckOverflows \/ FsckMisreads \/ Kill
    <2>1. UNCHANGED <<itype, dir>>
      BY <1>10 DEF Cd, Refuse, FsckFindsNothing, RescueFails, FsckDone, FsckOverflows,
                   FsckMisreads, Kill, Restart, vars
    <2> QED
      BY <2>1, UnchangedKeepsAll
  <1> QED
    BY <1>1, <1>2, <1>3, <1>4, <1>5, <1>6, <1>7, <1>8, <1>9, <1>10 DEF Next

\* As long as no record dangles, and no directory or dot record is moved, nothing
\* in use falls out of the tree by a step that was not to remove it, whatever else
\* happens.
THEOREM NothingFalls == Spec => NothingFallsOut
  <1>1. Init => NFInv
    <2>1. Init => HalfDone
      BY IdleIsOp DEF Init, HalfDone
    <2> QED
      BY <2>1, IInvInitially, UnusedInitially DEF NFInv
  <1>2. NFInv /\ [Next]_vars => NFInv'
    <2> SUFFICES ASSUME NFInv, [Next]_vars PROVE NFInv'
      OBVIOUS
    <2>1. IInv /\ FreeIsUnused /\ IInv' /\ FreeIsUnused'
      BY StepKeeps, StepIsUnused DEF NFInv
    <2>2. Without({"mvdot", "mvdir"}) => HalfDone'
      BY <2>1, StepIsHalfDone DEF NFInv
    <2>3. Without({"mvdot", "mvdir"})' = Without({"mvdot", "mvdir"})
      BY DEF Without
    <2> QED
      BY <2>1, <2>2, <2>3 DEF NFInv
  <1>3. NFInv /\ NFInv' /\ [Next]_vars => [StepKeepsAll]_vars
    <2> SUFFICES ASSUME NFInv, NFInv', Next,
                        Without({"mvdot", "mvdir"}), Sound, Charted,
                        op.at = "add" => op.child \notin {RootId} \union Seen(RootId)
                 PROVE  NoneFalls
      BY DEF StepKeepsAll
    <2> QED
      BY NextKeepsAll DEF NFInv, Hanging
  <1> QED
    BY <1>1, <1>2, <1>3, PTL DEF Spec, NothingFallsOut, StepKeepsAll, NoneFalls
=============================================================================
