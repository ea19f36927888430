-------------------------- MODULE NamespaceProofs --------------------------
(***************************************************************************)
(* For any number of inodes, names and records, and whatever the user and  *)
(* the machine do: the directory records keep their type and, unless a "." *)
(* is moved, no directory holds a name of the user's twice.                *)
(***************************************************************************)
EXTENDS Namespace, Numbers, SequenceTheorems, TLAPS

AllNames == Names \union {"", Dot, DotDot, LostFound} \union {RescueName(i) : i \in Inodes}
Ids == Inodes \union {NoInode}
Records == [name : AllNames, id : Ids]

\* The names that are kept unique: none, when a "." may be moved.
UserNames == IF Without({"mvdot"}) THEN Names \ {"", Dot, DotDot, LostFound} ELSE {}

Unique(d) ==
    \A k, m \in Ordinary(d) : d[k].name \in UserNames /\ d[k].name = d[m].name => k = m

\* What a directory may hold.
Dirs == {d \in Seq(Records) : Len(d) <= MaxItems /\ Unique(d)}

Stages == {"idle", "add", "free", "unlink", "rescue"}
Commands == {"", "mkdir", "cp", "cp0", "incp", "incp0", "rm", "rmdir", "mv", "fsck"}

Ops == [at : Stages, cmd : Commands, child : Ids, name : AllNames, par : Ids,
        kept : Dirs, lost : SUBSET Inodes]

NoDot(d) == \A k \in DOMAIN d : d[k].name # Dot
OwnDots(d, i) == \A k \in DOMAIN d : d[k].name = Dot => d[k].id = i

\* A "." that nobody moves names the directory it is in, so what a path leads to
\* and what its directory part leads to are one inode.  Only directories have
\* one: an inode that becomes a file may not bring one along.
DotsOwn ==
    Without({"mvdot"}) =>
        /\ \A i \in Inodes : OwnDots(dir[i], i)
        /\ \A i \in Inodes : ibm[i] \/ itype[i] # "dirc" => NoDot(dir[i])
        /\ NoDot(op.kept)
        /\ op.at = "add" => op.name # Dot

\* A command that is to add a record has looked for its name where it will be
\* written, in the records as it holds them.
IInv ==
    /\ itype \in [Inodes -> {"free", "file", "dirc"}]
    /\ ibm \in [Inodes -> BOOLEAN]
    /\ dir \in [Inodes -> Dirs]
    /\ void \subseteq Inodes
    /\ cwd \in Inodes /\ err \in BOOLEAN
    /\ op \in Ops
    /\ op.at = "add" => op.par \in Inodes /\ (op.name \in UserNames => ~Has(ParentDir, op.name))
    /\ op.at = "free" => op.child \in Inodes
    /\ op.at = "rescue" => op.par \in Inodes
    /\ DotsOwn

------------------------------------------------------------------------------
(* Sets of numbers                                                         *)

\* Min() of a set of natural numbers is its least element.
LEMMA MinIsLeast ==
    ASSUME NEW T, T \subseteq Nat, T # {}
    PROVE  Min(T) \in T /\ \A y \in T : Min(T) <= y
  BY LeastExists DEF Min

------------------------------------------------------------------------------
(* Records of one directory                                                *)

LEMMA EmptyItemIsRecord == EmptyItem \in Records /\ EmptyItem.name \notin UserNames
  BY DEF EmptyItem, Records, AllNames, Ids, NoInode, UserNames

\* A record written in place of another keeps a directory, if it has no name of
\* the user's or one the directory has not.
LEMMA WrittenKeeps ==
    ASSUME NEW d \in Dirs, NEW p, NEW r \in Records,
           r.name \notin UserNames \/ ~Has(d, r.name)
    PROVE  [d EXCEPT ![p] = r] \in Dirs
  <1> DEFINE e == [d EXCEPT ![p] = r]
  <1>1. d \in Seq(Records) /\ Len(d) <= MaxItems /\ Unique(d)
    BY DEF Dirs
  <1>2. DOMAIN d = 1 .. Len(d)
    BY <1>1, LenProperties
  <1>3. /\ e \in Seq(Records) /\ Len(e) = Len(d) /\ DOMAIN e = DOMAIN d
        /\ \A k \in DOMAIN d : e[k] = IF k = p THEN r ELSE d[k]
    <2>1. CASE p \in DOMAIN d
      BY <1>1, <1>2, <2>1, ExceptSeq
    <2>2. CASE p \notin DOMAIN d
      <3>1. e = d
        BY <1>1, <1>2, <2>2, LenProperties
      <3> QED
        BY <1>1, <2>2, <3>1
    <2> QED
      BY <2>1, <2>2
  <1> HIDE DEF e
  <1>4. ASSUME NEW k \in Ordinary(e), NEW m \in Ordinary(e),
               e[k].name \in UserNames, e[k].name = e[m].name, k # m
        PROVE  FALSE
    <2>1. k \in DOMAIN d /\ m \in DOMAIN d
      BY <1>3 DEF Ordinary
    <2>2. CASE k = p \/ m = p
      BY <1>3, <1>4, <2>1, <2>2 DEF Has, Named
    <2>3. CASE k # p /\ m # p
      <3>1. k \in Ordinary(d) /\ m \in Ordinary(d)
        BY <1>3, <2>1, <2>3 DEF Ordinary
      <3> QED
        BY <1>1, <1>3, <1>4, <2>1, <2>3, <3>1 DEF Unique
    <2> QED
      BY <2>2, <2>3
  <1>5. Unique(e)
    BY <1>4 DEF Unique
  <1> QED
    BY <1>1, <1>3, <1>5 DEF Dirs, e

LEMMA AddedKeeps ==
    ASSUME NEW d \in Dirs, NEW r \in Records, r.name \notin UserNames \/ ~Has(d, r.name)
    PROVE  Added(d, r) \in Dirs
  BY WrittenKeeps DEF Added

LEMMA DeletedKeeps ==
    ASSUME NEW d \in Dirs, NEW r
    PROVE  Deleted(d, r) \in Dirs
  <1>1. EmptyItem \in Records /\ (EmptyItem.name \notin UserNames \/ ~Has(d, EmptyItem.name))
    BY EmptyItemIsRecord
  <1> QED
    BY <1>1, WrittenKeeps DEF Deleted

LEMMA EmptyItemsAreRecords ==
    ASSUME NEW n \in Nat
    PROVE  /\ EmptyItems(n) \in Seq(Records) /\ Len(EmptyItems(n)) = n
           /\ \A k \in 1 .. n : EmptyItems(n)[k] = EmptyItem
  BY EmptyItemIsRecord DEF EmptyItems

\* A directory with records appended keeps its names unique, when these have no
\* name of the user's but at most one the directory has not, in the first.
LEMMA AppendedKeeps ==
    ASSUME NEW d \in Dirs, NEW e \in Seq(Records), Len(d) + Len(e) <= MaxItems,
           \A k \in 1 .. Len(e) :
              e[k].name \notin UserNames \/ (k = 1 /\ ~Has(d, e[k].name))
    PROVE  d \o e \in Dirs
  <1> DEFINE f == d \o e
  <1>1. d \in Seq(Records) /\ Len(d) \in Nat /\ Len(e) \in Nat /\ Unique(d)
        /\ DOMAIN d = 1 .. Len(d)
    BY LenProperties DEF Dirs
  <1>2. /\ f \in Seq(Records) /\ Len(f) = Len(d) + Len(e)
        /\ \A k \in 1 .. Len(d) + Len(e) :
             f[k] = IF k <= Len(d) THEN d[k] ELSE e[k - Len(d)]
    BY <1>1, ConcatProperties
  <1>3. DOMAIN f = 1 .. Len(d) + Len(e)
    BY <1>2, LenProperties
  <1> HIDE DEF f
  <1>4. ASSUME NEW k \in Ordinary(f), NEW m \in Ordinary(f),
               f[k].name \in UserNames, f[k].name = f[m].name, k < m
        PROVE  FALSE
    <2>1. k \in 1 .. Len(d) + Len(e) /\ m \in 1 .. Len(d) + Len(e)
      BY <1>3 DEF Ordinary
    <2>2. CASE m <= Len(d)
      <3>1. f[k] = d[k] /\ f[m] = d[m] /\ k \in DOMAIN d /\ m \in DOMAIN d
        BY <1>1, <1>2, <1>4, <2>1, <2>2
      <3>2. k \in Ordinary(d) /\ m \in Ordinary(d)
        BY <3>1 DEF Ordinary
      <3> QED
        BY <1>1, <1>4, <2>1, <3>1, <3>2 DEF Unique
    <2>3. CASE m > Len(d)
      <3>1. f[m] = e[m - Len(d)] /\ m - Len(d) \in 1 .. Len(e)
        BY <1>1, <1>2, <2>1, <2>3
      <3>2. m - Len(d) = 1 /\ ~Has(d, f[m].name)
        BY <1>4, <3>1
      <3>3. k <= Len(d)
        BY <1>1, <1>4, <2>1, <3>2
      <3>4. f[k] = d[k] /\ k \in DOMAIN d
        BY <1>1, <1>2, <2>1, <3>3
      <3> QED
        BY <1>4, <3>2, <3>4 DEF Has, Named
    <2> QED
      BY <1>1, <2>1, <2>2, <2>3
  <1>5. Unique(f)
    <2> SUFFICES ASSUME NEW k \in Ordinary(f), NEW m \in Ordinary(f),
                        f[k].name \in UserNames, f[k].name = f[m].name, k # m
                 PROVE  FALSE
      BY DEF Unique
    <2>1. k \in Int /\ m \in Int
      <3>1. k \in DOMAIN f /\ m \in DOMAIN f
        BY DEF Ordinary
      <3> QED
        BY <1>1, <1>3, <3>1
    <2>2. k < m \/ m < k
      BY <2>1
    <2> QED
      BY <1>4, <2>2
  <1> QED
    BY <1>2, <1>5 DEF Dirs, f

LEMMA GrownKeeps ==
    ASSUME NEW d \in Dirs, NEW r \in Records, CanGrow(d),
           r.name \notin UserNames \/ ~Has(d, r.name)
    PROVE  Grown(d, r) \in Dirs
  <1> DEFINE e == <<r>> \o EmptyItems(DirItems - 1)
  <1>1. d \in Seq(Records) /\ Len(d) \in Nat /\ DirItems - 1 \in Nat
    BY LenProperties, NamespaceAssumption DEF Dirs
  <1>2. <<r>> \in Seq(Records) /\ Len(<<r>>) = 1 /\ <<r>>[1] = r
    OBVIOUS
  <1>3. /\ EmptyItems(DirItems - 1) \in Seq(Records)
        /\ Len(EmptyItems(DirItems - 1)) = DirItems - 1
        /\ \A k \in 1 .. DirItems - 1 : EmptyItems(DirItems - 1)[k] = EmptyItem
    BY <1>1, EmptyItemsAreRecords
  <1>4. /\ e \in Seq(Records) /\ Len(e) = DirItems
        /\ \A k \in 1 .. DirItems : e[k] = IF k <= 1 THEN r ELSE EmptyItem
    <2>1. /\ e \in Seq(Records) /\ Len(e) = 1 + (DirItems - 1)
          /\ \A k \in 1 .. 1 + (DirItems - 1) :
               e[k] = IF k <= 1 THEN <<r>>[k] ELSE EmptyItems(DirItems - 1)[k - 1]
      <3> HIDE DEF e
      <3>1. e = <<r>> \o EmptyItems(DirItems - 1)
        BY DEF e
      <3> QED
        BY <1>2, <1>3, <3>1, ConcatProperties
    <2>2. 1 + (DirItems - 1) = DirItems
      BY NamespaceAssumption
    <2>3. \A k \in 1 .. DirItems : k > 1 => k - 1 \in 1 .. DirItems - 1
      BY NamespaceAssumption
    <2> HIDE DEF e
    <2>4. ASSUME NEW k \in 1 .. DirItems
          PROVE  e[k] = IF k <= 1 THEN r ELSE EmptyItem
      <3>1. CASE k = 1
        BY <1>2, <2>1, <2>2, <3>1
      <3>2. CASE k # 1
        <4>1. k > 1 /\ k - 1 \in 1 .. DirItems - 1
          BY <2>3, <3>2
        <4>2. e[k] = EmptyItems(DirItems - 1)[k - 1]
          BY <2>1, <2>2, <4>1
        <4> QED
          BY <1>3, <4>1, <4>2
      <3> QED
        BY <3>1, <3>2
    <2> QED
      BY <2>1, <2>2, <2>4
  <1> HIDE DEF e
  <1>5. \A k \in 1 .. Len(e) :
           e[k].name \notin UserNames \/ (k = 1 /\ ~Has(d, e[k].name))
    BY <1>4, EmptyItemIsRecord, NamespaceAssumption
  <1>6. Len(d) + Len(e) <= MaxItems
    BY <1>4 DEF CanGrow
  <1>7. d \o e \in Dirs
    BY <1>4, <1>5, <1>6, AppendedKeeps
  <1>8. Grown(d, r) = d \o e
    <2>1. (d \o <<r>>) \o EmptyItems(DirItems - 1) = d \o (<<r>> \o EmptyItems(DirItems - 1))
      BY <1>1, <1>2, <1>3, ConcatAssociative
    <2> QED
      BY <2>1 DEF Grown, e
  <1> QED
    BY <1>7, <1>8

\* Records without a name of the user's before those of a directory.
LEMMA PrependedKeeps ==
    ASSUME NEW e \in Seq(Records), NEW d \in Dirs, Len(e) + Len(d) <= MaxItems,
           \A k \in 1 .. Len(e) : e[k].name \notin UserNames
    PROVE  e \o d \in Dirs
  <1> DEFINE f == e \o d
  <1>1. /\ d \in Seq(Records) /\ Len(d) \in Nat /\ Len(e) \in Nat /\ Unique(d)
        /\ DOMAIN d = 1 .. Len(d)
    BY LenProperties DEF Dirs
  <1>2. /\ f \in Seq(Records) /\ Len(f) = Len(e) + Len(d)
        /\ \A k \in 1 .. Len(e) + Len(d) :
             f[k] = IF k <= Len(e) THEN e[k] ELSE d[k - Len(e)]
    BY <1>1, ConcatProperties
  <1>3. DOMAIN f = 1 .. Len(e) + Len(d)
    BY <1>2, LenProperties
  <1> HIDE DEF f
  <1>4. ASSUME NEW k \in Ordinary(f), f[k].name \in UserNames
        PROVE  k \in Int /\ k - Len(e) \in Ordinary(d) /\ f[k] = d[k - Len(e)]
    <2>1. k \in 1 .. Len(e) + Len(d)
      BY <1>3 DEF Ordinary
    <2>2. ~(k <= Len(e))
      BY <1>1, <1>2, <1>4, <2>1
    <2>3. k - Len(e) \in DOMAIN d /\ f[k] = d[k - Len(e)] /\ k \in Int
      BY <1>1, <1>2, <2>1, <2>2
    <2>4. f[k].name \notin {"", Dot, DotDot}
      BY DEF Ordinary
    <2> QED
      BY Zenon, <2>3, <2>4 DEF Ordinary
  <1>5. Unique(f)
    <2> SUFFICES ASSUME NEW k \in Ordinary(f), NEW m \in Ordinary(f),
                        f[k].name \in UserNames, f[k].name = f[m].name
                 PROVE  k = m
      BY DEF Unique
    <2>1. /\ k \in Int /\ k - Len(e) \in Ordinary(d) /\ f[k] = d[k - Len(e)]
          /\ m \in Int /\ m - Len(e) \in Ordinary(d) /\ f[m] = d[m - Len(e)]
      BY <1>4
    <2>2. k - Len(e) = m - Len(e)
      BY <1>1, <2>1 DEF Unique
    <2> QED
      BY <1>1, <2>1, <2>2
  <1> QED
    BY <1>2, <1>5 DEF Dirs, f

\* The records of a directory from some place on.
LEMMA RestKeeps ==
    ASSUME NEW d \in Dirs, NEW j \in Nat \ {0}
    PROVE  /\ SubSeq(d, j, Len(d)) \in Dirs
           /\ Len(SubSeq(d, j, Len(d))) = IF j <= Len(d) THEN Len(d) - j + 1 ELSE 0
  <1> DEFINE f == SubSeq(d, j, Len(d))
  <1>1. /\ d \in Seq(Records) /\ Len(d) \in Nat /\ Unique(d) /\ Len(d) <= MaxItems
        /\ DOMAIN d = 1 .. Len(d)
    BY LenProperties DEF Dirs
  <1>2. \A k \in j .. Len(d) : d[k] \in Records
    BY <1>1, ElementOfSeq
  <1>3. f \in Seq(Records) /\ Len(f) = IF j <= Len(d) THEN Len(d) - j + 1 ELSE 0
    BY <1>1, <1>2
  <1>4. \A k \in 1 .. Len(d) - j + 1 : f[k] = d[j + k - 1]
    BY <1>1
  <1> HIDE DEF f
  <1>5. DOMAIN f = 1 .. Len(f) /\ Len(f) <= MaxItems
    BY <1>1, <1>3, LenProperties, NamespaceAssumption
  <1>6. ASSUME NEW k \in Ordinary(f)
        PROVE  k \in Int /\ j + k - 1 \in Ordinary(d) /\ f[k] = d[j + k - 1]
    <2>1. k \in DOMAIN f
      BY DEF Ordinary
    <2>2. k \in 1 .. Len(d) - j + 1
      BY <1>1, <1>3, <1>5, <2>1
    <2>3. j + k - 1 \in DOMAIN d /\ f[k] = d[j + k - 1] /\ k \in Int
      BY <1>1, <1>4, <2>2
    <2>4. f[k].name \notin {"", Dot, DotDot}
      BY DEF Ordinary
    <2> QED
      BY Zenon, <2>3, <2>4 DEF Ordinary
  <1>7. Unique(f)
    <2> SUFFICES ASSUME NEW k \in Ordinary(f), NEW m \in Ordinary(f),
                        f[k].name \in UserNames, f[k].name = f[m].name
                 PROVE  k = m
      BY DEF Unique
    <2>1. /\ k \in Int /\ j + k - 1 \in Ordinary(d) /\ f[k] = d[j + k - 1]
          /\ m \in Int /\ j + m - 1 \in Ordinary(d) /\ f[m] = d[j + m - 1]
      BY <1>6
    <2>2. j + k - 1 = j + m - 1
      BY <1>1, <2>1 DEF Unique
    <2> QED
      BY <2>1, <2>2
  <1> QED
    BY <1>3, <1>5, <1>7 DEF Dirs, f

\* The record r was written to a free place p, which the directory d may have
\* got with a new block.
Receives(d, e, p, r) ==
    /\ p \in DOMAIN e /\ e[p] = r
    /\ p \in DOMAIN d => d[p].id = NoInode
    /\ DOMAIN d \subseteq DOMAIN e
    /\ \A k \in DOMAIN e \ {p} : e[k] = IF k \in DOMAIN d THEN d[k] ELSE EmptyItem

LEMMA AddedReceives ==
    ASSUME NEW d \in Seq(Records), NEW r \in Records, HasPlace(d)
    PROVE  \E p \in Nat : Receives(d, Added(d, r), p, r)
  <1>1. DOMAIN d = 1 .. Len(d) /\ Len(d) \in Nat
    BY LenProperties
  <1> DEFINE p == Min(Places(d))
  <1>2. p \in Places(d)
    <2>1. Places(d) \subseteq Nat /\ Places(d) # {}
      BY <1>1 DEF HasPlace, Places
    <2> QED
      BY <2>1, MinIsLeast
  <1> HIDE DEF p
  <1>3. p \in DOMAIN d /\ d[p].id = NoInode /\ p \in Nat
    BY <1>1, <1>2 DEF Places
  <1>4. Added(d, r) = [d EXCEPT ![p] = r]
    BY DEF Added, p
  <1> QED
    BY <1>3, <1>4 DEF Receives

LEMMA GrownReceives ==
    ASSUME NEW d \in Seq(Records), NEW r \in Records
    PROVE  \E p \in Nat : Receives(d, Grown(d, r), p, r)
  <1> DEFINE e == <<r>> \o EmptyItems(DirItems - 1)
             p == Len(d) + 1
  <1>1. Len(d) \in Nat /\ DOMAIN d = 1 .. Len(d) /\ DirItems - 1 \in Nat /\ DirItems \in Nat
    <2>1. DirItems \in Nat /\ DirItems >= 2
      BY NamespaceAssumption
    <2> QED
      BY <2>1, LenProperties
  <1>2. /\ EmptyItems(DirItems - 1) \in Seq(Records) /\ Len(EmptyItems(DirItems - 1)) = DirItems - 1
        /\ \A k \in 1 .. DirItems - 1 : EmptyItems(DirItems - 1)[k] = EmptyItem
    BY <1>1, EmptyItemsAreRecords
  <1>3. <<r>> \in Seq(Records) /\ Len(<<r>>) = 1 /\ <<r>>[1] = r
    OBVIOUS
  <1>4. /\ e \in Seq(Records) /\ Len(e) = DirItems
        /\ e[1] = r /\ \A k \in 2 .. DirItems : e[k] = EmptyItem
    BY <1>1, <1>2, <1>3, ConcatProperties
  <1> HIDE DEF e
  <1>5. /\ d \o e \in Seq(Records) /\ Len(d \o e) = Len(d) + DirItems
        /\ \A k \in 1 .. Len(d) + DirItems :
             (d \o e)[k] = IF k <= Len(d) THEN d[k] ELSE e[k - Len(d)]
    BY <1>4, ConcatProperties
  <1>6. DOMAIN (d \o e) = 1 .. Len(d) + DirItems
    BY <1>5, LenProperties
  <1>7. Grown(d, r) = d \o e
    <2>1. d \in Seq(Records) /\ <<r>> \in Seq(Records) /\ EmptyItems(DirItems - 1) \in Seq(Records)
      BY <1>2, <1>3
    <2> QED
      BY <2>1, ConcatAssociative DEF Grown, e
  <1>8. Receives(d, d \o e, p, r)
    <2>1. p \in 1 .. Len(d) + DirItems /\ (d \o e)[p] = r /\ p \notin DOMAIN d
      BY <1>1, <1>4, <1>5
    <2>2. ASSUME NEW k \in 1 .. Len(d) + DirItems, k # p
          PROVE  (d \o e)[k] = IF k \in DOMAIN d THEN d[k] ELSE EmptyItem
      BY <1>1, <1>4, <1>5, <2>2
    <2> QED
      BY <1>1, <1>6, <2>1, <2>2 DEF Receives
  <1> QED
    BY <1>1, <1>7, <1>8

LEMMA NoRecordsKeep == <<>> \in Dirs
  <1>1. <<>> \in Seq(Records) /\ Len(<<>>) = 0
    BY EmptySeq
  <1>2. Unique(<<>>)
    BY DEF Unique, Ordinary
  <1> QED
    BY <1>1, <1>2, NamespaceAssumption DEF Dirs

\* The records of a new directory, alone or before those it kept.
LEMMA NewDirItemsKeep ==
    ASSUME NEW i \in Ids, NEW p \in Ids, NEW d \in Dirs
    PROVE  /\ NewDirItems(i, p) \in Dirs
           /\ NewDirItems(i, p) \o SubSeq(d, DirItems + 1, Len(d)) \in Dirs
  <1> DEFINE two == <<Item(Dot, i), Item(DotDot, p)>>
             e == NewDirItems(i, p)
  <1>1. /\ Item(Dot, i) \in Records /\ Item(DotDot, p) \in Records
        /\ Item(Dot, i).name \notin UserNames /\ Item(DotDot, p).name \notin UserNames
    BY DEF Item, Records, AllNames, UserNames
  <1>2. /\ two \in Seq(Records) /\ Len(two) = 2
        /\ \A k \in 1 .. 2 : two[k].name \notin UserNames
    BY <1>1
  <1>3. DirItems - 2 \in Nat
    BY NamespaceAssumption
  <1>4. /\ EmptyItems(DirItems - 2) \in Seq(Records)
        /\ Len(EmptyItems(DirItems - 2)) = DirItems - 2
        /\ \A k \in 1 .. DirItems - 2 : EmptyItems(DirItems - 2)[k] = EmptyItem
    BY <1>3, EmptyItemsAreRecords
  <1>5. /\ e \in Seq(Records) /\ Len(e) = DirItems
        /\ \A k \in 1 .. Len(e) : e[k].name \notin UserNames
    <2> HIDE DEF two
    <2>1. e = two \o EmptyItems(DirItems - 2)
      BY DEF NewDirItems, two
    <2> HIDE DEF e
    <2>2. /\ e \in Seq(Records) /\ Len(e) = 2 + (DirItems - 2)
          /\ \A k \in 1 .. 2 + (DirItems - 2) :
               e[k] = IF k <= 2 THEN two[k] ELSE EmptyItems(DirItems - 2)[k - 2]
      <3> DEFINE rest == EmptyItems(DirItems - 2)
      <3>1. rest \in Seq(Records) /\ Len(rest) = DirItems - 2 /\ e = two \o rest
        BY <1>4, <2>1
      <3> HIDE DEF rest
      <3>2. /\ e \in Seq(Records) /\ Len(e) = Len(two) + Len(rest)
            /\ \A k \in 1 .. Len(two) + Len(rest) :
                 e[k] = IF k <= Len(two) THEN two[k] ELSE rest[k - Len(two)]
        BY <1>2, <3>1, ConcatProperties
      <3> QED
        BY <1>2, <3>1, <3>2 DEF rest
    <2>3. ASSUME NEW k \in 1 .. DirItems
          PROVE  e[k].name \notin UserNames
      <3>1. k \in 1 .. 2 + (DirItems - 2)
        BY NamespaceAssumption
      <3>2. CASE k <= 2
        BY <1>2, <2>2, <3>1, <3>2
      <3>3. CASE k > 2
        <4>1. k - 2 \in 1 .. DirItems - 2
          BY <3>3, NamespaceAssumption
        <4> QED
          BY <1>4, <2>2, <3>1, <3>3, <4>1, EmptyItemIsRecord
      <3> QED
        BY <3>2, <3>3
    <2> QED
      BY <2>2, <2>3, NamespaceAssumption
  <1> HIDE DEF e
  <1>6. ASSUME NEW t \in Dirs, Len(t) + DirItems <= MaxItems
        PROVE  e \o t \in Dirs
    BY <1>5, <1>6, PrependedKeeps
  <1>7. e \in Dirs
    <2>1. e \o <<>> = e
      BY <1>5, ConcatEmptySeq
    <2>2. Len(<<>>) + DirItems <= MaxItems
      BY NamespaceAssumption
    <2> QED
      BY <1>6, <2>1, <2>2, NoRecordsKeep
  <1>8. e \o SubSeq(d, DirItems + 1, Len(d)) \in Dirs
    <2>1. /\ SubSeq(d, DirItems + 1, Len(d)) \in Dirs
          /\ Len(SubSeq(d, DirItems + 1, Len(d)))
               = IF DirItems + 1 <= Len(d) THEN Len(d) - (DirItems + 1) + 1 ELSE 0
      BY RestKeeps, NamespaceAssumption
    <2>2. Len(d) \in Nat /\ Len(d) <= MaxItems
      BY LenProperties DEF Dirs
    <2>3. Len(SubSeq(d, DirItems + 1, Len(d))) + DirItems <= MaxItems
      BY <2>1, <2>2, NamespaceAssumption
    <2> QED
      BY <1>6, <2>1, <2>3
  <1> QED
    BY <1>7, <1>8 DEF e

------------------------------------------------------------------------------
(* Paths and commands                                                      *)

LEMMA PathsAreInodes == Walked \subseteq Inodes /\ DirPaths \subseteq Inodes
  <1>1. \A S : Walk(S) \subseteq Inodes
    BY Zenon DEF Walk
  <1> QED
    BY <1>1 DEF Walked, DirPaths

LEMMA IdOfIsId ==
    ASSUME NEW d \in Dirs, NEW n, Has(d, n)
    PROVE  IdOf(d, n) \in Ids
  <1>1. d \in Seq(Records) /\ Named(d, n) # {} /\ Named(d, n) \subseteq DOMAIN d
    BY DEF Dirs, Has, Named
  <1>2. DOMAIN d = 1 .. Len(d) /\ Len(d) \in Nat
    BY <1>1, LenProperties
  <1>3. Min(Named(d, n)) \in 1 .. Len(d)
    BY <1>1, <1>2, MinIsLeast
  <1>4. d[Min(Named(d, n))] \in Records
    BY <1>1, <1>3, ElementOfSeq
  <1> QED
    BY <1>4 DEF IdOf, Records

LEMMA NamesAreNames ==
    ASSUME IInv, NEW i \in Inodes
    PROVE  NamesIn(i) \subseteq AllNames
  <1>1. dir[i] \in Seq(Records)
    BY DEF IInv, Dirs
  <1>2. \A k \in DOMAIN dir[i] : dir[i][k] \in Records
    BY <1>1, LenProperties, ElementOfSeq
  <1>3. \A k \in DOMAIN dir[i] : dir[i][k].name \in AllNames
    BY <1>2 DEF Records
  <1> QED
    BY <1>3 DEF NamesIn, AllNames

\* What a path to an existing item resolves to.
LEMMA FoundItems ==
    ASSUME IInv, NEW f \in Found
    PROVE  f.par \in Inodes /\ f.name \in AllNames /\ f.id \in Inodes
  <1>1. PICK p \in Walked, n \in UNION {NamesIn(i) : i \in Walked} :
          f = [par |-> p, name |-> n,
               id |-> IF Has(dir[p], n) THEN IdOf(dir[p], n) ELSE NoInode]
    BY DEF Found
  <1>2. f.id # NoInode
    BY DEF Found
  <1>3. p \in Inodes /\ n \in AllNames
    BY PathsAreInodes, NamesAreNames
  <1>4. dir[p] \in Dirs
    BY <1>3 DEF IInv
  <1>5. Has(dir[p], n) /\ f.id = IdOf(dir[p], n)
    BY <1>1, <1>2
  <1>6. f.id \in Ids
    BY <1>4, <1>5, IdOfIsId
  <1> QED
    BY <1>1, <1>2, <1>3, <1>6 DEF Ids

LEMMA RootIsInode == RootId \in Inodes /\ NoInode \notin Inodes
  BY NamespaceAssumption DEF RootId, NoInode, Inodes

LEMMA DestItems ==
    ASSUME IInv, NEW n \in AllNames, NEW t \in Dests(n)
    PROVE  t.par \in Inodes /\ t.name \in AllNames
  <1>1. CASE t \in {[par |-> f.id, name |-> n] : f \in Found}
    BY <1>1, FoundItems
  <1>2. CASE t = [par |-> RootId, name |-> n]
    BY <1>2, RootIsInode
  <1>3. CASE t \in [par : DirPaths, name : Names]
    BY <1>3, PathsAreInodes DEF AllNames
  <1> QED
    BY <1>1, <1>2, <1>3 DEF Dests

LEMMA LostAreInodes == ASSUME NEW junk PROVE TrulyLost(junk) \subseteq Inodes
  <1>1. TrulyLost(junk) \subseteq Marked
    BY Zenon DEF TrulyLost
  <1> QED
    BY <1>1 DEF Marked, InUse

LEMMA BegunIsOp ==
    ASSUME NEW at \in Stages, NEW cmd \in Commands, NEW child \in Ids,
           NEW name \in AllNames, NEW par \in Ids
    PROVE  /\ Begin(at, cmd, child, name, par) \in Ops
           /\ \A d \in Dirs : [Begin(at, cmd, child, name, par) EXCEPT !.kept = d] \in Ops
           /\ \A S \in SUBSET Inodes :
                [Begin(at, cmd, child, name, par) EXCEPT !.lost = S] \in Ops
  BY NoRecordsKeep DEF Begin, Ops

LEMMA IdleIsOp == Idle \in Ops /\ Idle.at = "idle"
  <1>1. "" \in AllNames /\ NoInode \in Ids
    BY DEF AllNames, Ids
  <1>2. Idle \in Ops
    BY <1>1, BegunIsOp DEF Idle, Stages, Commands
  <1> QED
    BY <1>2 DEF Idle, Begin

------------------------------------------------------------------------------
(* Every step                                                              *)

\* A command that is over, or is not one of those that IInv says more of.
LEMMA NextIsKnown ==
    ASSUME itype' \in [Inodes -> {"free", "file", "dirc"}],
           ibm' \in [Inodes -> BOOLEAN], dir' \in [Inodes -> Dirs],
           void' \subseteq Inodes, cwd' \in Inodes, err' \in BOOLEAN,
           op' \in Ops, op'.at \notin {"add", "free", "rescue"}, DotsOwn'
    PROVE  IInv'
  BY DEF IInv

LEMMA NextIsIdle ==
    ASSUME itype' \in [Inodes -> {"free", "file", "dirc"}],
           ibm' \in [Inodes -> BOOLEAN], dir' \in [Inodes -> Dirs],
           void' \subseteq Inodes, cwd' \in Inodes, err' \in BOOLEAN,
           op' = Idle, DotsOwn'
    PROVE  IInv'
  <1>1. op' \in Ops /\ op'.at = "idle"
    BY IdleIsOp
  <1> QED
    BY <1>1, NextIsKnown

LEMMA FailureIsBoolean == AfterFailure \subseteq BOOLEAN
  BY DEF AfterFailure

\* mkdir, cp and incp take an inode for a name they have looked for.
LEMMA TakingKeeps ==
    ASSUME IInv, NEW i \in Inodes, NEW cmd \in Commands, NEW n \in AllNames,
           NEW p \in Inodes, n \in UserNames => ~Has(dir[p], n), TakeInode(i, cmd, n, p),
           itype' \in [Inodes -> {"free", "file", "dirc"}],
           dir' \in [Inodes -> Dirs], \A j \in Inodes \ {i} : dir'[j] = dir[j],
           void' \subseteq Inodes, cwd' = cwd, err' \in BOOLEAN, DotsOwn'
    PROVE  IInv'
  <1>1. /\ op' = [Begin("add", cmd, i, n, p) EXCEPT !.kept = dir[i]]
        /\ ibm' \in [Inodes -> BOOLEAN]
    BY DEF TakeInode, IInv
  <1>2. dir[i] \in Dirs
    BY DEF IInv
  <1>3. op' \in Ops
    BY <1>1, <1>2, BegunIsOp DEF Ids, Stages
  <1>4. /\ op'.at = "add" /\ op'.child = i /\ op'.name = n /\ op'.par = p
        /\ op'.kept = dir[i]
    BY <1>1 DEF Begin
  <1>5. ParentDir' = dir[p]
    BY <1>4 DEF ParentDir
  <1> QED
    BY <1>1, <1>3, <1>4, <1>5 DEF IInv

LEMMA StartMkdirKeeps == ASSUME IInv, StartMkdir, DotsOwn' PROVE IInv'
  <1>1. PICK p \in DirPaths, n \in Names :
          /\ ~Has(dir[p], n)
          /\ \/ /\ \E i \in Inodes : TakeInode(i, "mkdir", n, p) /\ NewDirectory(i, p)
                /\ UNCHANGED err
             \/ /\ op' = Begin("add", "mkdir", NoInode, n, p)
                /\ err' = TRUE
                /\ UNCHANGED <<itype, ibm, dir, void>>
    BY DEF StartMkdir
  <1>2. p \in Inodes /\ n \in AllNames /\ cwd' = cwd
    BY PathsAreInodes DEF AllNames, StartMkdir
  <1>3. CASE \E i \in Inodes : TakeInode(i, "mkdir", n, p) /\ NewDirectory(i, p) /\ UNCHANGED err
    <2>1. PICK i \in Inodes : TakeInode(i, "mkdir", n, p) /\ NewDirectory(i, p) /\ UNCHANGED err
      BY <1>3
    <2>2. NewDirItems(i, p) \o SubSeq(dir[i], DirItems + 1, Len(dir[i])) \in Dirs
      BY <1>2, NewDirItemsKeep DEF IInv, Ids
    <2>3. /\ itype' \in [Inodes -> {"free", "file", "dirc"}]
          /\ dir' \in [Inodes -> Dirs] /\ \A j \in Inodes \ {i} : dir'[j] = dir[j]
          /\ void' \subseteq Inodes /\ err' \in BOOLEAN
      BY <2>1, <2>2 DEF NewDirectory, IInv
    <2> QED
      BY <1>1, <1>2, <2>1, <2>3, TakingKeeps DEF Commands
  <1>4. CASE /\ op' = Begin("add", "mkdir", NoInode, n, p) /\ err' = TRUE
             /\ UNCHANGED <<itype, ibm, dir, void>>
    <2>1. op' \in Ops
      BY <1>2, <1>4, BegunIsOp DEF Ids, Stages, Commands
    <2>2. /\ op'.at = "add" /\ op'.child = NoInode /\ op'.name = n /\ op'.par = p
      BY <1>4 DEF Begin
    <2>3. ParentDir' = dir[p]
      BY <1>2, <1>4, <2>2, RootIsInode DEF ParentDir
    <2> QED
      BY <1>1, <1>2, <1>4, <2>1, <2>2, <2>3 DEF IInv
  <1> QED
    BY <1>1, <1>3, <1>4

LEMMA StartCopyKeeps == ASSUME IInv, StartCopy, DotsOwn' PROVE IInv'
  <1>1. PICK f \in Found : \E t \in Dests(f.name), i \in Inodes :
          /\ ~Has(dir[t.par], t.name)
          /\ TakeInode(i, IF f.id \in void THEN "cp0" ELSE "cp", t.name, t.par)
          /\ itype' = [itype EXCEPT ![i] = "file"]
    BY DEF StartCopy
  <1>2. PICK t \in Dests(f.name), i \in Inodes :
          /\ ~Has(dir[t.par], t.name)
          /\ TakeInode(i, IF f.id \in void THEN "cp0" ELSE "cp", t.name, t.par)
          /\ itype' = [itype EXCEPT ![i] = "file"]
    BY <1>1
  <1>3. t.par \in Inodes /\ t.name \in AllNames
    BY FoundItems, DestItems
  <1>4. PICK cmd \in Commands : TakeInode(i, cmd, t.name, t.par)
    BY <1>2 DEF Commands
  <1>5. UNCHANGED <<dir, void, cwd, err>>
    BY DEF StartCopy
  <1>6. /\ itype' \in [Inodes -> {"free", "file", "dirc"}]
        /\ dir' \in [Inodes -> Dirs] /\ \A j \in Inodes \ {i} : dir'[j] = dir[j]
        /\ void' \subseteq Inodes /\ err' \in BOOLEAN
    BY <1>2, <1>5 DEF IInv
  <1> QED
    BY <1>2, <1>3, <1>4, <1>5, <1>6, TakingKeeps

\* The name was looked for in the inode that gets the record, or a "." was moved.
LEMMA NewFilePathsLeadTo ==
    ASSUME IInv, NEW t \in NewFilePaths
    PROVE  t.par \in Inodes /\ (Without({"mvdot"}) => t.par = t.at)
  <1>1. CASE t \in {[at |-> p, par |-> p] : p \in DirPaths}
    BY <1>1, PathsAreInodes
  <1>2. CASE t \in BareName
    <2>1. /\ Has(dir[cwd], Dot) /\ t = [at |-> cwd, par |-> IdOf(dir[cwd], Dot)]
          /\ IdOf(dir[cwd], Dot) # NoInode
      BY <1>2 DEF BareName
    <2>2. cwd \in Inodes /\ dir[cwd] \in Dirs /\ DotsOwn
      BY DEF IInv
    <2>3. IdOf(dir[cwd], Dot) \in Ids
      BY <2>1, <2>2, IdOfIsId
    <2>4. ASSUME Without({"mvdot"}) PROVE IdOf(dir[cwd], Dot) = cwd
      <3>1. Named(dir[cwd], Dot) # {} /\ Named(dir[cwd], Dot) \subseteq Nat
        <4>1. DOMAIN dir[cwd] = 1 .. Len(dir[cwd]) /\ Len(dir[cwd]) \in Nat
          BY <2>2, LenProperties DEF Dirs
        <4> QED
          BY <2>1, <4>1 DEF Has, Named
      <3>2. Min(Named(dir[cwd], Dot)) \in Named(dir[cwd], Dot)
        BY <3>1, MinIsLeast
      <3> QED
        BY <2>2, <2>4, <3>2 DEF DotsOwn, OwnDots, IdOf, Named
    <2> QED
      BY <2>1, <2>3, <2>4 DEF Ids
  <1> QED
    BY <1>1, <1>2 DEF NewFilePaths

LEMMA StartIncpKeeps == ASSUME IInv, StartIncp, DotsOwn' PROVE IInv'
  <1>1. PICK t \in NewFilePaths, n \in Names, cmd \in {"incp", "incp0"} :
          /\ ~Has(dir[t.at], n)
          /\ \E i \in Inodes : /\ TakeInode(i, cmd, n, t.par)
                             /\ itype' = [itype EXCEPT ![i] = "file"]
    BY DEF StartIncp
  <1>2. PICK i \in Inodes : TakeInode(i, cmd, n, t.par) /\ itype' = [itype EXCEPT ![i] = "file"]
    BY <1>1
  <1>3. t.par \in Inodes /\ n \in AllNames /\ (n \in UserNames => ~Has(dir[t.par], n))
    BY <1>1, NewFilePathsLeadTo DEF AllNames, UserNames
  <1>4. cmd \in Commands
    BY DEF Commands
  <1>5. UNCHANGED <<dir, void, cwd, err>>
    BY DEF StartIncp
  <1>6. /\ itype' \in [Inodes -> {"free", "file", "dirc"}]
        /\ dir' \in [Inodes -> Dirs] /\ \A j \in Inodes \ {i} : dir'[j] = dir[j]
        /\ void' \subseteq Inodes /\ err' \in BOOLEAN
    BY <1>2, <1>5 DEF IInv
  <1> QED
    BY <1>2, <1>3, <1>5, <1>6, <1>4, TakingKeeps

LEMMA IncpNowhereKeeps == ASSUME IInv, IncpNowhere, DotsOwn' PROVE IInv'
  <1>1. /\ itype' \in [Inodes -> {"free", "file", "dirc"}]
        /\ ibm' \in [Inodes -> BOOLEAN] /\ err' \in BOOLEAN
        /\ UNCHANGED <<dir, void, cwd, op>> /\ op.at = "idle"
    BY FailureIsBoolean DEF IncpNowhere, IInv
  <1> QED
    BY <1>1 DEF IInv

LEMMA IncpOverKeeps == ASSUME IInv, IncpOver, DotsOwn' PROVE IInv'
  <1>1. PICK f \in Found : \E d \in {dir[f.id], <<>>}, v \in {void \union {f.id}, void \ {f.id}} :
          dir' = [dir EXCEPT ![f.id] = d] /\ void' = v
    BY DEF IncpOver
  <1>2. PICK d \in {dir[f.id], <<>>} : dir' = [dir EXCEPT ![f.id] = d]
    BY <1>1
  <1>3. f.id \in Inodes
    BY FoundItems
  <1>4. d \in Dirs
    BY <1>3, NoRecordsKeep DEF IInv
  <1>5. dir' \in [Inodes -> Dirs] /\ void' \subseteq Inodes
    BY <1>1, <1>2, <1>3, <1>4 DEF IInv
  <1>6. UNCHANGED <<itype, ibm, cwd, err, op>> /\ op.at = "idle"
    BY DEF IncpOver
  <1> QED
    BY <1>5, <1>6 DEF IInv

\* What add_to_parent() writes.
LEMMA ParentKeeps ==
    ASSUME IInv, op.at = "add"
    PROVE  /\ op.par \in Inodes /\ ParentDir \in Dirs
           /\ Added(ParentDir, NewItem) \in Dirs
           /\ CanGrow(ParentDir) => Grown(ParentDir, NewItem) \in Dirs
  <1>1. op.par \in Inodes /\ (op.name \in UserNames => ~Has(ParentDir, op.name)) /\ op \in Ops
    BY DEF IInv
  <1>2. ParentDir \in Dirs
    BY <1>1 DEF ParentDir, IInv, Ops
  <1>3. NewItem \in Records /\ NewItem.name = op.name
    BY <1>1 DEF NewItem, Item, Records, Ops
  <1> QED
    BY <1>1, <1>2, <1>3, AddedKeeps, GrownKeeps

LEMMA AddRecordKeeps == ASSUME IInv, AddRecord, DotsOwn' PROVE IInv'
  <1>1. /\ op.par \in Inodes /\ ParentDir \in Dirs
        /\ Added(ParentDir, NewItem) \in Dirs
        /\ CanGrow(ParentDir) => Grown(ParentDir, NewItem) \in Dirs
    BY ParentKeeps DEF AddRecord
  <1>2. /\ itype' \in [Inodes -> {"free", "file", "dirc"}]
        /\ dir' \in [Inodes -> Dirs]
    <2>1. CASE AddedInPlace
      BY <1>1, <2>1 DEF AddedInPlace, IInv
    <2>2. CASE AddedInNewBlock
      BY <1>1, <2>2 DEF AddedInNewBlock, IInv
    <2> QED
      BY <2>1, <2>2 DEF AddRecord
  <1>3. /\ void' \subseteq Inodes /\ err' \in BOOLEAN
        /\ op' = Idle /\ UNCHANGED <<ibm, cwd>>
    BY DEF AddRecord, IInv
  <1> QED
    BY <1>2, <1>3, NextIsIdle DEF IInv

LEMMA CopyNothingKeeps == ASSUME IInv, CopyNothing, DotsOwn' PROVE IInv'
  <1> DEFINE new == IF HasPlace(ParentDir) THEN Added(ParentDir, NewItem)
                                           ELSE Grown(ParentDir, NewItem)
  <1>1. new \in Dirs
    BY ParentKeeps DEF CopyNothing
  <1>2. dir' = [dir EXCEPT ![op.par] = new, ![op.child] = <<>>]
    BY DEF CopyNothing
  <1> HIDE DEF new
  <1>3. dir' \in [Inodes -> Dirs]
    BY <1>1, <1>2, NoRecordsKeep DEF IInv
  <1>4. /\ itype' \in [Inodes -> {"free", "file", "dirc"}] /\ ibm' \in [Inodes -> BOOLEAN]
        /\ err' \in BOOLEAN /\ op' = Idle /\ UNCHANGED <<void, cwd>>
    BY FailureIsBoolean DEF CopyNothing, IInv
  <1> QED
    BY <1>3, <1>4, NextIsIdle DEF IInv

\* free_inode_file() and free_inode_directory().
LEMMA FreedKeeps ==
    ASSUME IInv, NEW i \in Inodes, Freed(i)
    PROVE  /\ itype' \in [Inodes -> {"free", "file", "dirc"}]
           /\ ibm' \in [Inodes -> BOOLEAN] /\ dir' \in [Inodes -> Dirs]
           /\ void' \subseteq Inodes
  BY NoRecordsKeep DEF Freed, IInv

LEMMA AddFailsKeeps == ASSUME IInv, AddFails, DotsOwn' PROVE IInv'
  <1>1. /\ itype' \in [Inodes -> {"free", "file", "dirc"}]
        /\ ibm' \in [Inodes -> BOOLEAN] /\ dir' \in [Inodes -> Dirs]
        /\ void' \subseteq Inodes
    <2>1. CASE UNCHANGED <<itype, ibm, dir, void>>
      BY <2>1 DEF IInv
    <2>2. CASE op.child # NoInode /\ Freed(op.child)
      <3>1. op.child \in Inodes
        BY <2>2 DEF IInv, Ops, Ids
      <3> QED
        BY <2>2, <3>1, FreedKeeps
    <2> QED
      BY <2>1, <2>2 DEF AddFails
  <1>2. err' \in BOOLEAN /\ op' = Idle /\ cwd' = cwd
    BY FailureIsBoolean DEF AddFails
  <1> QED
    BY <1>1, <1>2, NextIsIdle DEF IInv

\* rm and rmdir delete the record and keep the inode for the next step.
LEMMA RemovingKeeps ==
    ASSUME IInv, NEW f \in Found, NEW cmd \in Commands,
           dir' = [dir EXCEPT ![f.par] = Deleted(@, Item(f.name, f.id))],
           op' = Begin("free", cmd, f.id, "", NoInode),
           UNCHANGED <<itype, ibm, void, cwd, err>>, DotsOwn'
    PROVE  IInv'
  <1>1. f.par \in Inodes /\ f.id \in Inodes
    BY FoundItems
  <1>2. dir' \in [Inodes -> Dirs]
    BY <1>1, DeletedKeeps DEF IInv
  <1>3. op' \in Ops
    BY <1>1, BegunIsOp DEF Stages, Ids, AllNames
  <1>4. op'.at = "free" /\ op'.child = f.id
    BY DEF Begin
  <1> QED
    BY <1>1, <1>2, <1>3, <1>4 DEF IInv

LEMMA StartRmKeeps == ASSUME IInv, StartRm, DotsOwn' PROVE IInv'
  BY RemovingKeeps DEF StartRm, Commands

LEMMA StartRmdirKeeps == ASSUME IInv, StartRmdir, DotsOwn' PROVE IInv'
  BY RemovingKeeps DEF StartRmdir, Commands

LEMMA FreeInodeKeeps == ASSUME IInv, FreeInode, DotsOwn' PROVE IInv'
  <1>1. op.child \in Inodes
    BY DEF FreeInode, IInv
  <1> QED
    BY <1>1, FreedKeeps, NextIsIdle DEF FreeInode, IInv

LEMMA StartMvKeeps == ASSUME IInv, StartMv, DotsOwn' PROVE IInv'
  <1>1. PICK f \in Found : \E t \in Dests(f.name) :
          /\ ~Has(dir[t.par], t.name)
          /\ \/ /\ HasPlace(dir[t.par])
                /\ dir' = [dir EXCEPT ![t.par] = Added(@, Item(t.name, f.id))]
             \/ /\ ~HasPlace(dir[t.par]) /\ CanGrow(dir[t.par])
                /\ dir' = [dir EXCEPT ![t.par] = Grown(@, Item(t.name, f.id))]
          /\ op' = Begin("unlink", "mv", f.id, f.name, f.par)
    BY DEF StartMv
  <1>2. PICK t \in Dests(f.name) :
          /\ ~Has(dir[t.par], t.name)
          /\ \/ /\ HasPlace(dir[t.par])
                /\ dir' = [dir EXCEPT ![t.par] = Added(@, Item(t.name, f.id))]
             \/ /\ ~HasPlace(dir[t.par]) /\ CanGrow(dir[t.par])
                /\ dir' = [dir EXCEPT ![t.par] = Grown(@, Item(t.name, f.id))]
          /\ op' = Begin("unlink", "mv", f.id, f.name, f.par)
    BY <1>1
  <1>3. /\ f.par \in Inodes /\ f.name \in AllNames /\ f.id \in Inodes
        /\ t.par \in Inodes /\ t.name \in AllNames
    BY FoundItems, DestItems
  <1>4. Item(t.name, f.id) \in Records /\ Item(t.name, f.id).name = t.name
    BY <1>3 DEF Item, Records, Ids
  <1>5. /\ Added(dir[t.par], Item(t.name, f.id)) \in Dirs
        /\ CanGrow(dir[t.par]) => Grown(dir[t.par], Item(t.name, f.id)) \in Dirs
    BY <1>2, <1>3, <1>4, AddedKeeps, GrownKeeps DEF IInv
  <1>6. dir' \in [Inodes -> Dirs]
    BY <1>2, <1>3, <1>5 DEF IInv
  <1>7. op' \in Ops
    BY <1>2, <1>3, BegunIsOp DEF Stages, Commands, Ids
  <1>8. op'.at = "unlink"
    BY <1>2 DEF Begin
  <1> QED
    BY <1>6, <1>7, <1>8, NextIsKnown DEF StartMv, IInv

LEMMA UnlinkKeeps == ASSUME IInv, Unlink, DotsOwn' PROVE IInv'
  <1>1. dir' \in [Inodes -> Dirs]
    BY DeletedKeeps DEF Unlink, IInv
  <1> QED
    BY <1>1, NextIsIdle DEF Unlink, IInv

LEMMA CdKeeps == ASSUME IInv, Cd, DotsOwn' PROVE IInv'
  <1>1. cwd' \in Inodes
    BY FoundItems, RootIsInode DEF Cd
  <1>2. err' \in BOOLEAN
    BY DEF Cd, IInv
  <1> QED
    BY <1>1, <1>2 DEF Cd, IInv

LEMMA CorruptKeeps == ASSUME IInv, Corrupt, DotsOwn' PROVE IInv'
  <1>1. PICK S \in SUBSET {i \in Inodes : itype[i] = "dirc" /\ Ordinary(dir[i]) # {}} :
          \E hit \in [S -> 1 .. MaxItems] :
            dir' = [i \in Inodes |-> IF i \in S THEN [dir[i] EXCEPT ![hit[i]] = EmptyItem]
                                     ELSE dir[i]]
    BY DEF Corrupt
  <1>2. PICK hit \in [S -> 1 .. MaxItems] :
            dir' = [i \in Inodes |-> IF i \in S THEN [dir[i] EXCEPT ![hit[i]] = EmptyItem]
                                     ELSE dir[i]]
    BY <1>1
  <1>3. \A i \in Inodes : dir[i] \in Dirs /\ [dir[i] EXCEPT ![hit[i]] = EmptyItem] \in Dirs
    BY EmptyItemIsRecord, WrittenKeeps DEF IInv
  <1>4. dir' \in [Inodes -> Dirs]
    BY <1>2, <1>3
  <1> QED
    BY <1>4 DEF Corrupt, IInv

------------------------------------------------------------------------------
(* fsck                                                                    *)

LEMMA FsckNames ==
    /\ LostFound \in AllNames \ UserNames
    /\ \A i \in Inodes : RescueName(i) \in AllNames \ UserNames
  BY RescueAssumption DEF AllNames, UserNames

LEMMA FsckFindsNothingKeeps == ASSUME IInv, FsckFindsNothing, DotsOwn' PROVE IInv'
  <1>1. UNCHANGED vars
    BY DEF FsckFindsNothing
  <1> QED
    BY <1>1 DEF IInv, vars, ParentDir, NewItem

\* A record of fsck's in a directory that has room for it.
LEMMA FsckRecordKeeps ==
    ASSUME IInv, NEW p \in Inodes, NEW n \in AllNames \ UserNames, NEW i \in Ids
    PROVE  /\ Added(dir[p], Item(n, i)) \in Dirs
           /\ CanGrow(dir[p]) => Grown(dir[p], Item(n, i)) \in Dirs
  <1>1. Item(n, i) \in Records /\ Item(n, i).name \notin UserNames
    BY DEF Item, Records
  <1>2. dir[p] \in Dirs
    BY DEF IInv
  <1> QED
    BY <1>1, <1>2, AddedKeeps, GrownKeeps

\* fsck has found or made lost+found, and knows what to save.
LEMMA RescueIsOp ==
    ASSUME NEW p \in Inodes, NEW S \in SUBSET Inodes
    PROVE  LET new == [Begin("rescue", "fsck", NoInode, "", p) EXCEPT !.lost = S]
           IN  new \in Ops /\ new.at = "rescue" /\ new.par = p
  <1>1. /\ "rescue" \in Stages /\ "fsck" \in Commands /\ NoInode \in Ids /\ "" \in AllNames
        /\ p \in Ids
    BY DEF Stages, Commands, Ids, AllNames
  <1>2. [Begin("rescue", "fsck", NoInode, "", p) EXCEPT !.lost = S] \in Ops
    BY <1>1, BegunIsOp
  <1> QED
    BY <1>2 DEF Begin

\* The first block of lost+found, and what its inode linked before.
LostFoundDir(i) == NewDirItems(i, RootId) \o SubSeq(dir[i], DirItems + 1, Len(dir[i]))
LostFoundInRoot(i) ==
    IF HasPlace(dir[RootId]) THEN Added(dir[RootId], Item(LostFound, i))
                             ELSE Grown(dir[RootId], Item(LostFound, i))

LEMMA FindingLost ==
    ASSUME FsckFindsLost
    PROVE  \/ /\ Has(dir[cwd], LostFound) /\ IdOf(dir[cwd], LostFound) # NoInode
              /\ \E junk \in Harmless :
                   op' = [Begin("rescue", "fsck", NoInode, "", IdOf(dir[cwd], LostFound))
                            EXCEPT !.lost = TrulyLost(junk)]
              /\ UNCHANGED <<itype, ibm, dir, void, cwd, err>>
           \/ /\ ~Has(dir[cwd], LostFound) /\ err' = TRUE /\ cwd' = cwd
              /\ \E i \in Inodes, junk \in Harmless :
                   /\ FirstFree(i)
                   /\ ibm' = [ibm EXCEPT ![i] = FALSE]
                   /\ itype' = [itype EXCEPT ![i] = "dirc"]
                   /\ HasPlace(dir[RootId]) \/ CanGrow(dir[RootId])
                   /\ dir' = [dir EXCEPT ![i] = LostFoundDir(i), ![RootId] = LostFoundInRoot(i)]
                   /\ void' = void \ {i}
                   /\ op' = [Begin("rescue", "fsck", NoInode, "", i)
                               EXCEPT !.lost = TrulyLost(junk)]
  <1>1. CASE Has(dir[cwd], LostFound)
    BY <1>1 DEF FsckFindsLost
  <1>2. CASE ~Has(dir[cwd], LostFound)
    BY <1>2, Zenon DEF FsckFindsLost, LostFoundDir, LostFoundInRoot
  <1> QED
    BY <1>1, <1>2

LEMMA FsckFindsLostKeeps == ASSUME IInv, FsckFindsLost, DotsOwn' PROVE IInv'
  <1>1. CASE /\ Has(dir[cwd], LostFound)
             /\ IdOf(dir[cwd], LostFound) # NoInode
             /\ \E junk \in Harmless :
                  op' = [Begin("rescue", "fsck", NoInode, "", IdOf(dir[cwd], LostFound))
                           EXCEPT !.lost = TrulyLost(junk)]
             /\ UNCHANGED <<itype, ibm, dir, void, cwd, err>>
    <2> DEFINE p == IdOf(dir[cwd], LostFound)
    <2>1. p \in Inodes
      BY <1>1, IdOfIsId DEF IInv, Ids
    <2> HIDE DEF p
    <2>2. PICK junk : op' = [Begin("rescue", "fsck", NoInode, "", p) EXCEPT !.lost = TrulyLost(junk)]
      BY <1>1 DEF p
    <2>3. op' \in Ops /\ op'.at = "rescue" /\ op'.par = p
      BY <2>1, <2>2, RescueIsOp, LostAreInodes
    <2> QED
      BY <1>1, <2>1, <2>3 DEF IInv
  <1>2. ASSUME NEW i \in Inodes, NEW junk \in Harmless,
               err' = TRUE, cwd' = cwd,
               ibm' = [ibm EXCEPT ![i] = FALSE],
               itype' = [itype EXCEPT ![i] = "dirc"],
               HasPlace(dir[RootId]) \/ CanGrow(dir[RootId]),
               dir' = [dir EXCEPT ![i] = LostFoundDir(i), ![RootId] = LostFoundInRoot(i)],
               void' = void \ {i},
               op' = [Begin("rescue", "fsck", NoInode, "", i) EXCEPT !.lost = TrulyLost(junk)]
        PROVE  IInv'
    <2>2. i \in Ids /\ RootId \in Inodes /\ RootId \in Ids
      BY RootIsInode DEF Ids
    <2>3. LostFoundInRoot(i) \in Dirs
      BY <1>2, <2>2, FsckNames, FsckRecordKeeps DEF LostFoundInRoot
    <2>4. LostFoundDir(i) \in Dirs
      BY <2>2, NewDirItemsKeep DEF LostFoundDir, IInv
    <2>5. dir' \in [Inodes -> Dirs]
      BY <1>2, <2>3, <2>4 DEF IInv
    <2>6. op' \in Ops /\ op'.at = "rescue" /\ op'.par = i
      BY <1>2, RescueIsOp, LostAreInodes
    <2>7. /\ itype' \in [Inodes -> {"free", "file", "dirc"}] /\ ibm' \in [Inodes -> BOOLEAN]
          /\ void' \subseteq Inodes /\ cwd' \in Inodes /\ err' \in BOOLEAN
      BY <1>2 DEF IInv
    <2> QED
      BY <2>5, <2>6, <2>7 DEF IInv
  <1> QED
    BY <1>1, <1>2, FindingLost, Zenon

LEMMA FsckFindsNoSpaceKeeps == ASSUME IInv, FsckFindsNoSpace, DotsOwn' PROVE IInv'
  <1>1. Added(dir[RootId], Item(LostFound, NoInode)) \in Dirs
    BY RootIsInode, FsckNames, FsckRecordKeeps DEF Ids
  <1>2. dir' \in [Inodes -> Dirs] /\ err' \in BOOLEAN
    BY <1>1, FailureIsBoolean DEF FsckFindsNoSpace, IInv
  <1>3. UNCHANGED <<itype, ibm, void, cwd, op>> /\ op.at = "idle"
    BY DEF FsckFindsNoSpace
  <1> QED
    BY <1>2, <1>3 DEF IInv

LEMMA RescueKeeps == ASSUME IInv, Rescue, DotsOwn' PROVE IInv'
  <1> DEFINE i == Min(op.lost)
             d == dir[op.par]
             new == IF HasPlace(d) THEN Added(d, Item(RescueName(i), i))
                                   ELSE Grown(d, Item(RescueName(i), i))
  <1>1. op.at = "rescue" /\ op.lost # {} /\ op.lost \subseteq Inodes /\ op.par \in Inodes
    BY DEF Rescue, IInv, Ops
  <1>2. i \in Inodes
    <2>1. op.lost \subseteq Nat
      BY <1>1 DEF Inodes
    <2>2. i \in op.lost
      BY <1>1, <2>1, MinIsLeast
    <2> QED
      BY <1>1, <2>2
  <1>3. /\ HasPlace(d) \/ CanGrow(d)
        /\ dir' = [dir EXCEPT ![op.par] = new]
        /\ op' = [op EXCEPT !.lost = @ \ {i}]
        /\ UNCHANGED <<itype, ibm, void, cwd, err>>
    BY DEF Rescue
  <1> HIDE DEF i
  <1>4. new \in Dirs
    <2>1. i \in Ids /\ RescueName(i) \in AllNames \ UserNames
      BY <1>2, FsckNames DEF Ids
    <2> QED
      BY <1>1, <1>3, <2>1, FsckRecordKeeps
  <1> HIDE DEF new
  <1>5. dir' \in [Inodes -> Dirs]
    BY <1>3, <1>4 DEF IInv
  <1>6. op' \in Ops /\ op'.at = "rescue" /\ op'.par = op.par
    BY <1>1, <1>3 DEF IInv, Ops
  <1> QED
    BY <1>1, <1>3, <1>5, <1>6 DEF IInv

LEMMA RescueEndsKeeps == ASSUME IInv, RescueFails \/ FsckDone, DotsOwn' PROVE IInv'
  BY FailureIsBoolean, NextIsIdle DEF RescueFails, FsckDone, IInv

LEMMA RestartKeeps == ASSUME IInv, Restart, DotsOwn' PROVE IInv'
  BY RootIsInode, NextIsIdle DEF Restart, IInv

LEMMA RefuseKeeps == ASSUME IInv, Refuse, DotsOwn' PROVE IInv'
  <1>1. /\ err' \in BOOLEAN /\ UNCHANGED <<itype, ibm, dir, void, cwd, op>>
        /\ op.at = "idle"
    BY FailureIsBoolean DEF Refuse
  <1> QED
    BY <1>1 DEF IInv

------------------------------------------------------------------------------
(* Where a "." is                                                          *)

LEMMA DotIsNoName ==
    /\ \A n \in Names : n # Dot
    /\ \A i \in Inodes : RescueName(i) # Dot
    /\ LostFound # Dot /\ DotDot # Dot /\ EmptyItem.name # Dot
  BY NamesAssumption, RescueAssumption DEF Dot, DotDot, LostFound, EmptyItem

\* What is received under another name changes no "." of a directory.
LEMMA ReceivedDots ==
    ASSUME NEW d \in Dirs, NEW e, NEW r \in Records, r.name # Dot,
           (HasPlace(d) /\ e = Added(d, r)) \/ e = Grown(d, r)
    PROVE  /\ NoDot(d) => NoDot(e)
           /\ \A i : OwnDots(d, i) => OwnDots(e, i)
  <1>1. d \in Seq(Records)
    BY DEF Dirs
  <1>2. PICK p \in Nat : Receives(d, e, p, r)
    BY <1>1, AddedReceives, GrownReceives
  <1>3. \A k \in DOMAIN e : e[k].name = Dot => k \in DOMAIN d /\ e[k] = d[k]
    BY <1>2, DotIsNoName DEF Receives
  <1> QED
    BY <1>3 DEF NoDot, OwnDots

LEMMA ErasedDots ==
    ASSUME NEW d \in Dirs, NEW p
    PROVE  LET e == [d EXCEPT ![p] = EmptyItem]
           IN  /\ NoDot(d) => NoDot(e)
               /\ \A i : OwnDots(d, i) => OwnDots(e, i)
  <1> DEFINE e == [d EXCEPT ![p] = EmptyItem]
  <1>1. d \in Seq(Records) /\ d = [k \in DOMAIN d |-> d[k]]
    BY LenProperties DEF Dirs
  <1>2. \A k \in DOMAIN e : e[k].name = Dot => k \in DOMAIN d /\ e[k] = d[k]
    BY <1>1, DotIsNoName
  <1> QED
    BY <1>2 DEF NoDot, OwnDots

LEMMA DeletedDots ==
    ASSUME NEW d \in Dirs, NEW r
    PROVE  /\ NoDot(d) => NoDot(Deleted(d, r))
           /\ \A i : OwnDots(d, i) => OwnDots(Deleted(d, r), i)
  BY ErasedDots DEF Deleted

\* A new directory names itself by its ".".
LEMMA NewDirectoryDots ==
    ASSUME NEW i \in Ids, NEW p \in Ids, NEW d \in Dirs, NoDot(d)
    PROVE  OwnDots(NewDirItems(i, p) \o SubSeq(d, DirItems + 1, Len(d)), i)
  <1> DEFINE two == <<Item(Dot, i), Item(DotDot, p)>>
             empty == EmptyItems(DirItems - 2)
             rest == SubSeq(d, DirItems + 1, Len(d))
  <1>1. /\ DirItems \in Nat /\ DirItems - 2 \in Nat /\ DirItems + 1 \in Nat \ {0}
        /\ d \in Seq(Records) /\ Len(d) \in Nat /\ DOMAIN d = 1 .. Len(d)
    BY NamespaceAssumption, LenProperties DEF Dirs
  <1>2. two \in Seq(Records) /\ Len(two) = 2 /\ two[1] = Item(Dot, i) /\ two[2] = Item(DotDot, p)
    BY DEF Item, Records, AllNames, Ids
  <1>3. empty \in Seq(Records) /\ DOMAIN empty = 1 .. DirItems - 2 /\ OwnDots(empty, i)
    <2>1. /\ empty \in Seq(Records) /\ Len(empty) = DirItems - 2
          /\ \A k \in 1 .. DirItems - 2 : empty[k] = EmptyItem
      BY <1>1, EmptyItemsAreRecords
    <2> QED
      BY <2>1, LenProperties, DotIsNoName DEF OwnDots
  <1>4. OwnDots(two, i)
    <2>1. DOMAIN two = 1 .. 2
      BY <1>2, LenProperties
    <2> HIDE DEF two
    <2> QED
      BY <1>2, <2>1, DotIsNoName DEF OwnDots, Item
  <1>5. rest \in Seq(Records) /\ OwnDots(rest, i)
    <2>1. rest \in Dirs /\ Len(rest) = IF DirItems + 1 <= Len(d) THEN Len(d) - (DirItems + 1) + 1 ELSE 0
      BY <1>1, RestKeeps
    <2>2. rest \in Seq(Records) /\ DOMAIN rest = 1 .. Len(rest)
      BY <2>1, LenProperties DEF Dirs
    <2>3. \A k \in 1 .. Len(d) - (DirItems + 1) + 1 : rest[k] = d[DirItems + 1 + k - 1]
      BY <1>1
    <2> HIDE DEF rest
    <2>4. ASSUME NEW k \in DOMAIN rest PROVE rest[k].name # Dot
      <3>1. k \in 1 .. Len(rest)
        BY <2>2
      <3>2. CASE DirItems + 1 <= Len(d)
        <4>1. k \in 1 .. Len(d) - (DirItems + 1) + 1 /\ DirItems + 1 + k - 1 \in 1 .. Len(d)
          BY <1>1, <2>1, <3>1, <3>2
        <4> QED
          BY <1>1, <2>3, <4>1 DEF NoDot
      <3>3. CASE ~(DirItems + 1 <= Len(d))
        BY <2>1, <3>1, <3>3
      <3> QED
        BY <3>2, <3>3
    <2> QED
      BY <2>2, <2>4 DEF OwnDots
  <1>6. ASSUME NEW a \in Seq(Records), NEW b \in Seq(Records), OwnDots(a, i), OwnDots(b, i)
        PROVE  a \o b \in Seq(Records) /\ OwnDots(a \o b, i)
    <2>1. /\ a \o b \in Seq(Records) /\ Len(a \o b) = Len(a) + Len(b)
          /\ \A k \in 1 .. Len(a) + Len(b) :
               (a \o b)[k] = IF k <= Len(a) THEN a[k] ELSE b[k - Len(a)]
      BY ConcatProperties
    <2>2. /\ Len(a) \in Nat /\ Len(b) \in Nat /\ DOMAIN a = 1 .. Len(a) /\ DOMAIN b = 1 .. Len(b)
          /\ DOMAIN (a \o b) = 1 .. Len(a) + Len(b)
      BY <2>1, LenProperties
    <2>3. ASSUME NEW k \in 1 .. Len(a) + Len(b), (a \o b)[k].name = Dot
          PROVE  (a \o b)[k].id = i
      <3>1. CASE k <= Len(a)
        BY <1>6, <2>1, <2>2, <2>3, <3>1 DEF OwnDots
      <3>2. CASE k > Len(a)
        <4>1. k - Len(a) \in DOMAIN b /\ (a \o b)[k] = b[k - Len(a)]
          BY <2>1, <2>2, <3>2
        <4> QED
          BY <1>6, <2>3, <4>1 DEF OwnDots
      <3> QED
        BY <2>2, <3>1, <3>2
    <2> QED
      BY <2>1, <2>2, <2>3 DEF OwnDots
  <1> HIDE DEF two, empty, rest
  <1>7. two \o empty \in Seq(Records) /\ OwnDots(two \o empty, i)
    BY <1>2, <1>3, <1>4, <1>6
  <1>8. OwnDots((two \o empty) \o rest, i)
    BY <1>5, <1>6, <1>7
  <1> QED
    BY <1>8 DEF NewDirItems, two, empty, rest

\* What a step has to keep.
LEMMA DotsChange ==
    ASSUME Without({"mvdot"}) =>
             /\ \A i \in Inodes :
                  OwnDots(dir'[i], i) /\ (ibm'[i] \/ itype'[i] # "dirc" => NoDot(dir'[i]))
             /\ NoDot(op'.kept) /\ (op'.at = "add" => op'.name # Dot)
    PROVE  DotsOwn'
  BY DEF DotsOwn, OwnDots, NoDot

LEMMA NoRecordsNoDot == NoDot(<<>>) /\ \A i : OwnDots(<<>>, i)
  BY DEF NoDot, OwnDots

LEMMA DotsInitially == Init => DotsOwn
  <1> SUFFICES ASSUME Init PROVE DotsOwn
    OBVIOUS
  <1>1. OwnDots(NewDirItems(RootId, RootId), RootId)
    <2> DEFINE e == NewDirItems(RootId, RootId)
    <2>1. e \in Dirs /\ SubSeq(<<>>, DirItems + 1, Len(<<>>)) = <<>>
      <3>1. e \in Dirs
        BY RootIsInode, NoRecordsKeep, NewDirItemsKeep DEF Ids
      <3>2. SubSeq(<<>>, DirItems + 1, Len(<<>>)) \in Dirs /\ Len(SubSeq(<<>>, DirItems + 1, Len(<<>>))) = 0
        BY RestKeeps, NoRecordsKeep, NamespaceAssumption
      <3> QED
        BY <3>1, <3>2, EmptySeq DEF Dirs
    <2>2. e \o <<>> = e
      BY <2>1, ConcatEmptySeq DEF Dirs
    <2> QED
      BY <2>1, <2>2, NewDirectoryDots, NoRecordsKeep, NoRecordsNoDot, RootIsInode DEF Ids
  <1>2. op.kept = <<>> /\ op.at = "idle"
    BY DEF Init, Idle, Begin
  <1>3. ASSUME NEW i \in Inodes
        PROVE  OwnDots(dir[i], i) /\ (ibm[i] \/ itype[i] # "dirc" => NoDot(dir[i]))
    BY <1>1, NoRecordsNoDot DEF Init
  <1> QED
    BY <1>2, <1>3, NoRecordsNoDot DEF DotsOwn

\* The directories stay.
LEMMA SameDots ==
    ASSUME IInv, UNCHANGED dir,
           \A i \in Inodes : ibm'[i] => ibm[i],
           \A i \in Inodes : itype'[i] = itype[i] \/ ibm[i],
           Without({"mvdot"}) => NoDot(op'.kept) /\ (op'.at = "add" => op'.name # Dot)
    PROVE  DotsOwn'
  <1>1. DotsOwn
    BY DEF IInv
  <1> QED
    BY <1>1, DotsChange DEF DotsOwn, OwnDots

\* One directory gets a record under another name, loses one or all, or nothing.
Touches(d, e) ==
    \/ e = d
    \/ e = <<>>
    \/ \E r \in Records : r.name # Dot /\ ((HasPlace(d) /\ e = Added(d, r)) \/ e = Grown(d, r))
    \/ \E r : e = Deleted(d, r)
    \/ \E p : e = [d EXCEPT ![p] = EmptyItem]

LEMMA TouchedDots ==
    ASSUME NEW d \in Dirs, NEW e, Touches(d, e)
    PROVE  /\ NoDot(d) => NoDot(e)
           /\ \A i : OwnDots(d, i) => OwnDots(e, i)
  BY ReceivedDots, DeletedDots, ErasedDots, NoRecordsNoDot DEF Touches

\* Directories are touched; what is freed loses its records.
LEMMA TouchingDots ==
    ASSUME IInv, Without({"mvdot"}) => \A i \in Inodes : Touches(dir[i], dir'[i]),
           \A i \in Inodes : ibm'[i] => ibm[i] \/ dir'[i] = <<>>,
           \A i \in Inodes : itype'[i] = itype[i] \/ dir'[i] = <<>>,
           Without({"mvdot"}) => NoDot(op'.kept) /\ (op'.at = "add" => op'.name # Dot)
    PROVE  DotsOwn'
  <1> SUFFICES ASSUME Without({"mvdot"}), NEW i \in Inodes
               PROVE  OwnDots(dir'[i], i) /\ (ibm'[i] \/ itype'[i] # "dirc" => NoDot(dir'[i]))
    BY DotsChange
  <1>1. /\ dir[i] \in Dirs /\ OwnDots(dir[i], i)
        /\ ibm[i] \/ itype[i] # "dirc" => NoDot(dir[i])
    BY DEF IInv, DotsOwn, OwnDots
  <1> QED
    BY <1>1, TouchedDots, NoRecordsNoDot

LEMMA SameOpDots ==
    ASSUME IInv, UNCHANGED op
    PROVE  Without({"mvdot"}) => NoDot(op'.kept) /\ (op'.at = "add" => op'.name # Dot)
  BY DEF IInv, DotsOwn, NoDot

\* mkdir, cp and incp take an inode that has no "." left.
LEMMA TakingDots ==
    ASSUME IInv, NEW i \in Inodes, NEW cmd, NEW n, NEW p, TakeInode(i, cmd, n, p),
           Without({"mvdot"}) => n # Dot
    PROVE  /\ Without({"mvdot"}) => NoDot(dir[i]) /\ NoDot(op'.kept) /\ op'.name # Dot
           /\ ibm[i] /\ ibm' = [ibm EXCEPT ![i] = FALSE]
  <1>1. ibm[i] /\ ibm' = [ibm EXCEPT ![i] = FALSE]
        /\ op' = [Begin("add", cmd, i, n, p) EXCEPT !.kept = dir[i]]
    BY DEF TakeInode, FirstFree
  <1>2. op'.kept = dir[i] /\ op'.name = n
    BY <1>1 DEF Begin
  <1> QED
    BY <1>1, <1>2 DEF IInv, DotsOwn

LEMMA NewFileDots ==
    ASSUME IInv, NEW i \in Inodes, NEW cmd, NEW n, NEW p, TakeInode(i, cmd, n, p),
           Without({"mvdot"}) => n # Dot,
           itype' = [itype EXCEPT ![i] = "file"], UNCHANGED dir
    PROVE  DotsOwn'
  <1>1. /\ Without({"mvdot"}) => NoDot(op'.kept) /\ op'.name # Dot
        /\ ibm[i] /\ ibm' = [ibm EXCEPT ![i] = FALSE]
    BY TakingDots
  <1>2. \A j \in Inodes : (ibm'[j] => ibm[j]) /\ (itype'[j] = itype[j] \/ ibm[j])
    BY <1>1 DEF IInv
  <1> QED
    BY <1>1, <1>2, SameDots

\* A directory made in a free inode, and directories that are touched.
LEMMA MadeDots ==
    ASSUME IInv, NEW i \in Inodes, NEW p \in Ids, ibm[i],
           ibm' = [ibm EXCEPT ![i] = FALSE], itype' = [itype EXCEPT ![i] = "dirc"],
           i = RootId \/ dir'[i] = NewDirItems(i, p) \o SubSeq(dir[i], DirItems + 1, Len(dir[i])),
           \A j \in Inodes : j # i \/ j = RootId => Touches(dir[j], dir'[j]),
           Without({"mvdot"}) => NoDot(op'.kept) /\ (op'.at = "add" => op'.name # Dot)
    PROVE  DotsOwn'
  <1> SUFFICES ASSUME Without({"mvdot"}), NEW j \in Inodes
               PROVE  OwnDots(dir'[j], j) /\ (ibm'[j] \/ itype'[j] # "dirc" => NoDot(dir'[j]))
    BY DotsChange
  <1>1. /\ dir[j] \in Dirs /\ OwnDots(dir[j], j)
        /\ ibm[j] \/ itype[j] # "dirc" => NoDot(dir[j])
    BY DEF IInv, DotsOwn, OwnDots
  <1>2. j = i => ~ibm'[j] /\ itype'[j] = "dirc"
    BY DEF IInv
  <1>3. j # i => ibm'[j] = ibm[j] /\ itype'[j] = itype[j]
    BY DEF IInv
  <1>4. CASE j = i /\ j # RootId
    BY <1>1, <1>2, <1>4, NewDirectoryDots DEF Ids
  <1>5. CASE j # i \/ j = RootId
    BY <1>1, <1>2, <1>3, <1>5, TouchedDots
  <1> QED
    BY <1>4, <1>5

LEMMA StartMkdirDots == ASSUME IInv, StartMkdir PROVE DotsOwn'
  <1>1. PICK p \in DirPaths, n \in Names :
          \/ \E i \in Inodes : TakeInode(i, "mkdir", n, p) /\ NewDirectory(i, p)
          \/ op' = Begin("add", "mkdir", NoInode, n, p) /\ UNCHANGED <<itype, ibm, dir>>
    BY DEF StartMkdir
  <1>2. n # Dot /\ p \in Ids
    BY DotIsNoName, PathsAreInodes DEF Ids
  <1>3. ASSUME NEW i \in Inodes, TakeInode(i, "mkdir", n, p), NewDirectory(i, p) PROVE DotsOwn'
    <2>1. /\ Without({"mvdot"}) => NoDot(dir[i]) /\ NoDot(op'.kept) /\ op'.name # Dot
          /\ ibm[i] /\ ibm' = [ibm EXCEPT ![i] = FALSE]
      BY <1>2, <1>3, TakingDots
    <2> SUFFICES ASSUME Without({"mvdot"}), NEW j \in Inodes
                 PROVE  OwnDots(dir'[j], j) /\ (ibm'[j] \/ itype'[j] # "dirc" => NoDot(dir'[j]))
      BY <2>1, DotsChange
    <2>2. /\ dir[j] \in Dirs /\ OwnDots(dir[j], j)
          /\ ibm[j] \/ itype[j] # "dirc" => NoDot(dir[j])
      BY DEF IInv, DotsOwn, OwnDots
    <2>3. CASE j = i
      <3>1. /\ ~ibm'[j] /\ itype'[j] = "dirc"
            /\ dir'[j] = NewDirItems(j, p) \o SubSeq(dir[j], DirItems + 1, Len(dir[j]))
        BY <1>3, <2>1, <2>3 DEF NewDirectory, IInv
      <3> QED
        BY <1>2, <2>1, <2>2, <2>3, <3>1, NewDirectoryDots DEF Ids
    <2>4. CASE j # i
      <3>1. ibm'[j] = ibm[j] /\ itype'[j] = itype[j] /\ dir'[j] = dir[j]
        BY <1>3, <2>1, <2>4 DEF NewDirectory, IInv
      <3> QED
        BY <2>2, <3>1
    <2> QED
      BY <2>3, <2>4
  <1>4. CASE op' = Begin("add", "mkdir", NoInode, n, p) /\ UNCHANGED <<itype, ibm, dir>>
    <2>1. NoDot(op'.kept) /\ op'.name # Dot
      BY <1>2, <1>4, NoRecordsNoDot DEF Begin
    <2> QED
      BY <1>4, <2>1, SameDots
  <1> QED
    BY <1>1, <1>3, <1>4

\* A "." that is not moved leads to a directory.
LEMMA FoundDots ==
    ASSUME IInv, Without({"mvdot"}), NEW f \in Found, itype[f.id] = "file"
    PROVE  f.name # Dot
  <1> SUFFICES ASSUME f.name = Dot PROVE FALSE
    OBVIOUS
  <1>1. PICK p \in Walked : f.id = IF Has(dir[p], Dot) THEN IdOf(dir[p], Dot) ELSE NoInode
    BY DEF Found
  <1>2. f.id # NoInode /\ p \in Inodes
    BY PathsAreInodes DEF Found
  <1>3. Has(dir[p], Dot) /\ f.id = IdOf(dir[p], Dot) /\ dir[p] \in Dirs
    BY <1>1, <1>2 DEF IInv
  <1>4. Min(Named(dir[p], Dot)) \in Named(dir[p], Dot)
    <2>1. DOMAIN dir[p] = 1 .. Len(dir[p]) /\ Len(dir[p]) \in Nat
      BY <1>3, LenProperties DEF Dirs
    <2>2. Named(dir[p], Dot) # {} /\ Named(dir[p], Dot) \subseteq Nat
      BY <1>3, <2>1 DEF Has, Named
    <2> QED
      BY <2>2, MinIsLeast
  <1>5. f.id = p /\ ~NoDot(dir[p])
    BY <1>2, <1>3, <1>4 DEF IInv, DotsOwn, OwnDots, IdOf, Named, NoDot
  <1> QED
    BY <1>2, <1>5 DEF IInv, DotsOwn

\* cp copies no ".", which is a directory.
LEMMA StartCopyDots == ASSUME IInv, StartCopy PROVE DotsOwn'
  <1>1. PICK f \in Found : itype[f.id] = "file" /\ \E t \in Dests(f.name), i \in Inodes :
          /\ TakeInode(i, IF f.id \in void THEN "cp0" ELSE "cp", t.name, t.par)
          /\ itype' = [itype EXCEPT ![i] = "file"]
    BY DEF StartCopy
  <1>2. PICK t \in Dests(f.name), i \in Inodes :
          /\ TakeInode(i, IF f.id \in void THEN "cp0" ELSE "cp", t.name, t.par)
          /\ itype' = [itype EXCEPT ![i] = "file"]
    BY <1>1
  <1>3. ASSUME Without({"mvdot"}) PROVE t.name # Dot
    <2>1. f.name # Dot
      BY <1>1, <1>3, FoundDots
    <2> QED
      BY <2>1, DotIsNoName DEF Dests
  <1>4. UNCHANGED dir
    BY DEF StartCopy
  <1>5. PICK cmd : TakeInode(i, cmd, t.name, t.par)
    BY <1>2
  <1> QED
    BY <1>2, <1>3, <1>4, <1>5, NewFileDots

LEMMA StartIncpDots == ASSUME IInv, StartIncp PROVE DotsOwn'
  <1>1. PICK t \in NewFilePaths, n \in Names, cmd \in {"incp", "incp0"} :
          \E i \in Inodes : /\ TakeInode(i, cmd, n, t.par)
                            /\ itype' = [itype EXCEPT ![i] = "file"]
    BY DEF StartIncp
  <1>2. UNCHANGED dir
    BY DEF StartIncp
  <1> QED
    BY <1>1, <1>2, DotIsNoName, NewFileDots

LEMMA IncpNowhereDots == ASSUME IInv, IncpNowhere PROVE DotsOwn'
  <1>1. PICK i \in Inodes : /\ ibm[i] /\ ibm' = [ibm EXCEPT ![i] = FALSE]
                            /\ itype' = [itype EXCEPT ![i] = "file"]
    BY DEF IncpNowhere, FirstFree
  <1>2. \A j \in Inodes : (ibm'[j] => ibm[j]) /\ (itype'[j] = itype[j] \/ ibm[j])
    BY <1>1 DEF IInv
  <1>3. UNCHANGED <<dir, op>> /\ op.at = "idle"
    BY DEF IncpNowhere
  <1> QED
    BY <1>2, <1>3, SameDots, SameOpDots

LEMMA IncpOverDots == ASSUME IInv, IncpOver PROVE DotsOwn'
  <1>1. PICK f \in Found : \E d \in {dir[f.id], <<>>} : dir' = [dir EXCEPT ![f.id] = d]
    BY DEF IncpOver
  <1>2. \A j \in Inodes : Touches(dir[j], dir'[j])
    BY <1>1 DEF Touches, IInv
  <1>3. UNCHANGED <<itype, ibm, op>> /\ op.at = "idle"
    BY DEF IncpOver
  <1> QED
    BY <1>2, <1>3, TouchingDots, SameOpDots

LEMMA IdleDots == NoDot(Idle.kept) /\ Idle.at = "idle"
  BY NoRecordsNoDot DEF Idle, Begin

\* add_to_parent() writes no ".", and a parent that is the new inode has none.
LEMMA NewItemDots ==
    ASSUME IInv, op.at = "add", NEW e,
           (HasPlace(ParentDir) /\ e = Added(ParentDir, NewItem)) \/ e = Grown(ParentDir, NewItem),
           Without({"mvdot"})
    PROVE  /\ op.par \in Inodes
           /\ OwnDots(e, op.par)
           /\ ibm[op.par] \/ itype[op.par] # "dirc" \/ op.par = op.child => NoDot(e)
  <1>1. op.par \in Inodes /\ op \in Ops /\ op.name # Dot
    BY DEF IInv, DotsOwn
  <1>2. NewItem \in Records /\ NewItem.name # Dot
    BY <1>1 DEF NewItem, Item, Records, Ops
  <1>3. /\ ParentDir \in Dirs /\ OwnDots(ParentDir, op.par)
        /\ ibm[op.par] \/ itype[op.par] # "dirc" \/ op.par = op.child => NoDot(ParentDir)
    BY <1>1 DEF ParentDir, IInv, DotsOwn, OwnDots, NoDot, Ops
  <1> QED
    BY <1>1, <1>2, <1>3, ReceivedDots

LEMMA AddRecordDots == ASSUME IInv, AddRecord PROVE DotsOwn'
  <1> SUFFICES ASSUME Without({"mvdot"}), NEW j \in Inodes
               PROVE  OwnDots(dir'[j], j) /\ (ibm'[j] \/ itype'[j] # "dirc" => NoDot(dir'[j]))
    BY IdleDots, DotsChange DEF AddRecord
  <1>1. /\ dir[j] \in Dirs /\ OwnDots(dir[j], j)
        /\ ibm[j] \/ itype[j] # "dirc" => NoDot(dir[j])
    BY DEF IInv, DotsOwn, OwnDots
  <1>2. ibm' = ibm /\ op.at = "add"
    BY DEF AddRecord
  <1>3. CASE AddedInPlace
    <2>1. itype' = itype /\ HasPlace(ParentDir)
      BY <1>3 DEF AddedInPlace
    <2>2. CASE dir' = [dir EXCEPT ![op.par] = Added(ParentDir, NewItem)]
      <3>1. /\ OwnDots(Added(ParentDir, NewItem), op.par)
            /\ ibm[op.par] \/ itype[op.par] # "dirc" => NoDot(Added(ParentDir, NewItem))
        BY <1>2, <2>1, NewItemDots
      <3> QED
        BY <1>1, <1>2, <2>1, <2>2, <3>1 DEF IInv
    <2> QED
      BY <1>1, <1>2, <1>3, <2>1, <2>2 DEF AddedInPlace
  <1>4. CASE AddedInNewBlock
    <2>1. /\ OwnDots(Grown(ParentDir, NewItem), op.par)
          /\ ibm[op.par] \/ itype[op.par] # "dirc" \/ op.par = op.child
               => NoDot(Grown(ParentDir, NewItem))
      BY <1>2, NewItemDots
    <2>2. j # op.par => itype'[j] = itype[j] /\ dir'[j] = dir[j]
      BY <1>4 DEF AddedInNewBlock, IInv
    <2>3. CASE op.cmd # "mkdir" /\ op.par = op.child
      BY <1>1, <1>2, <1>4, <2>3 DEF AddedInNewBlock
    <2>4. CASE ~(op.cmd # "mkdir" /\ op.par = op.child)
      <3>1. dir' = [dir EXCEPT ![op.par] = Grown(ParentDir, NewItem)]
        BY <1>4, <2>4 DEF AddedInNewBlock
      <3>2. op.par = op.child \/ itype' = itype
        BY <1>4 DEF AddedInNewBlock
      <3> QED
        BY <1>1, <1>2, <2>1, <2>2, <3>1, <3>2 DEF IInv
    <2> QED
      BY <2>3, <2>4
  <1> QED
    BY <1>3, <1>4 DEF AddRecord

LEMMA CopyNothingDots == ASSUME IInv, CopyNothing PROVE DotsOwn'
  <1> DEFINE new == IF HasPlace(ParentDir) THEN Added(ParentDir, NewItem)
                                           ELSE Grown(ParentDir, NewItem)
  <1> SUFFICES ASSUME Without({"mvdot"}), NEW j \in Inodes
               PROVE  OwnDots(dir'[j], j) /\ (ibm'[j] \/ itype'[j] # "dirc" => NoDot(dir'[j]))
    BY IdleDots, DotsChange DEF CopyNothing
  <1>1. /\ dir[j] \in Dirs /\ OwnDots(dir[j], j)
        /\ ibm[j] \/ itype[j] # "dirc" => NoDot(dir[j])
    BY DEF IInv, DotsOwn, OwnDots
  <1>2. /\ op.at = "add" /\ dir' = [dir EXCEPT ![op.par] = new, ![op.child] = <<>>]
        /\ itype' = [itype EXCEPT ![op.child] = "free"] /\ ibm' = [ibm EXCEPT ![op.child] = TRUE]
    BY DEF CopyNothing
  <1>3. /\ OwnDots(new, op.par)
        /\ ibm[op.par] \/ itype[op.par] # "dirc" => NoDot(new)
    BY <1>2, NewItemDots
  <1> HIDE DEF new
  <1>4. CASE j = op.child
    <2>1. dir'[j] = <<>>
      BY <1>2, <1>4 DEF IInv
    <2> QED
      BY <2>1, NoRecordsNoDot
  <1>5. CASE j # op.child
    <2>1. itype'[j] = itype[j] /\ ibm'[j] = ibm[j] /\ dir'[j] = IF j = op.par THEN new ELSE dir[j]
      BY <1>2, <1>5 DEF IInv
    <2> QED
      BY <1>1, <1>3, <2>1
  <1> QED
    BY <1>4, <1>5

LEMMA FreedDots ==
    ASSUME IInv, NEW i \in Inodes, Freed(i),
           Without({"mvdot"}) => NoDot(op'.kept) /\ (op'.at = "add" => op'.name # Dot)
    PROVE  DotsOwn'
  <1>1. \A j \in Inodes :
          /\ Touches(dir[j], dir'[j])
          /\ ibm'[j] => ibm[j] \/ dir'[j] = <<>>
          /\ itype'[j] = itype[j] \/ dir'[j] = <<>>
    BY DEF Freed, IInv, Touches
  <1> QED
    BY <1>1, TouchingDots

LEMMA AddFailsDots == ASSUME IInv, AddFails PROVE DotsOwn'
  <1>1. op' = Idle
    BY DEF AddFails
  <1>2. CASE UNCHANGED <<itype, ibm, dir, void>>
    BY <1>1, <1>2, IdleDots, SameDots
  <1>3. CASE op.child # NoInode /\ Freed(op.child)
    <2>1. op.child \in Inodes
      BY <1>3 DEF IInv, Ops, Ids
    <2> QED
      BY <1>1, <1>3, <2>1, IdleDots, FreedDots
  <1> QED
    BY <1>2, <1>3 DEF AddFails

LEMMA RemovingDots == ASSUME IInv, StartRm \/ StartRmdir PROVE DotsOwn'
  <1>1. PICK f \in Found, cmd \in {"rm", "rmdir"} :
          /\ dir' = [dir EXCEPT ![f.par] = Deleted(@, Item(f.name, f.id))]
          /\ op' = Begin("free", cmd, f.id, "", NoInode)
    BY DEF StartRm, StartRmdir
  <1>2. \A j \in Inodes : Touches(dir[j], dir'[j])
    BY <1>1 DEF Touches, IInv
  <1>3. UNCHANGED <<itype, ibm>>
    BY DEF StartRm, StartRmdir
  <1>4. NoDot(op'.kept) /\ op'.at = "free"
    BY <1>1, NoRecordsNoDot DEF Begin
  <1> QED
    BY <1>2, <1>3, <1>4, TouchingDots

LEMMA FreeInodeDots == ASSUME IInv, FreeInode PROVE DotsOwn'
  <1>1. op.child \in Inodes
    BY DEF FreeInode, IInv
  <1> QED
    BY <1>1, IdleDots, FreedDots DEF FreeInode

LEMMA StartMvDots == ASSUME IInv, StartMv PROVE DotsOwn'
  <1>1. PICK f \in Found : MayMove(f) /\ \E t \in Dests(f.name) :
          /\ \/ /\ HasPlace(dir[t.par])
                /\ dir' = [dir EXCEPT ![t.par] = Added(@, Item(t.name, f.id))]
             \/ dir' = [dir EXCEPT ![t.par] = Grown(@, Item(t.name, f.id))]
          /\ op' = Begin("unlink", "mv", f.id, f.name, f.par)
    BY DEF StartMv
  <1>2. PICK t \in Dests(f.name) :
          /\ \/ /\ HasPlace(dir[t.par])
                /\ dir' = [dir EXCEPT ![t.par] = Added(@, Item(t.name, f.id))]
             \/ dir' = [dir EXCEPT ![t.par] = Grown(@, Item(t.name, f.id))]
          /\ op' = Begin("unlink", "mv", f.id, f.name, f.par)
    BY <1>1
  <1>3. f.id \in Inodes /\ t.par \in Inodes /\ t.name \in AllNames
    BY FoundItems, DestItems
  <1>4. ASSUME Without({"mvdot"}) PROVE \A j \in Inodes : Touches(dir[j], dir'[j])
    <2>1. f.name # Dot
      BY <1>1, <1>4 DEF MayMove, Without
    <2>2. t.name # Dot
      BY <2>1, DotIsNoName DEF Dests
    <2>3. Item(t.name, f.id) \in Records /\ Item(t.name, f.id).name # Dot
      BY <1>3, <2>2 DEF Item, Records, Ids
    <2> QED
      BY <1>2, <1>3, <2>3 DEF Touches, IInv
  <1>5. UNCHANGED <<itype, ibm>>
    BY DEF StartMv
  <1>6. NoDot(op'.kept) /\ op'.at = "unlink"
    BY <1>2, NoRecordsNoDot DEF Begin
  <1> QED
    BY <1>4, <1>5, <1>6, TouchingDots

LEMMA UnlinkDots == ASSUME IInv, Unlink PROVE DotsOwn'
  <1>1. \A j \in Inodes : Touches(dir[j], dir'[j])
    BY DEF Unlink, Touches, IInv
  <1> QED
    BY <1>1, IdleDots, TouchingDots DEF Unlink

LEMMA CorruptDots == ASSUME IInv, Corrupt PROVE DotsOwn'
  <1>1. \A j \in Inodes : Touches(dir[j], dir'[j])
    BY DEF Corrupt, Touches
  <1>2. UNCHANGED <<itype, ibm, op>> /\ op.at = "idle"
    BY DEF Corrupt
  <1> QED
    BY <1>1, <1>2, TouchingDots, SameOpDots

LEMMA FsckFindsLostDots == ASSUME IInv, FsckFindsLost PROVE DotsOwn'
  <1>1. CASE \E junk \in Harmless :
                op' = [Begin("rescue", "fsck", NoInode, "", IdOf(dir[cwd], LostFound))
                         EXCEPT !.lost = TrulyLost(junk)]
             /\ UNCHANGED <<itype, ibm, dir, void, cwd, err>>
    <2>1. NoDot(op'.kept) /\ op'.at = "rescue"
      BY <1>1, NoRecordsNoDot DEF Begin
    <2> QED
      BY <1>1, <2>1, SameDots
  <1>2. ASSUME NEW i \in Inodes, NEW junk \in Harmless, FirstFree(i),
               ibm' = [ibm EXCEPT ![i] = FALSE],
               itype' = [itype EXCEPT ![i] = "dirc"],
               HasPlace(dir[RootId]) \/ CanGrow(dir[RootId]),
               dir' = [dir EXCEPT ![i] = LostFoundDir(i), ![RootId] = LostFoundInRoot(i)],
               op' = [Begin("rescue", "fsck", NoInode, "", i) EXCEPT !.lost = TrulyLost(junk)]
        PROVE  DotsOwn'
    <2>1. NoDot(op'.kept) /\ op'.at = "rescue"
      BY <1>2, NoRecordsNoDot DEF Begin
    <2>2. RootId \in Inodes /\ RootId \in Ids /\ i \in Ids
      BY RootIsInode DEF Ids
    <2>3. Item(LostFound, i) \in Records /\ Item(LostFound, i).name # Dot
      BY <2>2, FsckNames, DotIsNoName DEF Item, Records
    <2>4. Touches(dir[RootId], LostFoundInRoot(i))
      BY <2>3 DEF Touches, LostFoundInRoot
    <2>5. \A j \in Inodes : dir'[j] = IF j = RootId THEN LostFoundInRoot(i)
                                      ELSE IF j = i THEN LostFoundDir(i) ELSE dir[j]
      BY <1>2 DEF IInv
    <2>6. \A j \in Inodes : j # i \/ j = RootId => Touches(dir[j], dir'[j])
      BY <2>2, <2>4, <2>5 DEF Touches
    <2>7. i = RootId \/ dir'[i] = NewDirItems(i, RootId) \o SubSeq(dir[i], DirItems + 1, Len(dir[i]))
      BY <2>5 DEF LostFoundDir
    <2>8. ibm[i]
      BY <1>2 DEF FirstFree
    <2> QED
      BY <1>2, <2>1, <2>2, <2>6, <2>7, <2>8, MadeDots
  <1> QED
    BY <1>1, <1>2, FindingLost, Zenon

LEMMA FsckFindsNoSpaceDots == ASSUME IInv, FsckFindsNoSpace PROVE DotsOwn'
  <1>1. Item(LostFound, NoInode) \in Records /\ Item(LostFound, NoInode).name # Dot
    BY FsckNames, DotIsNoName DEF Item, Records, Ids
  <1>2. HasPlace(dir[RootId]) /\ dir' = [dir EXCEPT ![RootId] = Added(@, Item(LostFound, NoInode))]
    BY DEF FsckFindsNoSpace
  <1>3. \A j \in Inodes : Touches(dir[j], dir'[j])
    BY <1>1, <1>2 DEF Touches, IInv
  <1>4. UNCHANGED <<itype, ibm, op>> /\ op.at = "idle"
    BY DEF FsckFindsNoSpace
  <1> QED
    BY <1>3, <1>4, TouchingDots, SameOpDots

LEMMA RescueDots == ASSUME IInv, Rescue PROVE DotsOwn'
  <1> DEFINE i == Min(op.lost)
  <1>1. /\ op.at = "rescue" /\ op.lost # {} /\ op.lost \subseteq Inodes /\ op.par \in Inodes
    BY DEF Rescue, IInv, Ops
  <1>2. i \in Inodes
    <2>1. op.lost \subseteq Nat
      BY <1>1 DEF Inodes
    <2> QED
      BY <1>1, <2>1, MinIsLeast
  <1>3. /\ dir' = [dir EXCEPT ![op.par] =
                     IF HasPlace(dir[op.par]) THEN Added(dir[op.par], Item(RescueName(i), i))
                                              ELSE Grown(dir[op.par], Item(RescueName(i), i))]
        /\ op' = [op EXCEPT !.lost = @ \ {i}]
        /\ UNCHANGED <<itype, ibm>>
    BY DEF Rescue
  <1> HIDE DEF i
  <1>4. Item(RescueName(i), i) \in Records /\ Item(RescueName(i), i).name # Dot
    BY <1>2, FsckNames, DotIsNoName DEF Item, Records, Ids
  <1>5. \A j \in Inodes : Touches(dir[j], dir'[j])
    BY <1>3, <1>4 DEF Touches, IInv
  <1>6. op'.kept = op.kept /\ op'.at = "rescue"
    BY <1>1, <1>3 DEF IInv, Ops
  <1>7. Without({"mvdot"}) => NoDot(op'.kept)
    BY <1>6 DEF IInv, DotsOwn, NoDot
  <1> QED
    BY <1>3, <1>5, <1>6, <1>7, TouchingDots

\* Steps that change no inode and no record, and hold nothing new.
LEMMA OtherDots ==
    ASSUME IInv,
           Cd \/ FsckFindsNothing \/ RescueFails \/ FsckDone \/ Restart \/ Refuse \/ UNCHANGED vars
    PROVE  DotsOwn'
  <1>1. UNCHANGED <<itype, ibm, dir>> /\ (op' = op \/ op' = Idle)
    BY DEF Cd, FsckFindsNothing, RescueFails, FsckDone, Restart, Refuse, vars
  <1> QED
    BY <1>1, IdleDots, SameDots, SameOpDots

LEMMA StepKeepsDots == IInv /\ [Next]_vars => DotsOwn'
  <1> SUFFICES ASSUME IInv, [Next]_vars PROVE DotsOwn'
    OBVIOUS
  <1>1. CASE StartMkdir \/ StartCopy \/ StartIncp \/ IncpNowhere \/ IncpOver
    BY <1>1, StartMkdirDots, StartCopyDots, StartIncpDots, IncpNowhereDots, IncpOverDots
  <1>2. CASE AddRecord \/ CopyNothing \/ AddFails
    BY <1>2, AddRecordDots, CopyNothingDots, AddFailsDots
  <1>3. CASE StartRm \/ StartRmdir \/ FreeInode \/ StartMv \/ Unlink \/ Corrupt
    BY <1>3, RemovingDots, FreeInodeDots, StartMvDots, UnlinkDots, CorruptDots
  <1>4. CASE FsckFindsLost \/ FsckFindsNoSpace \/ Rescue
    BY <1>4, FsckFindsLostDots, FsckFindsNoSpaceDots, RescueDots
  <1>5. CASE \/ Cd \/ FsckFindsNothing \/ RescueFails \/ FsckDone \/ FsckOverflows
             \/ FsckMisreads \/ Kill \/ Refuse \/ UNCHANGED vars
    BY <1>5, OtherDots DEF FsckOverflows, FsckMisreads, Kill
  <1> QED
    BY <1>1, <1>2, <1>3, <1>4, <1>5 DEF Next

------------------------------------------------------------------------------
(* Theorems                                                                *)

LEMMA IInvInitially == Init => IInv
  <1> SUFFICES ASSUME Init PROVE IInv
    OBVIOUS
  <1>1. dir \in [Inodes -> Dirs]
    BY RootIsInode, NoRecordsKeep, NewDirItemsKeep DEF Init, Ids
  <1>2. op \in Ops /\ op.at = "idle"
    BY IdleIsOp DEF Init
  <1> QED
    BY <1>1, <1>2, DotsInitially, RootIsInode DEF Init, IInv

LEMMA StepKeeps == IInv /\ [Next]_vars => IInv'
  <1> SUFFICES ASSUME IInv, [Next]_vars PROVE IInv'
    OBVIOUS
  <1>0. DotsOwn'
    BY StepKeepsDots
  <1>1. CASE StartMkdir BY <1>0, <1>1, StartMkdirKeeps
  <1>2. CASE StartCopy BY <1>0, <1>2, StartCopyKeeps
  <1>3. CASE StartIncp BY <1>0, <1>3, StartIncpKeeps
  <1>4. CASE IncpNowhere BY <1>0, <1>4, IncpNowhereKeeps
  <1>5. CASE IncpOver BY <1>0, <1>5, IncpOverKeeps
  <1>6. CASE AddRecord BY <1>0, <1>6, AddRecordKeeps
  <1>7. CASE CopyNothing BY <1>0, <1>7, CopyNothingKeeps
  <1>8. CASE AddFails BY <1>0, <1>8, AddFailsKeeps
  <1>9. CASE StartRm BY <1>0, <1>9, StartRmKeeps
  <1>10. CASE StartRmdir BY <1>0, <1>10, StartRmdirKeeps
  <1>11. CASE FreeInode BY <1>0, <1>11, FreeInodeKeeps
  <1>12. CASE StartMv BY <1>0, <1>12, StartMvKeeps
  <1>13. CASE Unlink BY <1>0, <1>13, UnlinkKeeps
  <1>14. CASE Cd BY <1>0, <1>14, CdKeeps
  <1>15. CASE Corrupt BY <1>0, <1>15, CorruptKeeps
  <1>16. CASE FsckFindsNothing BY <1>0, <1>16, FsckFindsNothingKeeps
  <1>17. CASE FsckFindsLost BY <1>0, <1>17, FsckFindsLostKeeps
  <1>18. CASE FsckFindsNoSpace BY <1>0, <1>18, FsckFindsNoSpaceKeeps
  <1>19. CASE Rescue BY <1>0, <1>19, RescueKeeps
  <1>20. CASE RescueFails \/ FsckDone BY <1>0, <1>20, RescueEndsKeeps
  <1>21. CASE FsckOverflows \/ FsckMisreads \/ Kill
    BY <1>0, <1>21, RestartKeeps DEF FsckOverflows, FsckMisreads, Kill
  <1>22. CASE Refuse BY <1>0, <1>22, RefuseKeeps
  <1>23. CASE UNCHANGED vars
    BY <1>0, <1>23 DEF IInv, vars, ParentDir
  <1> QED
    BY <1>1, <1>2, <1>3, <1>4, <1>5, <1>6, <1>7, <1>8, <1>9, <1>10, <1>11, <1>12, <1>13,
       <1>14, <1>15, <1>16, <1>17, <1>18, <1>19, <1>20, <1>21, <1>22, <1>23 DEF Next

\* The inductive invariant of the directory records: a name that is to be written
\* is not in the directory it is written to, as the command holds it.
THEOREM RecordsSafe == Spec => []IInv
  BY IInvInitially, StepKeeps, PTL DEF Spec

\* Types: directories stay within their links, every record names an inode or
\* none, and the commands hold inodes.
THEOREM RecordTypes == Spec => []TypeOK
  <1>1. IInv => TypeOK
    <2> SUFFICES ASSUME IInv PROVE TypeOK
      OBVIOUS
    <2>1. ASSUME NEW i \in Inodes
          PROVE  /\ Len(dir[i]) <= MaxItems
                 /\ \A k \in DOMAIN dir[i] : dir[i][k].id \in Ids
      <3>1. dir[i] \in Seq(Records) /\ Len(dir[i]) <= MaxItems
        BY DEF IInv, Dirs
      <3>2. \A k \in DOMAIN dir[i] : dir[i][k] \in Records
        BY <3>1, LenProperties, ElementOfSeq
      <3> QED
        BY <3>1, <3>2 DEF Records
    <2>2. op.child \in Ids /\ op.par \in Ids
      BY DEF IInv, Ops
    <2> QED
      BY <2>1, <2>2 DEF TypeOK, IInv, Ids
  <1> QED
    BY <1>1, RecordsSafe, PTL

\* The checks of mkdir, cp, incp and mv are enough to keep the user's names
\* unique in every directory, through fsck, 'corrupt', kills and failures, as
\* long as no "." is moved.
THEOREM UserNamesUnique == Spec => []NamesUnique
  <1>1. IInv => NamesUnique
    <2> SUFFICES ASSUME IInv, Without({"mvdot"}), NEW i \in Inodes, NEW k \in Ordinary(dir[i]),
                        NEW m \in Ordinary(dir[i]),
                        dir[i][k].name \in Names \ {LostFound}, dir[i][k].name = dir[i][m].name
                 PROVE  k = m
      BY DEF NamesUnique
    <2>1. Unique(dir[i])
      BY DEF IInv, Dirs
    <2>2. dir[i][k].name \in UserNames
      BY DEF Ordinary, UserNames
    <2> QED
      BY <2>1, <2>2 DEF Unique
  <1> QED
    BY <1>1, RecordsSafe, PTL
=============================================================================
