---------------------------- MODULE StreamProofs ----------------------------
(***************************************************************************)
(* What holds of Stream for every size of blocks, files and link trees:    *)
(* outcp writes what was stored, byte by byte, and nothing that other      *)
(* files left in the blocks, whatever a kill leaves of a removal or of a   *)
(* shortening.                                                             *)
(***************************************************************************)
EXTENDS Stream, SpaceProofs

------------------------------------------------------------------------------
(* Blocks of a file.                                                        *)

LEMMA Sizes == BlockSize \in Nat /\ BlockSize > 0 /\ BlockCount \in Nat /\ Capacity \in Nat
  BY StreamAssumption, SpaceAssumption DEF Capacity

LEMMA CountBlocksIs ==
    ASSUME NEW b \in Nat
    PROVE  /\ CountBlocks(b) \in Nat
           /\ CountBlocks(0) = 0
           /\ \A k \in Nat : k < CountBlocks(b) <=> k * BlockSize < b
           /\ b % BlockSize = 0 => CountBlocks(b) * BlockSize = b
  <1> DEFINE x == b + BlockSize - 1
             q == x \div BlockSize
             r == x % BlockSize
  <1>0. BlockSize \in Nat /\ BlockSize > 0
    BY Sizes
  <1>1. q \in Int /\ r \in 0 .. BlockSize - 1 /\ x = BlockSize * q + r
    BY <1>0, DivMod
  <1>2. CountBlocks(b) = q
    BY DEF CountBlocks
  <1> HIDE DEF q, r
  <1>3. q >= 0
    <2> SUFFICES ASSUME q <= -1 PROVE FALSE
      BY <1>1
    <2>1. BlockSize * q <= -BlockSize
      BY <1>0, <1>1, SMT
    <2> QED
      BY <1>0, <1>1, <2>1
  <1>4. CountBlocks(0) = 0
    <2>1. (BlockSize - 1) \div BlockSize = 0
      BY <1>0, SMT
    <2>2. 0 + BlockSize - 1 = BlockSize - 1
      BY <1>0
    <2> QED
      BY <2>1, <2>2, Zenon DEF CountBlocks
  <1>5. ASSUME NEW k \in Nat PROVE k < q <=> k * BlockSize < b
    <2>1. CASE k < q
      <3>1. (k + 1) * BlockSize <= q * BlockSize
        BY <1>0, <1>1, <1>3, <2>1, MulMonotone
      <3>2. (k + 1) * BlockSize = k * BlockSize + BlockSize /\ q * BlockSize = BlockSize * q
        BY <1>0, <1>1
      <3>3. k * BlockSize \in Int /\ BlockSize * q \in Int
        BY <1>0, <1>1
      <3> QED
        BY <1>0, <1>1, <2>1, <3>1, <3>2, <3>3
    <2>2. CASE k >= q
      <3>1. q * BlockSize <= k * BlockSize
        BY <1>0, <1>1, <1>3, <2>2, MulMonotone
      <3>2. q * BlockSize = BlockSize * q /\ k * BlockSize \in Int /\ BlockSize * q \in Int
        BY <1>0, <1>1
      <3> QED
        BY <1>0, <1>1, <2>2, <3>1, <3>2
    <2> QED
      BY <1>1, <2>1, <2>2
  <1>6. ASSUME b % BlockSize = 0 PROVE q * BlockSize = b
    <2>1. PICK d \in Int : b = BlockSize * d
      <3>1. b \div BlockSize \in Int /\ b = BlockSize * (b \div BlockSize) + (b % BlockSize)
        BY <1>0, DivMod
      <3> QED
        BY <1>0, <1>6, <3>1
    <2>2. BlockSize - 1 \in 0 .. BlockSize - 1
      BY <1>0
    <2>3. r = BlockSize * (d - q) + (BlockSize - 1)
      <3>1. BlockSize * (d - q) = BlockSize * d - BlockSize * q
        BY <1>0, <1>1, <2>1
      <3>2. BlockSize * d \in Int /\ BlockSize * q \in Int
        BY <1>0, <1>1, <2>1
      <3> QED
        BY <1>0, <1>1, <2>1, <3>1, <3>2
    <2>4. r = BlockSize - 1
      <3> d - q \in Int
        BY <1>1, <2>1
      <3> QED
        BY <1>0, <1>1, <2>2, <2>3, RemainderUnique
    <2>5. BlockSize * q = q * BlockSize /\ BlockSize * q \in Int
      BY <1>0, <1>1
    <2> QED
      BY <1>0, <1>1, <2>4, <2>5
  <1> QED
    BY <1>1, <1>2, <1>3, <1>4, <1>5, <1>6

LEMMA MinOfTwo ==
    ASSUME NEW a \in Nat, NEW b \in Nat
    PROVE  Min({a, b}) = IF a <= b THEN a ELSE b
  <1> DEFINE m == IF a <= b THEN a ELSE b
             P(x) == x \in {a, b} /\ \A y \in {a, b} : x <= y
  <1>1. P(m)
    OBVIOUS
  <1>2. \A x : P(x) => x = m
    OBVIOUS
  <1>3. P(CHOOSE x : P(x))
    BY <1>1, Zenon
  <1>4. Min({a, b}) = CHOOSE x : P(x)
    BY Zenon DEF Min
  <1> QED
    BY <1>2, <1>3, <1>4, Zenon

LEMMA SubSeqIs ==
    ASSUME NEW S, NEW s \in Seq(S), NEW d \in Nat, NEW m \in Nat, m <= Len(s)
    PROVE  /\ SubSeq(s, d + 1, m) \in Seq(S)
           /\ Len(SubSeq(s, d + 1, m)) = (IF d + 1 <= m THEN m - d ELSE 0)
           /\ \A p \in 1 .. Len(SubSeq(s, d + 1, m)) : SubSeq(s, d + 1, m)[p] = s[d + p]
  OBVIOUS


\* A byte of a content.
ByteOf(c, p) == IF p = c.zero THEN Zero ELSE <<c.version, p>>

\* What a fread() of the k-th block returns.
LEMMA ReadIs ==
    ASSUME NEW c, c.size \in Nat, NEW k \in Nat, k > 0
    PROVE  LET r == Read(c, k)
           IN  /\ r \in Seq({c.version, 0} \X Nat)
               /\ Len(r) \in 0 .. BlockSize
               /\ Len(r) = BlockSize <=> k * BlockSize <= c.size
               /\ Len(r) < BlockSize => c.size = (k - 1) * BlockSize + Len(r)
                                        \/ (c.size <= (k - 1) * BlockSize /\ Len(r) = 0)
               /\ \A p \in 1 .. Len(r) : r[p] = ByteOf(c, (k - 1) * BlockSize + p)
  <1> DEFINE d == (k - 1) * BlockSize
             m == Min({k * BlockSize, c.size})
             C == Content(c)
             S == {c.version, 0} \X Nat
  <1>1. d \in Nat /\ k * BlockSize = d + BlockSize /\ BlockSize \in Nat /\ BlockSize > 0
    BY Sizes
  <1>2. m \in Nat /\ m = IF d + BlockSize <= c.size THEN d + BlockSize ELSE c.size
    BY <1>1, MinOfTwo
  <1>3. /\ C \in Seq(S) /\ Len(C) = c.size
        /\ \A p \in Nat : p > 0 /\ p <= c.size => C[p] = ByteOf(c, p)
    <2>1. C = [p \in 1 .. c.size |-> ByteOf(c, p)]
      BY DEF Content, ByteOf
    <2>2. \A p \in Nat : ByteOf(c, p) \in S
      BY DEF ByteOf, Zero
    <2> HIDE DEF C, S
    <2>3. \A p \in 1 .. c.size : ByteOf(c, p) \in S
      BY <2>2
    <2>4. C \in [1 .. c.size -> S]
      BY <2>1, <2>3
    <2>5. C \in Seq(S) /\ Len(C) = c.size
      BY <2>1, <2>4
    <2> QED
      BY <2>1, <2>5
  <1>4. Read(c, k) = SubSeq(C, d + 1, m)
    BY DEF Read
  <1> HIDE DEF d, m, C, S
  <1>0. m <= Len(C)
    BY <1>1, <1>2, <1>3
  <1>00. C \in Seq(S) /\ d \in Nat /\ m \in Nat
    BY <1>1, <1>2, <1>3
  <1>5. Len(SubSeq(C, d + 1, m)) = (IF d + 1 <= m THEN m - d ELSE 0)
    BY ONLY <1>0, <1>00, SubSeqIs
  <1>6. SubSeq(C, d + 1, m) \in Seq(S)
    BY ONLY <1>0, <1>00, SubSeqIs
  <1>7. \A p \in 1 .. Len(SubSeq(C, d + 1, m)) : SubSeq(C, d + 1, m)[p] = C[d + p]
    BY ONLY <1>0, <1>00, SubSeqIs
  <1>8. ASSUME NEW p \in 1 .. Len(SubSeq(C, d + 1, m))
        PROVE  SubSeq(C, d + 1, m)[p] = ByteOf(c, d + p)
    <2>1. d + p \in Nat /\ d + p > 0 /\ d + p <= c.size
      BY <1>1, <1>2, <1>5
    <2> QED
      BY <1>3, <1>7, <2>1
  <1>9. Len(SubSeq(C, d + 1, m)) \in 0 .. BlockSize
    BY <1>1, <1>2, <1>5
  <1>10. Len(SubSeq(C, d + 1, m)) = BlockSize <=> d + BlockSize <= c.size
    BY <1>1, <1>2, <1>5
  <1>11. Len(SubSeq(C, d + 1, m)) < BlockSize =>
            c.size = d + Len(SubSeq(C, d + 1, m))
            \/ (c.size <= d /\ Len(SubSeq(C, d + 1, m)) = 0)
    BY <1>1, <1>2, <1>5
  <1> QED
    BY <1>1, <1>4, <1>6, <1>8, <1>9, <1>10, <1>11 DEF d, S


------------------------------------------------------------------------------
(* Where the leaves are among the links.                                    *)

LEMMA DeepNeededMonotone ==
    ASSUME NEW m \in Nat, NEW n \in Nat, m <= n
    PROVE  DeepNeeded(m) <= DeepNeeded(n)
  <1>1. CountLinks \in Nat /\ CountDirect \in Nat
    BY SpaceAssumption
  <1>2. SubsNeeded(m) \subseteq SubsNeeded(n)
    <2> SUFFICES ASSUME NEW x \in SubsNeeded(m) PROVE x \in SubsNeeded(n)
      OBVIOUS
    <2>1. x \in 0 .. CountLinks - 1 /\ CountDirect + CountLinks + x * CountLinks < m
      BY DEF SubsNeeded
    <2>2. CountDirect + CountLinks + x * CountLinks \in Int
      BY <1>1, <2>1
    <2>3. CountDirect + CountLinks + x * CountLinks < n
      BY <2>1, <2>2
    <2> QED
      BY <2>1, <2>3 DEF SubsNeeded
  <1>3. Cardinality(SubsNeeded(m)) <= Cardinality(SubsNeeded(n))
    BY <1>2, SubsNeededNat, FS_Subset
  <1>4. Cardinality(SubsNeeded(m)) \in Nat /\ Cardinality(SubsNeeded(n)) \in Nat
    BY SubsNeededNat
  <1> QED
    BY <1>1, <1>3, <1>4 DEF DeepNeeded

\* The x-th leaf is after the one before it.
LEMMA Positions ==
    ASSUME NEW n \in Nat
    PROVE  /\ TakenFor(0, n) \in Nat /\ TakenFor(0, n) >= n
           /\ TakenFor(0, 0) = 0
           /\ \A m \in Nat : m < n => TakenFor(0, m) < TakenFor(0, n)
           /\ \A m \in Nat : m <= n => /\ TakenFor(m, n) = TakenFor(0, n) - TakenFor(0, m)
                                       /\ TakenFor(m, n) \in Nat
  <1>1. DeepNeeded(n) \in Nat /\ DeepNeeded(0) = 0
    BY DeepNeededNat, DeepNeededBound, SpaceAssumption
  <1>2. \A m \in Nat : m <= n => DeepNeeded(m) \in Nat /\ DeepNeeded(m) <= DeepNeeded(n)
    BY DeepNeededNat, DeepNeededMonotone
  <1> QED
    BY <1>1, <1>2 DEF TakenFor

\* The n-th free block is there when there are n free blocks.
LEMMA FirstFitIs ==
    ASSUME free \subseteq Blocks, NEW n \in 1 .. Cardinality(free)
    PROVE  /\ FirstFit(n) \in free
           /\ Cardinality({c \in free : c <= FirstFit(n)}) = n
  <1> DEFINE Below(b) == {c \in free : c <= b}
             T == {b \in Nat : Cardinality(Below(b)) >= n}
  <1>0. \A c \in free : c \in Nat /\ c >= 1 /\ c <= BlockCount
    BY Sizes DEF Blocks
  <1>1. IsFiniteSet(free) /\ Cardinality(free) \in Nat
    <2>1. IsFiniteSet(Blocks)
      BY Sizes, FS_Interval DEF Blocks
    <2> QED
      BY <2>1, FS_Subset, FS_CardinalityType
  <1>2. \A b : IsFiniteSet(Below(b)) /\ Cardinality(Below(b)) \in Nat
    <2>1. \A b : Below(b) \subseteq free
      OBVIOUS
    <2> QED
      BY <1>1, <2>1, FS_Subset, FS_CardinalityType
  <1>3. BlockCount \in T
    <2>1. Below(BlockCount) = free
      BY <1>0
    <2> QED
      BY <1>1, <2>1, Sizes
  <1>4. PICK b \in T : \A x \in T : b <= x
    <2> HIDE DEF T
    <2>1. T \subseteq Nat
      BY DEF T
    <2> QED
      BY <1>3, <2>1, LeastExists
  <1>5. b > 0
    <2>1. Below(0) = {}
      BY <1>0
    <2>2. Cardinality(Below(0)) = 0
      BY <2>1, FS_EmptySet
    <2> HIDE DEF Below
    <2> QED
      BY <1>4, <2>2
  <1>6. b - 1 \notin T /\ b - 1 \in Nat
    BY <1>4, <1>5
  <1>7. Cardinality(Below(b - 1)) < n
    <2> HIDE DEF Below
    <2> QED
      BY <1>2, <1>6
  <1>8. b \in free
    <2> SUFFICES ASSUME b \notin free PROVE FALSE
      OBVIOUS
    <2>1. Below(b) = Below(b - 1)
      BY <1>0, <1>4
    <2> HIDE DEF Below
    <2> QED
      BY <1>2, <1>4, <1>7, <2>1
  <1>9. Below(b) = Below(b - 1) \union {b} /\ b \notin Below(b - 1)
    <2>1. b \in Nat /\ \A c \in free : c <= b <=> c <= b - 1 \/ c = b
      BY <1>0, <1>4
    <2>2. Below(b) = Below(b - 1) \union {b}
      BY ONLY <1>8, <2>1
    <2>3. b \notin Below(b - 1)
      BY <2>1
    <2> QED
      BY <2>2, <2>3
  <1>10. Cardinality(Below(b)) = Cardinality(Below(b - 1)) + 1
    <2> HIDE DEF Below
    <2> QED
      BY <1>2, <1>9, FS_AddElement
  <1>11. Cardinality(Below(b)) = n
    <2> HIDE DEF Below
    <2> QED
      BY <1>2, <1>4, <1>7, <1>10
  <1>12. \E x \in free : Cardinality({c \in free : c <= x}) = n
    BY <1>8, <1>11
  <1> QED
    BY <1>12, Zenon DEF FirstFit

\* What is taken for more leaves is free and taken once.
LEMMA Taken ==
    ASSUME free \subseteq Blocks, NEW m \in Nat, NEW n \in Nat, m <= n,
           TakenFor(m, n) <= Cardinality(free)
    PROVE  LET taken == NewBlocks(m, n)
           IN  /\ taken \in Seq(free) /\ Len(taken) = TakenFor(m, n)
               /\ \A x, y \in 1 .. TakenFor(m, n) : taken[x] = taken[y] => x = y
               /\ NewLeaves(m, n) = {taken[TakenFor(m, x)] : x \in m + 1 .. n}
  <1>1. TakenFor(m, n) \in Nat
    BY Positions
  <1>2. IsFiniteSet(free) /\ Cardinality(free) \in Nat
    <2>1. IsFiniteSet(Blocks)
      BY Sizes, FS_Interval DEF Blocks
    <2> QED
      BY <2>1, FS_Subset, FS_CardinalityType
  <1>3. \A x \in 1 .. TakenFor(m, n) : x \in 1 .. Cardinality(free)
    BY <1>1, <1>2
  <1>4. \A x \in 1 .. TakenFor(m, n) :
           FirstFit(x) \in free /\ Cardinality({c \in free : c <= FirstFit(x)}) = x
    BY <1>3, FirstFitIs
  <1>5. \A x, y \in 1 .. TakenFor(m, n) : FirstFit(x) = FirstFit(y) => x = y
    BY <1>4, Zenon
  <1>6. \A x \in m + 1 .. n : TakenFor(m, x) \in 1 .. TakenFor(m, n)
    <2> SUFFICES ASSUME NEW x \in m + 1 .. n PROVE TakenFor(m, x) \in 1 .. TakenFor(m, n)
      OBVIOUS
    <2>1. x \in Nat /\ m < x /\ x <= n
      OBVIOUS
    <2>2. /\ TakenFor(m, x) = TakenFor(0, x) - TakenFor(0, m)
          /\ TakenFor(m, n) = TakenFor(0, n) - TakenFor(0, m)
          /\ TakenFor(0, m) < TakenFor(0, x)
          /\ TakenFor(0, x) <= TakenFor(0, n)
          /\ TakenFor(0, x) \in Nat /\ TakenFor(0, m) \in Nat /\ TakenFor(0, n) \in Nat
      <3>1. x = n \/ x < n
        BY <2>1
      <3>2. TakenFor(0, x) < TakenFor(0, n) \/ x = n
        <4>1. \A y \in Nat : y < n => TakenFor(0, y) < TakenFor(0, n)
          BY Positions
        <4> QED
          BY ONLY <2>1, <3>1, <4>1
      <3>3. TakenFor(0, m) < TakenFor(0, x) /\ TakenFor(m, x) = TakenFor(0, x) - TakenFor(0, m)
        <4>1. /\ \A y \in Nat : y < x => TakenFor(0, y) < TakenFor(0, x)
              /\ \A y \in Nat : y <= x => TakenFor(y, x) = TakenFor(0, x) - TakenFor(0, y)
          BY <2>1, Positions
        <4> QED
          BY ONLY <2>1, <4>1, m \in Nat
      <3>4. TakenFor(0, x) \in Nat /\ TakenFor(0, m) \in Nat /\ TakenFor(0, n) \in Nat
        BY <2>1, Positions
      <3>5. TakenFor(m, n) = TakenFor(0, n) - TakenFor(0, m)
        BY Positions
      <3> HIDE DEF TakenFor
      <3> QED
        BY <3>2, <3>3, <3>4, <3>5
    <2> QED
      BY <2>2
  <1> HIDE DEF TakenFor
  <1>7. NewBlocks(m, n) = [x \in 1 .. TakenFor(m, n) |-> FirstFit(x)]
    BY DEF NewBlocks
  <1> HIDE DEF TakenFor, NewBlocks
  <1>8. NewBlocks(m, n) \in Seq(free) /\ Len(NewBlocks(m, n)) = TakenFor(m, n)
    <2>1. NewBlocks(m, n) \in [1 .. TakenFor(m, n) -> free]
      BY <1>4, <1>7
    <2> QED
      BY <1>1, <2>1
  <1>9. \A x \in 1 .. TakenFor(m, n) : NewBlocks(m, n)[x] = FirstFit(x)
    BY <1>7
  <1>10. \A x \in m + 1 .. n : NewBlocks(m, n)[TakenFor(m, x)] = FirstFit(TakenFor(m, x))
    BY <1>6, <1>9
  <1>11. NewLeaves(m, n) = {NewBlocks(m, n)[TakenFor(m, x)] : x \in m + 1 .. n}
    BY <1>10 DEF NewLeaves
  <1> QED
    BY <1>5, <1>8, <1>9, <1>11

------------------------------------------------------------------------------
(* The invariant.                                                           *)
(* The invariant.                                                           *)

Contents == [version : 0 .. MaxVersions, size : HostSizes \union {0},
             zero : HostZeros \union {0}]
Bytes == (0 .. MaxVersions) \X Nat
Block == [1 .. BlockSize -> Bytes]

FileRecords == [exists : BOOLEAN, named : BOOLEAN, links : Seq(Blocks),
                leaves : 0 .. Capacity, size : HostSizes \union {0}]

\* Of the files that are not half freed, no block is free, and none is linked twice.
DiskOK ==
    /\ free \subseteq Blocks
    /\ data \in [Blocks -> Block]
    /\ file \in [Files -> FileRecords]
    /\ \A f \in Files :
         /\ Len(file[f].links) = TakenFor(0, file[f].leaves)
         /\ file[f].exists \/ (file[f] = NoFile /\ f \notin half)
    /\ \A f \in Files \ half :
         \A x \in 1 .. Len(file[f].links) : file[f].links[x] \notin free
    /\ \A f, g \in Files \ half :
         \A x \in 1 .. Len(file[f].links), y \in 1 .. Len(file[g].links) :
            file[f].links[x] = file[g].links[y] => f = g /\ x = y

HistoryOK ==
    /\ version \in 0 .. MaxVersions /\ kills \in 0 .. MaxKills
    /\ stored \in [Files -> Contents]
    /\ begun \in [Files -> SUBSET (1 .. MaxVersions)]
    /\ half \subseteq torn /\ torn \subseteq Files /\ mixed \in BOOLEAN

\* Bytes that may come out of f, and a block of a content as it is stored.
Own(f, block) == \A p \in 1 .. BlockSize : block[p] = Zero \/ block[p][1] \in begun[f]
BlockOf(c, k) == Overwritten(Zeros, Read(c, k))

\* No other file, unless it is half freed, links a block of f.
Apart(f) ==
    \A g \in Files \ half : g # f =>
        \A x \in 1 .. Len(file[g].links), y \in 1 .. Len(file[f].links) :
            file[g].links[x] # file[f].links[y]

\* A free block is empty, and the leaves of a file hold bytes of the file alone.
OwnOK ==
    ~mixed =>
        /\ \A b \in free : data[b] = Zeros
        /\ \A f \in Files \ half : \A k \in 1 .. file[f].leaves : Own(f, data[Leaf(f, k)])

\* They hold just what was stored, unless copying was broken off.
WholeOK ==
    \A f \in Files \ torn :
        /\ stored[f].size = file[f].size
        /\ file[f].leaves = CountBlocks(file[f].size)
        /\ \A k \in 1 .. file[f].leaves : data[Leaf(f, k)] = BlockOf(stored[f], k)

Commands ==
    [cmd : {"none", "incp", "cp", "outcp"},
     at : {"none", "check", "record", "copy", "over", "size", "out"},
     target : Files \union {0}, source : Files \union {0},
     content : Contents, k : 0 .. Capacity + 1, left : Nat, clean : BOOLEAN]
OpTypeOK == op \in Commands

Storing == op.at \in {"check", "record", "copy", "over", "size"}

\* The command that stores a file, and what it was asked to store.
StoreOK ==
    Storing =>
        /\ op.target \in Files
        /\ op.target \in half \/ op.source \in half => mixed
        /\ \/ /\ op.cmd = "incp" /\ op.source = 0 /\ op.content.version >= 1
           \/ /\ op.cmd = "cp" /\ op.source \in Files /\ op.source # op.target
              /\ op.content = [stored[op.source] EXCEPT !.size = file[op.source].size]
              /\ op.at # "over"
              /\ op.at = "check" => ~file[op.target].exists
        /\ op.at # "check" =>
             /\ file[op.target].exists /\ op.target \in torn /\ Apart(op.target)
             /\ op.cmd = "incp" => op.content.version \in begun[op.target]
             /\ op.cmd = "cp" => begun[op.target] = begun[op.source]
             /\ op.clean => op.source \notin torn /\ op.target \notin half
        /\ op.at \in {"record", "copy"} =>
             /\ op.target \notin half /\ file[op.target].size = 0
             /\ file[op.target].leaves = CountBlocks(op.content.size)

\* The x-th block has been copied.
Copied(x) == op.clean => data[To(x)] = BlockOf(op.content, x)

\* How far copying has got.
CopyOK ==
    /\ op.at = "copy" =>
         /\ op.k \in 1 .. file[op.target].leaves + 1
         /\ \A x \in 1 .. op.k - 1 :
              op.cmd = "cp" \/ x * BlockSize <= op.content.size => Copied(x)
    /\ op.at = "over" =>
         /\ op.k \in 1 .. file[op.target].leaves + 1
         /\ op.clean => file[op.target].leaves = CountBlocks(op.content.size)
         /\ \A x \in 1 .. op.k - 1 : Copied(x)
    /\ op.at = "size" =>
         /\ op.clean => file[op.target].leaves = CountBlocks(op.content.size)
         /\ \A x \in 1 .. file[op.target].leaves :
              x <= CountBlocks(op.content.size) => Copied(x)

\* How far outcp has got.
OutOK ==
    /\ op.at # "out" => out = <<>>
    /\ op.at = "out" =>
         LET f == op.source
             done == (op.k - 1) * BlockSize
         IN  /\ f \in Files /\ op.k \in 1 .. file[f].leaves + 1
             /\ op.left = IF file[f].size > done THEN file[f].size - done ELSE 0
             /\ out \in Seq(Bytes) /\ Len(out) = file[f].size - op.left
             /\ f \notin torn => \A p \in 1 .. Len(out) : out[p] = ByteOf(stored[f], p)
             /\ f \notin half /\ ~mixed =>
                  \A p \in 1 .. Len(out) : out[p] = Zero \/ out[p][1] \in begun[f]

CallInv == Inv /\ CountInv

IInv == /\ CallInv /\ DiskOK /\ HistoryOK /\ OwnOK /\ WholeOK
        /\ OpTypeOK /\ StoreOK /\ CopyOK /\ OutOK

------------------------------------------------------------------------------
------------------------------------------------------------------------------
(* Blocks and their bytes.                                                  *)

LEMMA BlockOfIs ==
    ASSUME NEW c \in Contents, NEW k \in Nat, k > 0
    PROVE  /\ \A p \in 1 .. BlockSize :
                BlockOf(c, k)[p] = IF (k - 1) * BlockSize + p <= c.size
                                   THEN ByteOf(c, (k - 1) * BlockSize + p) ELSE Zero
           /\ BlockOf(c, k) \in Block
           /\ k * BlockSize <= c.size =>
                /\ Read(c, k) = BlockOf(c, k)
                /\ \A block : Overwritten(block, Read(c, k)) = BlockOf(c, k)
           /\ Len(Read(c, k)) = BlockSize <=> k * BlockSize <= c.size
           /\ Len(Read(c, k)) \in 0 .. BlockSize
  <1> DEFINE r == Read(c, k)
             d == (k - 1) * BlockSize
  <1>1. c.size \in Nat /\ c.version \in 0 .. MaxVersions
    <2>1. c.size \in HostSizes \union {0} /\ c.version \in 0 .. MaxVersions
      BY DEF Contents
    <2>2. 0 \in Nat
      OBVIOUS
    <2>3. \A s \in HostSizes \union {0} : s \in Nat
      BY <2>2, StreamAssumption, Zenon
    <2> QED
      BY ONLY <2>1, <2>3, Zenon
  <1>2. d \in Nat /\ k * BlockSize = d + BlockSize /\ BlockSize \in Nat /\ BlockSize > 0
    BY Sizes
  <1>3. /\ r \in Seq({c.version, 0} \X Nat)
        /\ Len(r) \in 0 .. BlockSize
        /\ Len(r) = BlockSize <=> k * BlockSize <= c.size
        /\ Len(r) < BlockSize => c.size = d + Len(r) \/ (c.size <= d /\ Len(r) = 0)
        /\ \A p \in 1 .. Len(r) : r[p] = ByteOf(c, d + p)
    BY <1>1, ReadIs
  <1>4. BlockOf(c, k) = [p \in 1 .. BlockSize |-> IF p <= Len(r) THEN r[p] ELSE Zero]
    BY DEF BlockOf, Overwritten, Zeros
  <1> HIDE DEF r, d
  <1>5. ASSUME NEW p \in 1 .. BlockSize
        PROVE  BlockOf(c, k)[p] = IF d + p <= c.size THEN ByteOf(c, d + p) ELSE Zero
    <2>1. p <= Len(r) <=> d + p <= c.size
      BY <1>1, <1>2, <1>3
    <2>2. p <= Len(r) => r[p] = ByteOf(c, d + p)
      BY <1>2, <1>3
    <2> QED
      BY <1>4, <2>1, <2>2
  <1>6. BlockOf(c, k) \in Block
    <2>1. \A p \in 1 .. BlockSize : BlockOf(c, k)[p] \in Bytes
      <3> SUFFICES ASSUME NEW p \in 1 .. BlockSize PROVE BlockOf(c, k)[p] \in Bytes
        OBVIOUS
      <3>1. d + p \in Nat /\ 0 \in 0 .. MaxVersions
        BY <1>2, StreamAssumption
      <3> QED
        <4>2. Zero \in Bytes
          BY <3>1 DEF Zero, Bytes
        <4>3. <<c.version, d + p>> \in Bytes
          BY ONLY <1>1, <3>1, Zenon DEF Bytes
        <4>1. ByteOf(c, d + p) \in Bytes
          BY <4>2, <4>3 DEF ByteOf
        <4> QED
          BY <1>5, <4>1, <4>2
    <2> QED
      BY <1>4, <2>1 DEF Block
  <1>7. ASSUME k * BlockSize <= c.size
        PROVE  /\ r = BlockOf(c, k)
               /\ \A block : Overwritten(block, r) = BlockOf(c, k)
    <2>1. Len(r) = BlockSize
      BY <1>3, <1>7
    <2>2. r = [p \in 1 .. BlockSize |-> r[p]]
      BY <1>3, <2>1
    <2>3. \A p \in 1 .. BlockSize : p <= BlockSize
      BY <1>2
    <2>4. BlockOf(c, k) = [p \in 1 .. BlockSize |-> r[p]]
      BY <1>4, <2>1, <2>3
    <2>5. \A block : Overwritten(block, r) = [p \in 1 .. BlockSize |-> r[p]]
      BY <2>1, <2>3 DEF Overwritten
    <2> QED
      BY <2>2, <2>4, <2>5
  <1> QED
    BY <1>3, <1>5, <1>6, <1>7 DEF r, d

\* The bytes of a block of a stored content are its own.
LEMMA StoredIsOwn ==
    ASSUME NEW f \in Files, NEW c \in Contents, NEW k \in Nat, k > 0,
           c.version \in begun[f]
    PROVE  Own(f, BlockOf(c, k))
  <1> SUFFICES ASSUME NEW p \in 1 .. BlockSize
               PROVE  BlockOf(c, k)[p] = Zero \/ BlockOf(c, k)[p][1] \in begun[f]
    BY DEF Own
  <1>1. BlockOf(c, k)[p] = Zero \/ BlockOf(c, k)[p] = <<c.version, (k - 1) * BlockSize + p>>
    BY BlockOfIs DEF ByteOf
  <1> QED
    BY <1>1

------------------------------------------------------------------------------
(* Leaves.                                                                  *)

LEMMA PositionIn ==
    ASSUME NEW n \in Nat, NEW k \in 1 .. n
    PROVE  TakenFor(0, k) \in 1 .. TakenFor(0, n)
  <1>1. TakenFor(0, k) \in Nat /\ TakenFor(0, k) >= k
    BY Positions
  <1>2. k = n \/ k < n
    OBVIOUS
  <1>3. /\ \A m \in Nat : m < n => TakenFor(0, m) < TakenFor(0, n)
        /\ TakenFor(0, n) \in Nat
    BY Positions
  <1> QED
    BY ONLY <1>1, <1>2, <1>3, k \in 1 .. n, n \in Nat

LEMMA LeafIs ==
    ASSUME DiskOK, NEW f \in Files
    PROVE  /\ file[f].leaves \in Nat
           /\ \A k \in 1 .. file[f].leaves :
                /\ TakenFor(0, k) \in 1 .. Len(file[f].links)
                /\ f \notin half => Leaf(f, k) \notin free
                /\ Leaf(f, k) \in Blocks /\ data[Leaf(f, k)] \in Block
  <1>1. /\ file[f].leaves \in Nat /\ file[f].links \in Seq(Blocks)
        /\ Len(file[f].links) = TakenFor(0, file[f].leaves)
        /\ f \notin half => \A x \in 1 .. Len(file[f].links) : file[f].links[x] \notin free
        /\ data \in [Blocks -> Block]
    BY Sizes DEF DiskOK, FileRecords
  <1>2. ASSUME NEW k \in 1 .. file[f].leaves PROVE TakenFor(0, k) \in 1 .. Len(file[f].links)
    BY <1>1, PositionIn
  <1>3. ASSUME NEW k \in 1 .. file[f].leaves
        PROVE  /\ f \notin half => Leaf(f, k) \notin free
               /\ Leaf(f, k) \in Blocks /\ data[Leaf(f, k)] \in Block
    BY <1>1, <1>2 DEF Leaf
  <1> QED
    BY <1>1, <1>2, <1>3

LEMMA ApartIs ==
    ASSUME DiskOK, NEW f \in Files \ half
    PROVE  Apart(f)
  BY DEF DiskOK, Apart

\* No block is a leaf twice.
LEMMA LeafOnce ==
    ASSUME DiskOK, NEW f \in Files \ half, NEW k \in 1 .. file[f].leaves,
           NEW l \in 1 .. file[f].leaves, Leaf(f, k) = Leaf(f, l)
    PROVE  k = l
  <1>1. TakenFor(0, k) \in 1 .. Len(file[f].links) /\ TakenFor(0, l) \in 1 .. Len(file[f].links)
    BY LeafIs
  <1>2. TakenFor(0, k) = TakenFor(0, l)
    BY <1>1 DEF DiskOK, Leaf
  <1>3. k \in Nat /\ l \in Nat
    BY LeafIs
  <1>4. /\ k < l => TakenFor(0, k) < TakenFor(0, l)
        /\ l < k => TakenFor(0, l) < TakenFor(0, k)
        /\ TakenFor(0, k) \in Nat /\ TakenFor(0, l) \in Nat
    BY <1>3, Positions
  <1> QED
    BY ONLY <1>2, <1>3, <1>4

\* The leaves of another file are others.
LEMMA LeavesApart ==
    ASSUME DiskOK, NEW f \in Files, Apart(f), NEW g \in Files \ half, g # f,
           NEW k \in 1 .. file[f].leaves, NEW l \in 1 .. file[g].leaves
    PROVE  Leaf(g, l) # Leaf(f, k)
  <1>1. TakenFor(0, k) \in 1 .. Len(file[f].links) /\ TakenFor(0, l) \in 1 .. Len(file[g].links)
    BY LeafIs
  <1> QED
    BY <1>1 DEF Apart, Leaf

\* The leaves of g that it had stay and keep their bytes.
Kept(g) ==
    \A k \in 1 .. file[g].leaves :
        Leaf(g, k)' = Leaf(g, k) /\ data'[Leaf(g, k)] = data[Leaf(g, k)]

\* g and f have no link in common.
Disjoint(g, f) ==
    \A x \in 1 .. Len(file[g].links), y \in 1 .. Len(file[f].links) :
        file[g].links[x] # file[f].links[y]

LEMMA SizesAreNat == \A s \in HostSizes \union {0} : s \in Nat
  <1>1. 0 \in Nat
    OBVIOUS
  <1> QED
    BY <1>1, StreamAssumption, Zenon

\* The record of a file whose links are added to, or whose size is set.
LEMMA GrownRecord ==
    ASSUME NEW r \in FileRecords, NEW l \in Seq(Blocks), NEW n \in 0 .. Capacity
    PROVE  [r EXCEPT !.exists = TRUE, !.links = l, !.leaves = n] \in FileRecords
  BY DEF FileRecords

LEMMA SizedRecord ==
    ASSUME NEW r \in FileRecords, NEW s \in HostSizes \union {0}
    PROVE  /\ [r EXCEPT !.size = s] \in FileRecords
           /\ [r EXCEPT !.size = s].size = s
           /\ [r EXCEPT !.size = s].links = r.links
           /\ [r EXCEPT !.size = s].leaves = r.leaves
           /\ [r EXCEPT !.size = s].exists = r.exists
  BY SMT DEF FileRecords

LEMMA FreeIsFinite ==
    ASSUME free \subseteq Blocks
    PROVE  IsFiniteSet(free) /\ Cardinality(free) \in Nat
  <1>1. IsFiniteSet(Blocks)
    BY Sizes, FS_Interval DEF Blocks
  <1> QED
    BY <1>1, FS_Subset, FS_CardinalityType

\* What taking blocks for the leaves up to 'goal' of f does to the others, and to f if
\* it is not half freed.
LEMMA GrowKeeps ==
    ASSUME DiskOK, NEW f \in Files, NEW goal \in Nat, NEW n \in Nat, NEW count \in Nat,
           file[f].leaves <= n, n <= goal, CanGrow(f, goal),
           TakenFor(file[f].leaves, n) <= count, count <= TakenFor(file[f].leaves, goal),
           GrowTaking(f, goal, n, count), half \subseteq half',
           \A g \in half' : g \in half \/ file[g].exists
    PROVE  /\ DiskOK'
           /\ \A g \in Files \ {f} : file'[g] = file[g]
           /\ file'[f].exists /\ file'[f].leaves = n
           /\ file'[f].named = file[f].named /\ file'[f].size = file[f].size
           /\ \A g \in Files \ half : Kept(g)
           /\ f \notin half => \A k \in 1 .. n : k > file[f].leaves =>
                /\ Leaf(f, k)' \in free /\ data'[Leaf(f, k)'] = data[Leaf(f, k)']
           /\ (\A g \in Files \ half' : g # f => Disjoint(g, f)) => Apart(f)'
           /\ \A b \in free' : b \in free /\ data'[b] = data[b]
  <1> DEFINE m == file[f].leaves
             T == NewBlocks(m, n)
             L == file[f].links
             taken == {FirstFit(x) : x \in 1 .. count}
             deep == taken \ NewLeaves(m, goal)
  <1>0. /\ file \in [Files -> FileRecords]
        /\ \A g, h \in Files \ half :
             \A x \in 1 .. Len(file[g].links), y \in 1 .. Len(file[h].links) :
                file[g].links[x] = file[h].links[y] => g = h /\ x = y
    BY DEF DiskOK
  <1>1. /\ free \subseteq Blocks /\ m \in Nat /\ L \in Seq(Blocks)
        /\ Len(L) = TakenFor(0, m)
        /\ n <= Capacity /\ TakenFor(m, n) <= Cardinality(free)
        /\ TakenFor(m, goal) <= Cardinality(free) /\ Cardinality(free) \in Nat
        /\ TakenFor(m, n) \in Nat /\ TakenFor(m, goal) \in Nat
    <2>1. /\ free \subseteq Blocks /\ m \in Nat /\ L \in Seq(Blocks)
          /\ Len(L) = TakenFor(0, m)
          /\ goal <= Capacity /\ TakenFor(m, goal) <= Cardinality(free)
      <3>1. free \subseteq Blocks /\ file[f] \in FileRecords /\ Len(L) = TakenFor(0, m)
        BY DEF DiskOK
      <3>2. goal <= Capacity /\ TakenFor(m, goal) <= Cardinality(free)
        BY DEF CanGrow
      <3>3. m \in Nat /\ L \in Seq(Blocks)
        BY <3>1, Sizes DEF FileRecords
      <3> QED
        BY <3>1, <3>2, <3>3
    <2>2. TakenFor(m, n) \in Nat /\ TakenFor(m, goal) \in Nat
      <3>1. \A y \in Nat : y <= n => TakenFor(y, n) \in Nat
        BY Positions
      <3>2. \A y \in Nat : y <= goal => TakenFor(y, goal) \in Nat
        BY Positions
      <3>3. m <= n /\ m <= goal
        BY <2>1
      <3> HIDE DEF m, TakenFor
      <3> QED
        BY ONLY <2>1, <3>1, <3>2, <3>3
    <2>3. Cardinality(free) \in Nat
      BY <2>1, FreeIsFinite
    <2>4. /\ TakenFor(m, n) <= count /\ count <= TakenFor(m, goal) /\ count \in Nat
          /\ n <= goal /\ n \in Nat /\ goal \in Nat
      OBVIOUS
    <2> HIDE DEF m, L, TakenFor
    <2> QED
      BY ONLY <2>1, <2>2, <2>3, <2>4, Sizes
  <1>2. /\ T \in Seq(free) /\ Len(T) = TakenFor(m, n)
        /\ \A x, y \in 1 .. Len(T) : T[x] = T[y] => x = y
        /\ \A x \in 1 .. Len(T) : T[x] = FirstFit(x)
    <2>1. /\ T \in Seq(free) /\ Len(T) = TakenFor(m, n)
          /\ \A x, y \in 1 .. Len(T) : T[x] = T[y] => x = y
      BY <1>1, Taken
    <2> QED
      BY <2>1 DEF NewBlocks
  <1>3. Len(L) + Len(T) = TakenFor(0, n) /\ Len(L) \in Nat /\ Len(T) \in Nat
    <2>1. /\ \A y \in Nat : y <= n => TakenFor(y, n) = TakenFor(0, n) - TakenFor(0, y)
          /\ TakenFor(0, n) \in Nat
      BY Positions
    <2>2. Len(L) \in Nat /\ Len(T) \in Nat
      BY <1>1, <1>2
    <2> HIDE DEF TakenFor, L, T
    <2> QED
      BY <1>1, <1>2, <2>1, <2>2
  <1>4. /\ free' = free \ taken
        /\ data' = [b \in Blocks |-> IF b \in deep THEN LinkBlock ELSE data[b]]
    BY DEF GrowTaking
  <1>20. file' = [file EXCEPT ![f].exists = TRUE, ![f].links = @ \o T, ![f].leaves = n]
    BY DEF GrowTaking
  <1>5. \A x \in 1 .. Len(T) : T[x] \in taken
    <2>1. \A x \in 1 .. Len(T) : x \in 1 .. count
      <3> HIDE DEF TakenFor, m, T
      <3> QED
        BY <1>1, <1>2, TakenFor(m, n) <= count DEF m
    <2> QED
      BY <1>2, <2>1
  <1>50. taken \subseteq free
    <2>1. \A x \in 1 .. count : x \in 1 .. Cardinality(free)
      <3>1. count <= TakenFor(m, goal) /\ count \in Nat
        OBVIOUS
      <3> HIDE DEF TakenFor, m
      <3> QED
        BY ONLY <1>1, <3>1
    <2> QED
      BY <1>1, <2>1, FirstFitIs
  <1> HIDE DEF m, T, deep, taken
  <1>6. file'[f] = [file[f] EXCEPT !.exists = TRUE, !.links = L \o T, !.leaves = n]
    BY <1>0, <1>20 DEF FileRecords
  <1>7. \A g \in Files \ {f} : file'[g] = file[g]
    BY <1>0, <1>20
  <1> HIDE DEF L
  <1>8. /\ L \o T \in Seq(Blocks) /\ Len(L \o T) = TakenFor(0, n)
        /\ \A x \in 1 .. Len(L) : (L \o T)[x] = L[x]
        /\ \A x \in 1 .. Len(L \o T) :
             x <= Len(L) \/ (x - Len(L) \in 1 .. Len(T) /\ (L \o T)[x] = T[x - Len(L)])
    <2>1. T \in Seq(Blocks)
      BY <1>1, <1>2
    <2>2. L \in Seq(Blocks)
      BY <1>1
    <2> QED
      BY ONLY <1>3, <2>1, <2>2, SMTT(30)
  <1>9. /\ file'[f].exists = TRUE /\ file'[f].leaves = n /\ file'[f].links = L \o T
        /\ file'[f].named = file[f].named /\ file'[f].size = file[f].size
    BY <1>0, <1>6 DEF FileRecords
  <1>10. file' \in [Files -> FileRecords]
    <2>1. n \in 0 .. Capacity
      BY <1>1, Sizes
    <2>2. file'[f] \in FileRecords
      <3>1. file[f] \in FileRecords
        BY <1>0
      <3>2. L \o T \in Seq(Blocks)
        BY <1>8
      <3>3. [file[f] EXCEPT !.exists = TRUE, !.links = L \o T, !.leaves = n] \in FileRecords
        BY <2>1, <3>1, <3>2, GrownRecord, Zenon
      <3> QED
        BY <1>6, <3>3, Zenon
    <2> QED
      BY <1>0, <1>20, <2>2
  <1>11. data' \in [Blocks -> Block]
    <2>1. LinkBlock \in Block
      BY StreamAssumption DEF LinkBlock, LinkByte, Block, Bytes
    <2> QED
      BY <1>4, <2>1 DEF DiskOK
  \* A link is one the file had, or was free.
  <1>12. ASSUME NEW g \in Files, NEW x \in 1 .. Len(file'[g].links)
         PROVE  \/ x \in 1 .. Len(file[g].links) /\ file'[g].links[x] = file[g].links[x]
                \/ /\ g = f /\ x - Len(L) \in 1 .. Len(T)
                   /\ file'[g].links[x] = T[x - Len(L)]
    <2>1. CASE g # f
      BY <1>7, <2>1
    <2>2. CASE g = f
      BY <1>3, <1>8, <1>9, <2>2 DEF L
    <2> QED
      BY <2>1, <2>2
  <1>13. \A x \in 1 .. Len(T) : T[x] \in free
    BY <1>2
  <1>14. \A g \in Files \ half : \A x \in 1 .. Len(file[g].links) : file[g].links[x] \notin free
    BY DEF DiskOK
  <1>15. \A g \in Files \ half' : \A x \in 1 .. Len(file'[g].links) : file'[g].links[x] \notin free'
    <2> SUFFICES ASSUME NEW g \in Files \ half, NEW x \in 1 .. Len(file'[g].links)
                 PROVE  file'[g].links[x] \notin free'
      OBVIOUS
    <2>1. CASE file'[g].links[x] = T[x - Len(L)] /\ x - Len(L) \in 1 .. Len(T)
      BY <1>4, <1>5, <2>1
    <2>2. CASE x \in 1 .. Len(file[g].links) /\ file'[g].links[x] = file[g].links[x]
      BY <1>4, <1>14, <2>2
    <2> QED
      BY <1>12, <2>1, <2>2
  <1>16. ASSUME NEW g \in Files \ half, NEW h \in Files \ half,
                NEW x \in 1 .. Len(file'[g].links), NEW y \in 1 .. Len(file'[h].links),
                file'[g].links[x] = file'[h].links[y]
         PROVE  g = h /\ x = y
    <2>1. x \in Int /\ y \in Int
      OBVIOUS
    <2>2. CASE /\ x \in 1 .. Len(file[g].links) /\ file'[g].links[x] = file[g].links[x]
               /\ y \in 1 .. Len(file[h].links) /\ file'[h].links[y] = file[h].links[y]
      <3>1. file[g].links[x] = file[h].links[y]
        BY ONLY <1>16, <2>2, Zenon
      <3> QED
        BY ONLY <1>0, <2>2, <3>1, g \in Files \ half, h \in Files \ half
    <2>3. CASE /\ g = f /\ x - Len(L) \in 1 .. Len(T) /\ file'[g].links[x] = T[x - Len(L)]
               /\ h = f /\ y - Len(L) \in 1 .. Len(T) /\ file'[h].links[y] = T[y - Len(L)]
      <3>1. x - Len(L) = y - Len(L)
        BY <1>2, <1>16, <2>3
      <3> QED
        BY <1>3, <2>1, <2>3, <3>1
    <2> DEFINE Old(e, z) == z \in 1 .. Len(file[e].links) /\ file'[e].links[z] = file[e].links[z]
               New(e, z) == /\ e = f /\ z - Len(L) \in 1 .. Len(T)
                            /\ file'[e].links[z] = T[z - Len(L)]
    <2>4. (Old(g, x) \/ New(g, x)) /\ (Old(h, y) \/ New(h, y))
      BY <1>12
    <2>5. /\ Old(g, x) => file'[g].links[x] \notin free
          /\ Old(h, y) => file'[h].links[y] \notin free
      BY <1>14
    <2>6. /\ New(g, x) => file'[g].links[x] \in free
          /\ New(h, y) => file'[h].links[y] \in free
      BY <1>13
    <2> QED
      <3>1. (Old(g, x) /\ Old(h, y)) \/ (New(g, x) /\ New(h, y))
        <4> HIDE DEF Old, New
        <4> QED
          BY ONLY <1>16, <2>4, <2>5, <2>6
      <3>2. Old(g, x) /\ Old(h, y) => g = h /\ x = y
        BY <2>2
      <3>3. New(g, x) /\ New(h, y) => g = h /\ x = y
        BY <2>3
      <3> HIDE DEF Old, New
      <3> QED
        BY ONLY <3>1, <3>2, <3>3
  <1>17. DiskOK'
    <2>1. \A g \in Files : /\ Len(file'[g].links) = TakenFor(0, file'[g].leaves)
                           /\ file'[g].exists \/ (file'[g] = NoFile /\ g \notin half')
      <3>1. /\ Len(file'[f].links) = TakenFor(0, file'[f].leaves)
            /\ file'[f].exists \/ (file'[f] = NoFile /\ f \notin half')
        BY <1>8, <1>9
      <3>2. ASSUME NEW g \in Files \ {f}
            PROVE  /\ Len(file'[g].links) = TakenFor(0, file'[g].leaves)
                   /\ file'[g].exists \/ (file'[g] = NoFile /\ g \notin half')
        <4>1. /\ Len(file[g].links) = TakenFor(0, file[g].leaves)
              /\ file[g].exists \/ (file[g] = NoFile /\ g \notin half)
          BY DEF DiskOK
        <4> QED
          BY <1>7, <4>1
      <3> QED
        BY <3>1, <3>2
    <2>2. free' \subseteq Blocks
      BY <1>1, <1>4
    <2> QED
      BY <1>10, <1>11, <1>15, <1>16, <2>1, <2>2 DEF DiskOK
  <1>18. ASSUME NEW g \in Files \ half, NEW k \in 1 .. file[g].leaves
         PROVE  Leaf(g, k)' = Leaf(g, k) /\ data'[Leaf(g, k)] = data[Leaf(g, k)]
    <2>1. /\ TakenFor(0, k) \in 1 .. Len(file[g].links)
          /\ Leaf(g, k) \in Blocks /\ Leaf(g, k) \notin free
      BY LeafIs
    <2>2. file'[g].links[TakenFor(0, k)] = file[g].links[TakenFor(0, k)]
      BY <1>7, <1>8, <1>9, <2>1 DEF L
    <2>3. Leaf(g, k) \notin deep
      BY <1>50, <2>1 DEF deep
    <2> QED
      BY <1>4, <2>1, <2>2, <2>3 DEF Leaf
  <1>19. ASSUME NEW k \in 1 .. n, k > m
         PROVE  Leaf(f, k)' \in free /\ data'[Leaf(f, k)'] = data[Leaf(f, k)']
    <2>1. k \in Nat /\ k \in m + 1 .. goal /\ TakenFor(m, k) \in Nat
      <3>1. k \in Nat /\ m <= k /\ k <= goal
        BY <1>1, <1>19
      <3>2. TakenFor(m, k) \in Nat
        BY <1>1, <3>1, Positions
      <3> HIDE DEF TakenFor
      <3> QED
        BY <1>1, <1>19, <3>1, <3>2
    <2>2. TakenFor(0, k) = Len(L) + TakenFor(m, k) /\ TakenFor(m, k) \in 1 .. Len(T)
      <3>1. /\ \A y \in Nat : y <= k => TakenFor(y, k) = TakenFor(0, k) - TakenFor(0, y)
            /\ \A y \in Nat : y < k => TakenFor(0, y) < TakenFor(0, k)
            /\ TakenFor(0, k) \in Nat
        BY <2>1, Positions
      <3>2. /\ \A y \in Nat : y < n => TakenFor(0, y) < TakenFor(0, n)
            /\ TakenFor(0, n) \in Nat
        BY Positions
      <3>3. TakenFor(0, k) <= TakenFor(0, n)
        <4>1. k = n \/ k < n
          BY <2>1
        <4> HIDE DEF TakenFor
        <4> QED
          BY ONLY <2>1, <3>1, <3>2, <4>1
      <3> HIDE DEF TakenFor
      <3> QED
        BY ONLY <1>1, <1>3, <1>19, <2>1, <3>1, <3>2, <3>3
    <2>3. (L \o T)[TakenFor(0, k)] = T[TakenFor(m, k)]
      <3>1. TakenFor(0, k) - Len(L) = TakenFor(m, k) /\ TakenFor(0, k) > Len(L)
        <4> HIDE DEF TakenFor
        <4> QED
          BY ONLY <1>3, <2>2
      <3>2. TakenFor(0, k) \in 1 .. Len(L \o T)
        <4> HIDE DEF TakenFor
        <4> QED
          BY ONLY <1>3, <1>8, <2>2
      <3> HIDE DEF TakenFor
      <3> QED
        BY ONLY <1>8, <3>1, <3>2, <1>3
    <2>4. Leaf(f, k)' = T[TakenFor(m, k)]
      BY <1>9, <2>3 DEF Leaf
    <2>5. T[TakenFor(m, k)] \in NewLeaves(m, goal)
      <3>1. T[TakenFor(m, k)] = FirstFit(TakenFor(m, k))
        BY <1>2, <2>2
      <3> QED
        BY <2>1, <3>1 DEF NewLeaves
    <2>6. T[TakenFor(m, k)] \in free
      BY <1>13, <2>2
    <2> HIDE DEF TakenFor
    <2> QED
      BY <1>1, <1>4, <2>4, <2>5, <2>6 DEF deep
  <1>21. ASSUME \A g \in Files \ half' : g # f => Disjoint(g, f) PROVE Apart(f)'
    <2> SUFFICES ASSUME NEW g \in Files \ half', g # f, NEW x \in 1 .. Len(file'[g].links),
                        NEW y \in 1 .. Len(file'[f].links), file'[g].links[x] = file'[f].links[y]
                 PROVE  FALSE
      BY DEF Apart
    <2>1. g \in Files \ half /\ x \in 1 .. Len(file[g].links) /\ file'[g].links[x] = file[g].links[x]
      BY <1>7
    <2>2. \/ y \in 1 .. Len(file[f].links) /\ file'[f].links[y] = file[f].links[y]
          \/ file'[f].links[y] \in free
      BY <1>12, <1>13
    <2> QED
      BY <1>14, <1>21, <2>1, <2>2 DEF Disjoint
  <1>22. \A b \in free' : b \in free /\ data'[b] = data[b]
    BY <1>1, <1>4 DEF deep
  <1> QED
    BY <1>7, <1>9, <1>17, <1>18, <1>19, <1>21, <1>22 DEF Kept, m

LEMMA SharingExists ==
    ASSUME DiskOK, NEW f \in Files, NEW g \in Sharing(f)
    PROVE  g \in Files /\ file[g].exists
  <1>1. g \in Files /\ Range(file[g].links) # {}
    BY DEF Sharing
  <1>2. NoFile.links = <<>> /\ Range(<<>>) = {}
    BY DEF NoFile, Range
  <1>3. file[g].exists \/ file[g] = NoFile
    BY <1>1 DEF DiskOK
  <1> QED
    BY <1>1, <1>2, <1>3

LEMMA NotSharing ==
    ASSUME DiskOK, NEW f \in Files, NEW g \in Files, g # f, g \notin Sharing(f)
    PROVE  Disjoint(g, f)
  <1>1. file[f].links \in Seq(Blocks) /\ file[g].links \in Seq(Blocks)
    BY DEF DiskOK, FileRecords
  <1>2. Range(file[g].links) \intersect Range(file[f].links) = {}
    BY DEF Sharing
  <1>3. /\ \A x \in 1 .. Len(file[g].links) : file[g].links[x] \in Range(file[g].links)
        /\ \A y \in 1 .. Len(file[f].links) : file[f].links[y] \in Range(file[f].links)
    BY <1>1 DEF Range
  <1> QED
    BY <1>2, <1>3 DEF Disjoint

\* What clearing and freeing blocks of f does to the others, and to f if it is not half
\* freed then.
LEMMA FreesKeeps ==
    ASSUME DiskOK, NEW f \in Files, NEW wiped, NEW opened, opened \subseteq wiped,
           \A b \in wiped : \E x \in 1 .. Len(file[f].links) : b = file[f].links[x],
           GivesBack(wiped, opened),
           half \union Sharing(f) \subseteq half' \union {f},
           file' \in [Files -> FileRecords], \A g \in Files \ {f} : file'[g] = file[g],
           Len(file'[f].links) = TakenFor(0, file'[f].leaves),
           file'[f].exists \/ (file'[f] = NoFile /\ f \notin half'),
           half' \subseteq half \union Sharing(f) \union {f},
           \A x \in 1 .. Len(file'[f].links) :
              /\ x \in 1 .. Len(file[f].links) /\ file'[f].links[x] = file[f].links[x]
              /\ f \notin half' => f \notin half /\ file[f].links[x] \notin wiped
    PROVE  /\ DiskOK' /\ Apart(f)'
           /\ \A g \in Files \ half' : g # f => g \notin half /\ Kept(g)
           /\ f \notin half' => \A k \in 1 .. file'[f].leaves :
                Leaf(f, k)' = Leaf(f, k) /\ data'[Leaf(f, k)] = data[Leaf(f, k)]
           /\ (\A b \in free : data[b] = Zeros) => (\A b \in free' : data'[b] = Zeros)
  <1> DEFINE L == file[f].links
  <1>0. /\ file \in [Files -> FileRecords] /\ free \subseteq Blocks
        /\ data \in [Blocks -> Block]
        /\ \A g, h \in Files \ half :
             \A x \in 1 .. Len(file[g].links), y \in 1 .. Len(file[h].links) :
                file[g].links[x] = file[h].links[y] => g = h /\ x = y
        /\ \A g \in Files \ half : \A x \in 1 .. Len(file[g].links) : file[g].links[x] \notin free
        /\ \A g \in Files : /\ Len(file[g].links) = TakenFor(0, file[g].leaves)
                            /\ file[g].exists \/ (file[g] = NoFile /\ g \notin half)
    BY DEF DiskOK
  <1>1. L \in Seq(Blocks)
    BY <1>0 DEF FileRecords
  <1>2. /\ free' = free \union opened
        /\ data' = [b \in Blocks |-> IF b \in wiped THEN Zeros ELSE data[b]]
    BY DEF GivesBack
  <1>3. wiped \subseteq Blocks /\ \A b \in wiped : \E x \in 1 .. Len(L) : b = L[x]
    BY <1>1
  <1>4. Zeros \in Block
    BY StreamAssumption DEF Zeros, Zero, Block, Bytes
  <1>5. \A g \in Files \ half' : g # f => g \notin half /\ g \notin Sharing(f)
    OBVIOUS
  <1>6. ASSUME NEW g \in Files \ half', g # f, NEW x \in 1 .. Len(file[g].links)
        PROVE  /\ file[g].links[x] \notin wiped
               /\ \A y \in 1 .. Len(L) : file[g].links[x] # L[y]
    <2>1. \A y \in 1 .. Len(L) : file[g].links[x] # L[y]
      BY <1>5, <1>6, NotSharing DEF Disjoint
    <2> QED
      BY <1>3, <2>1
  \* The links that a file has then it had before, and they are not cleared.
  <1>7. ASSUME NEW g \in Files \ half', NEW x \in 1 .. Len(file'[g].links)
        PROVE  /\ x \in 1 .. Len(file[g].links) /\ file'[g].links[x] = file[g].links[x]
               /\ g \notin half /\ file[g].links[x] \notin wiped
    <2>1. CASE g = f
      BY <2>1
    <2>2. CASE g # f
      <3>1. file'[g] = file[g]
        BY <2>2
      <3> QED
        BY <1>5, <1>6, <2>2, <3>1
    <2> QED
      BY <2>1, <2>2
  <1>8. \A g \in Files \ half' : \A x \in 1 .. Len(file'[g].links) : file'[g].links[x] \notin free'
    BY <1>0, <1>2, <1>7
  <1>9. ASSUME NEW g \in Files \ half', NEW h \in Files \ half',
               NEW x \in 1 .. Len(file'[g].links), NEW y \in 1 .. Len(file'[h].links),
               file'[g].links[x] = file'[h].links[y]
        PROVE  g = h /\ x = y
    <2>1. file[g].links[x] = file[h].links[y]
      BY <1>7, <1>9
    <2> QED
      BY <1>0, <1>7, <2>1
  <1>10. DiskOK'
    <2>1. \A g \in Files : /\ Len(file'[g].links) = TakenFor(0, file'[g].leaves)
                           /\ file'[g].exists \/ (file'[g] = NoFile /\ g \notin half')
      <3> SUFFICES ASSUME NEW g \in Files
                   PROVE  /\ Len(file'[g].links) = TakenFor(0, file'[g].leaves)
                          /\ file'[g].exists \/ (file'[g] = NoFile /\ g \notin half')
        OBVIOUS
      <3>1. CASE g = f
        BY <3>1
      <3>2. CASE g # f
        <4>1. file'[g] = file[g]
          BY <3>2
        <4>2. g \in Sharing(f) => file[g].exists
          BY <1>0, SharingExists
        <4> QED
          BY <1>0, <3>2, <4>1, <4>2
      <3> QED
        BY <3>1, <3>2
    <2>2. free' \subseteq Blocks
      BY <1>0, <1>2, <1>3
    <2>3. data' \in [Blocks -> Block]
      BY <1>0, <1>2, <1>4
    <2> QED
      BY <1>8, <1>9, <2>1, <2>2, <2>3 DEF DiskOK
  <1>11. Apart(f)'
    <2> SUFFICES ASSUME NEW g \in Files \ half', g # f, NEW x \in 1 .. Len(file'[g].links),
                        NEW y \in 1 .. Len(file'[f].links)
                 PROVE  file'[g].links[x] # file'[f].links[y]
      BY DEF Apart
    <2>1. x \in 1 .. Len(file[g].links) /\ file'[g].links[x] = file[g].links[x]
      BY <1>7
    <2>2. y \in 1 .. Len(L) /\ file'[f].links[y] = L[y]
      OBVIOUS
    <2> QED
      BY <1>6, <2>1, <2>2
  <1>12. ASSUME NEW g \in Files \ half', NEW k \in 1 .. file'[g].leaves
         PROVE  /\ Leaf(g, k)' = Leaf(g, k) /\ data'[Leaf(g, k)] = data[Leaf(g, k)]
    <2>1. TakenFor(0, k) \in 1 .. Len(file'[g].links)
      <3>1. file'[g].leaves \in Nat /\ Len(file'[g].links) = TakenFor(0, file'[g].leaves)
        BY <1>10, Sizes DEF DiskOK, FileRecords
      <3> QED
        BY <3>1, PositionIn
    <2>2. /\ file'[g].links[TakenFor(0, k)] = file[g].links[TakenFor(0, k)]
          /\ TakenFor(0, k) \in 1 .. Len(file[g].links)
          /\ file[g].links[TakenFor(0, k)] \notin wiped
      BY <1>7, <2>1
    <2>3. file[g].links[TakenFor(0, k)] \in Blocks
      BY <1>0, <2>2 DEF FileRecords
    <2> QED
      BY <1>2, <2>2, <2>3 DEF Leaf
  <1>13. \A g \in Files \ half' : g # f => Kept(g)
    <2> SUFFICES ASSUME NEW g \in Files \ half', g # f PROVE Kept(g)
      OBVIOUS
    <2>1. file'[g].leaves = file[g].leaves
      OBVIOUS
    <2> QED
      BY <1>12, <2>1 DEF Kept
  <1>14. ASSUME \A b \in free : data[b] = Zeros
         PROVE  \A b \in free' : data'[b] = Zeros
    BY <1>0, <1>2, <1>3, <1>14
  <1> QED
    BY <1>5, <1>10, <1>11, <1>12, <1>13, <1>14

LEMMA ShrinkKeeps ==
    ASSUME DiskOK, NEW f \in Files, NEW n \in Nat, n <= file[f].leaves,
           file[f].exists, Shrink(f, n), half' = half \union Sharing(f)
    PROVE  /\ DiskOK' /\ Apart(f)'
           /\ \A g \in Files \ {f} : file'[g] = file[g]
           /\ file'[f].exists /\ file'[f].leaves = n
           /\ file'[f].named = file[f].named /\ file'[f].size = file[f].size
           /\ \A g \in Files \ half' : \A k \in 1 .. file'[g].leaves :
                /\ g \notin half /\ k <= file[g].leaves
                /\ Leaf(g, k)' = Leaf(g, k) /\ data'[Leaf(g, k)] = data[Leaf(g, k)]
           /\ (\A b \in free : data[b] = Zeros) => (\A b \in free' : data'[b] = Zeros)
  <1> DEFINE L == file[f].links
             K == SubSeq(L, 1, TakenFor(0, n))
             dropped == Range(L) \ Range(K)
  <1>0. file \in [Files -> FileRecords]
    BY DEF DiskOK
  <1>1. /\ L \in Seq(Blocks) /\ Len(L) = TakenFor(0, file[f].leaves)
        /\ file[f].leaves \in 0 .. Capacity /\ file[f].leaves \in Nat /\ Capacity \in Nat
    BY Sizes DEF DiskOK, FileRecords
  <1>2. TakenFor(0, n) \in Nat /\ TakenFor(0, n) <= Len(L)
    <2>1. n = file[f].leaves \/ n < file[f].leaves
      BY <1>1
    <2>2. /\ \A m \in Nat : m < file[f].leaves => TakenFor(0, m) < TakenFor(0, file[f].leaves)
          /\ TakenFor(0, file[f].leaves) \in Nat /\ TakenFor(0, n) \in Nat
      BY <1>1, Positions
    <2> HIDE DEF L
    <2> QED
      BY ONLY <1>1, <2>1, <2>2, n \in Nat
  <1>3. GivesBack(dropped, dropped) /\ file' = [file EXCEPT ![f].links = K, ![f].leaves = n]
    BY DEF Shrink
  <1> HIDE DEF K
  <1>5. file'[f] = [file[f] EXCEPT !.links = K, !.leaves = n]
    BY <1>0, <1>3 DEF FileRecords
  <1>6. \A g \in Files \ {f} : file'[g] = file[g]
    BY <1>0, <1>3
  <1> HIDE DEF L
  <1>7. /\ K \in Seq(Blocks) /\ Len(K) = TakenFor(0, n)
        /\ \A x \in 1 .. Len(K) : x \in 1 .. Len(L) /\ K[x] = L[x]
    BY <1>1, <1>2 DEF K
  <1>8. /\ file'[f].exists = TRUE /\ file'[f].leaves = n /\ file'[f].links = K
        /\ file'[f].named = file[f].named /\ file'[f].size = file[f].size
    BY <1>0, <1>5 DEF FileRecords
  <1>9. file' \in [Files -> FileRecords]
    <2>1. n \in 0 .. Capacity
      BY <1>1
    <2>2. K \in Seq(Blocks) /\ file[f] \in FileRecords
      BY <1>0, <1>7
    <2>3. file'[f] \in FileRecords
      BY ONLY <1>5, <2>1, <2>2 DEF FileRecords
    <2> QED
      BY <1>0, <1>3, <2>3
  <1>10. \A b \in dropped : \E x \in 1 .. Len(L) : b = L[x]
    BY <1>1 DEF Range
  <1>11. f \notin Sharing(f)
    BY DEF Sharing
  <1>12. \A x \in 1 .. Len(K) : L[x] \notin dropped
    BY <1>7 DEF Range
  <1> HIDE DEF dropped
  <1>13. /\ DiskOK' /\ Apart(f)'
         /\ \A g \in Files \ half' : g # f => g \notin half /\ Kept(g)
         /\ f \notin half' => \A k \in 1 .. file'[f].leaves :
              Leaf(f, k)' = Leaf(f, k) /\ data'[Leaf(f, k)] = data[Leaf(f, k)]
         /\ (\A b \in free : data[b] = Zeros) => (\A b \in free' : data'[b] = Zeros)
    <2>1. half \union Sharing(f) \subseteq half' \union {f}
      OBVIOUS
    <2>2. \A x \in 1 .. Len(file'[f].links) :
              /\ x \in 1 .. Len(file[f].links) /\ file'[f].links[x] = file[f].links[x]
              /\ f \notin half' => f \notin half /\ file[f].links[x] \notin dropped
      BY <1>7, <1>8, <1>12 DEF L
    <2>3. Len(file'[f].links) = TakenFor(0, file'[f].leaves)
      BY <1>7, <1>8
    <2>4. \A b \in dropped : \E x \in 1 .. Len(file[f].links) : b = file[f].links[x]
      BY <1>10 DEF L
    <2> QED
      BY <1>3, <1>6, <1>8, <1>9, <2>1, <2>2, <2>3, <2>4, FreesKeeps
  <1>14. ASSUME NEW g \in Files \ half', NEW k \in 1 .. file'[g].leaves
         PROVE  /\ g \notin half /\ k <= file[g].leaves
                /\ Leaf(g, k)' = Leaf(g, k) /\ data'[Leaf(g, k)] = data[Leaf(g, k)]
    <2>1. CASE g = f
      BY <1>1, <1>8, <1>13, <2>1
    <2>2. CASE g # f
      <3>1. file'[g] = file[g] /\ file[g].leaves \in Nat
        BY <1>6, <2>2, LeafIs
      <3> QED
        BY <1>13, <2>2, <3>1 DEF Kept
    <2> QED
      BY <2>1, <2>2
  <1> QED
    BY <1>6, <1>8, <1>13, <1>14

LEMMA DiscardKeeps ==
    ASSUME DiskOK, NEW f \in Files, Discard(f)
    PROVE  /\ DiskOK' /\ file'[f] = NoFile
           /\ \A g \in Files \ {f} : file'[g] = file[g]
           /\ \A g \in Files \ half' : g # f => g \notin half /\ Kept(g)
           /\ (\A b \in free : data[b] = Zeros) => (\A b \in free' : data'[b] = Zeros)
  <1> DEFINE B == Range(file[f].links)
  <1>0. /\ file \in [Files -> FileRecords] /\ file[f].links \in Seq(Blocks)
    BY DEF DiskOK, FileRecords
  <1>1. /\ GivesBack(B, B) /\ file' = [file EXCEPT ![f] = NoFile]
        /\ half' = (half \union Sharing(f)) \ {f}
    BY DEF Discard
  <1>2. file'[f] = NoFile /\ \A g \in Files \ {f} : file'[g] = file[g]
    BY <1>0, <1>1
  <1>3. NoFile \in FileRecords /\ Len(NoFile.links) = 0 /\ TakenFor(0, NoFile.leaves) = 0
    <2>1. 0 \in 0 .. Capacity
      BY Sizes
    <2> QED
      BY <2>1, Positions DEF NoFile, FileRecords
  <1>4. file' \in [Files -> FileRecords]
    BY <1>0, <1>1, <1>3
  <1>5. \A b \in B : \E x \in 1 .. Len(file[f].links) : b = file[f].links[x]
    BY <1>0 DEF Range
  <1>6. half \union Sharing(f) \subseteq half' \union {f}
    BY <1>1
  <1>7. \A x \in 1 .. Len(file'[f].links) : FALSE
    BY <1>2, <1>3
  <1>8. Len(file'[f].links) = TakenFor(0, file'[f].leaves)
    BY <1>2, <1>3
  <1> HIDE DEF B
  <1>9. /\ DiskOK'
        /\ \A g \in Files \ half' : g # f => g \notin half /\ Kept(g)
        /\ (\A b \in free : data[b] = Zeros) => (\A b \in free' : data'[b] = Zeros)
    BY <1>1, <1>2, <1>4, <1>5, <1>6, <1>7, <1>8, FreesKeeps
  <1> QED
    BY <1>2, <1>9

\* Writing a leaf leaves the other files alone, and the other leaves of its file if
\* that is not half freed.
LEMMA PutKeeps ==
    ASSUME DiskOK, NEW f \in Files, Apart(f), NEW k \in 1 .. file[f].leaves,
           NEW bytes \in Block, Put(Leaf(f, k), bytes),
           free' = free, file' = file, half' = half
    PROVE  /\ DiskOK'
           /\ data'[Leaf(f, k)] = bytes
           /\ f \notin half => \A b \in free : data'[b] = data[b]
           /\ \A g \in Files : \A l \in 1 .. file[g].leaves :
                /\ Leaf(g, l)' = Leaf(g, l)
                /\ g \notin half /\ (g # f \/ l # k) => data'[Leaf(g, l)] = data[Leaf(g, l)]
  <1>1. /\ data \in [Blocks -> Block] /\ Leaf(f, k) \in Blocks
        /\ f \notin half => Leaf(f, k) \notin free
    BY LeafIs DEF DiskOK
  <1>2. data' \in [Blocks -> Block] /\ data'[Leaf(f, k)] = bytes
        /\ \A b \in Blocks : b # Leaf(f, k) => data'[b] = data[b]
    BY <1>1 DEF Put
  <1>3. \A g \in Files : \A l \in 1 .. file[g].leaves : Leaf(g, l) \in Blocks
    BY LeafIs
  <1>4. ASSUME NEW g \in Files \ half, NEW l \in 1 .. file[g].leaves, g # f \/ l # k
        PROVE  Leaf(g, l) # Leaf(f, k)
    <2>1. CASE g # f
      BY <2>1, LeavesApart
    <2>2. CASE g = f
      BY <1>4, <2>2, LeafOnce
    <2> QED
      BY <2>1, <2>2
  <1>5. DiskOK'
    BY <1>2 DEF DiskOK
  <1>6. \A b \in free : b \in Blocks
    BY DEF DiskOK
  <1> QED
    BY <1>1, <1>2, <1>3, <1>4, <1>5, <1>6 DEF Leaf

\* A record or a size changes no link.
LEMMA RecordKeeps ==
    ASSUME DiskOK, NEW f \in Files, file[f].exists, free' = free, data' = data,
           half' = half, file' \in [Files -> FileRecords],
           \A g \in Files \ {f} : file'[g] = file[g],
           /\ file'[f].links = file[f].links /\ file'[f].leaves = file[f].leaves
           /\ file'[f].exists = file[f].exists
    PROVE  /\ DiskOK'
           /\ \A g \in Files : /\ file'[g].leaves = file[g].leaves
                                /\ file'[g].exists = file[g].exists
                                /\ \A k : Leaf(g, k)' = Leaf(g, k)
           /\ \A g \in Files : Apart(g) => Apart(g)'
  <1>1. \A g \in Files : /\ file'[g].links = file[g].links
                         /\ file'[g].leaves = file[g].leaves
                         /\ file'[g].exists = file[g].exists
    OBVIOUS
  <1>2. \A g \in Files : file'[g].exists \/ (file'[g] = NoFile /\ g \notin half')
    BY <1>1 DEF DiskOK
  <1>3. DiskOK'
    BY <1>1, <1>2, SMTT(30) DEF DiskOK
  <1>4. \A g \in Files : Apart(g) => Apart(g)'
    BY <1>1 DEF Apart
  <1> QED
    BY <1>1, <1>3, <1>4 DEF Leaf

------------------------------------------------------------------------------
(* Steps that leave the files alone.                                        *)

LEMMA CallStarts ==
    ASSUME NEW blocks \in 0 .. Capacity, NEW empty \in 0 .. MaxEmpty,
           CallCheck(blocks, empty)
    PROVE  CallInv'
  <1>1. CheckInit'
    BY DEF CallCheck, CheckInit
  <1>2. (CheckInit => Inv)'
    BY InitInv, PTL
  <1>3. (CheckInit => CountInv)'
    BY InitCountInv, PTL
  <1> QED
    BY <1>1, <1>2, <1>3 DEF CallInv

LEMMA CallKeeps == CallInv /\ [CheckNext]_checkVars => CallInv'
  BY NextInv, NextCountInv DEF CallInv

LEMMA NoCheckKeeps == NoCheck => CallInv'
  <1>1. 0 \in 0 .. Capacity /\ 0 \in 0 .. MaxEmpty
    BY Sizes, MaxEmptyAssumption
  <1> QED
    BY <1>1, CallStarts DEF NoCheck

LEMMA FreeIsCounted ==
    ASSUME DiskOK
    PROVE  Cardinality(free) \in 0 .. MaxEmpty
  <1>1. IsFiniteSet(Blocks) /\ Cardinality(Blocks) = BlockCount
    BY Sizes, FS_Interval DEF Blocks
  <1>2. free \subseteq Blocks
    BY DEF DiskOK
  <1>3. Cardinality(free) <= Cardinality(Blocks) /\ Cardinality(free) \in Nat
    BY <1>1, <1>2, FS_Subset, FS_CardinalityType
  <1> QED
    BY <1>1, <1>3, Sizes, StreamAssumption

LEMMA QuietKeeps ==
    ASSUME IInv, UNCHANGED <<diskVars, stored, begun, torn, half>>, mixed => mixed'
    PROVE  DiskOK' /\ OwnOK' /\ WholeOK'
  <1> USE DEF diskVars
  <1>1. DiskOK'
    BY DEF IInv, DiskOK
  <1>2. OwnOK'
    BY DEF IInv, OwnOK, Own, Leaf
  <1>3. WholeOK'
    BY DEF IInv, WholeOK, Leaf
  <1> QED
    BY <1>1, <1>2, <1>3

LEMMA IdleKeeps ==
    ASSUME op' = Idle, out' = <<>>
    PROVE  OpTypeOK' /\ StoreOK' /\ CopyOK' /\ OutOK'
  <1>1. Nothing \in Contents
    BY StreamAssumption DEF Nothing, Contents
  <1>2. 0 \in 0 .. Capacity + 1
    BY Sizes
  <1>3. Idle \in Commands
    BY <1>1, <1>2 DEF Idle, Commands
  <1>4. op'.at = "none"
    BY DEF Idle
  <1> QED
    BY <1>3, <1>4 DEF OpTypeOK, StoreOK, Storing, CopyOK, OutOK

\* A command that stores a file begins.
LEMMA StoreStarts ==
    ASSUME IInv, NEW c \in Contents, NEW f \in Files, NEW g \in Files \union {0},
           Store(c, f, g),
           \/ g = 0 /\ c.version >= 1
           \/ /\ g # 0 /\ g # f /\ ~file[f].exists
              /\ c = [stored[g] EXCEPT !.size = file[g].size]
    PROVE  /\ CallInv' /\ DiskOK' /\ OwnOK' /\ WholeOK'
           /\ OpTypeOK' /\ StoreOK' /\ CopyOK' /\ OutOK'
  <1>1. /\ op = Idle /\ out' = out
        /\ UNCHANGED <<diskVars, stored, begun, torn, half>>
        /\ mixed' = (mixed \/ f \in half \/ g \in half)
        /\ ~TooBig(CountBlocks(c.size))
        /\ CallCheck(CountBlocks(c.size), Cardinality(free))
    BY DEF Store
  <1>2. op' = [Idle EXCEPT !.cmd = IF g = 0 THEN "incp" ELSE "cp", !.at = "check",
                           !.target = f, !.source = g, !.content = c]
    BY DEF Store
  <1>3. c.size \in Nat
    BY SizesAreNat DEF Contents
  <1>4. CallInv'
    <2>1. CountBlocks(c.size) \in 0 .. Capacity
      BY <1>1, <1>3, CountBlocksIs, Sizes DEF TooBig
    <2>2. Cardinality(free) \in 0 .. MaxEmpty
      BY FreeIsCounted DEF IInv
    <2> QED
      BY <1>1, <2>1, <2>2, CallStarts
  <1>5. DiskOK' /\ OwnOK' /\ WholeOK'
    BY <1>1, QuietKeeps
  <1>6. op' \in Commands
    <2>1. 0 \in 0 .. Capacity + 1
      BY Sizes
    <2> QED
      BY <1>2, <2>1 DEF Commands, Idle
  <1>7. /\ op'.at = "check" /\ op'.target = f /\ op'.source = g /\ op'.content = c
        /\ op'.cmd = IF g = 0 THEN "incp" ELSE "cp"
    BY <1>2 DEF Idle
  <1>8. StoreOK'
    BY <1>1, <1>7, StreamAssumption DEF StoreOK, diskVars
  <1>9. CopyOK'
    BY <1>7 DEF CopyOK
  <1>10. OutOK'
    BY <1>1, <1>7 DEF OutOK, IInv, Idle
  <1> QED
    BY <1>4, <1>5, <1>6, <1>8, <1>9, <1>10 DEF OpTypeOK

LEMMA StartsKeep ==
    ASSUME IInv, StartIncp \/ StartCp
    PROVE  IInv'
  <1>0. /\ HistoryOK /\ DiskOK /\ WholeOK /\ file \in [Files -> FileRecords]
        /\ \A f \in Files : file[f].exists \/ file[f] = NoFile
    BY DEF IInv, DiskOK
  <1>1. CASE StartIncp
    <2>1. version' = version + 1 /\ version' \in 0 .. MaxVersions /\ version' >= 1
      BY <1>0, <1>1, StreamAssumption DEF StartIncp, HistoryOK
    <2>2. PICK f \in Files, size \in HostSizes, zero \in HostZeros :
             Store([version |-> version', size |-> size, zero |-> zero], f, 0)
      BY <1>1 DEF StartIncp
    <2>3. [version |-> version', size |-> size, zero |-> zero] \in Contents
      BY <2>1 DEF Contents
    <2>4. /\ CallInv' /\ DiskOK' /\ OwnOK' /\ WholeOK'
          /\ OpTypeOK' /\ StoreOK' /\ CopyOK' /\ OutOK'
      BY <2>1, <2>2, <2>3, StoreStarts
    <2>5. HistoryOK'
      BY <1>0, <2>1, <2>2 DEF Store, HistoryOK
    <2> QED
      BY <2>4, <2>5 DEF IInv
  <1>2. CASE StartCp
    <2>1. PICK f \in Files, g \in Files :
             /\ file[f].named /\ f # g /\ ~file[g].exists
             /\ Store([stored[f] EXCEPT !.size = file[f].size], g, f)
      BY <1>2 DEF StartCp
    <2>2. [stored[f] EXCEPT !.size = file[f].size] \in Contents
      <3>1. stored[f] \in Contents
        BY <1>0 DEF HistoryOK
      <3>2. file[f].size \in HostSizes \union {0}
        BY <1>0 DEF FileRecords
      <3> QED
        BY ONLY <3>1, <3>2 DEF Contents
    <2>3. f # 0 /\ f # g
      BY <2>1, StreamAssumption
    <2>4. /\ CallInv' /\ DiskOK' /\ OwnOK' /\ WholeOK'
          /\ OpTypeOK' /\ StoreOK' /\ CopyOK' /\ OutOK'
      BY <2>1, <2>2, <2>3, StoreStarts
    <2>5. HistoryOK'
      BY <1>0, <1>2, <2>1 DEF StartCp, Store, HistoryOK
    <2> QED
      BY <2>4, <2>5 DEF IInv
  <1> QED
    BY <1>1, <1>2

\* Steps of the check, and those that do nothing.
LEMMA StillKeeps ==
    ASSUME IInv, UNCHANGED <<diskVars, historyVars, op, out, version, kills>>,
           [CheckNext]_checkVars
    PROVE  IInv'
  <1> USE DEF diskVars, historyVars
  <1>1. CallInv'
    BY CallKeeps DEF IInv
  <1>2. DiskOK' /\ OwnOK' /\ WholeOK'
    BY QuietKeeps
  <1>3. HistoryOK' /\ OpTypeOK'
    BY DEF IInv, HistoryOK, OpTypeOK
  <1>4. StoreOK'
    BY DEF IInv, StoreOK, Storing, Apart
  <1>5. CopyOK'
    <2>1. CopyOK
      BY DEF IInv
    <2>2. op' = op /\ file' = file /\ data' = data
      OBVIOUS
    <2>3. ASSUME NEW x
          PROVE  Copied(x)' <=> Copied(x)
      <3>1. To(x)' = To(x)
        BY <2>2 DEF To, Leaf
      <3> QED
        BY <2>2, <3>1 DEF Copied, BlockOf
    <2> QED
      BY <2>1, <2>2, <2>3 DEF CopyOK
  <1>6. OutOK'
    BY DEF IInv, OutOK, ByteOf
  <1> QED
    BY <1>1, <1>2, <1>3, <1>4, <1>5, <1>6 DEF IInv

\* Commands that end, or are killed, without another write.
LEMMA EndsKeep ==
    ASSUME IInv, Refuses \/ ParentMissing \/ OutcpDone \/ Kill
    PROVE  IInv'
  <1>1. UNCHANGED <<diskVars, historyVars, version>> /\ op' = Idle
    BY DEF Refuses, ParentMissing, OutcpDone, Kill, Killed
  <1>2. CallInv'
    <2>1. UNCHANGED checkVars \/ NoCheck
      BY DEF Refuses, ParentMissing, OutcpDone, Kill, Killed
    <2> QED
      BY <2>1, CallKeeps, NoCheckKeeps DEF IInv
  <1>3. out' = <<>>
    BY DEF Refuses, ParentMissing, OutcpDone, Kill, Killed, IInv, OutOK
  <1>4. kills' \in 0 .. MaxKills
    BY StreamAssumption DEF Refuses, ParentMissing, OutcpDone, Kill, Killed, IInv, HistoryOK
  <1>5. HistoryOK'
    BY <1>1, <1>4 DEF IInv, HistoryOK, historyVars
  <1> QED
    BY <1>1, <1>2, <1>3, <1>5, QuietKeeps, IdleKeeps DEF IInv, historyVars

------------------------------------------------------------------------------
(* outcp.                                                                   *)

LEMMA StartOutcpKeeps ==
    ASSUME IInv, StartOutcp
    PROVE  IInv'
  <1>1. PICK f \in Files : op' = [Idle EXCEPT !.cmd = "outcp", !.at = "out", !.source = f,
                                              !.k = 1, !.left = file[f].size]
    BY DEF StartOutcp
  <1>2. /\ op = Idle /\ UNCHANGED <<checkVars, diskVars, historyVars, out, version, kills>>
    BY DEF StartOutcp
  <1>3. file[f].size \in Nat /\ file[f].leaves \in Nat
    <2>1. file \in [Files -> FileRecords]
      BY DEF IInv, DiskOK
    <2> QED
      BY <2>1, SizesAreNat, Sizes DEF FileRecords
  <1>4. out = <<>>
    BY <1>2 DEF IInv, OutOK, Idle
  <1>5. /\ op'.at = "out" /\ op'.source = f /\ op'.k = 1 /\ op'.left = file[f].size
    BY <1>1 DEF Idle
  <1>6. OpTypeOK'
    <2>1. 1 \in 0 .. Capacity + 1
      BY Sizes
    <2>2. Nothing \in Contents
      BY StreamAssumption DEF Nothing, Contents
    <2> QED
      BY <1>1, <1>3, <2>1, <2>2 DEF OpTypeOK, Commands, Idle
  <1>7. OutOK'
    <2>1. (op'.k - 1) * BlockSize = 0
      BY <1>5, Sizes
    <2>2. op'.left = IF file[f].size > 0 THEN file[f].size - 0 ELSE 0
      BY <1>3, <1>5
    <2>3. out' = <<>> /\ file' = file
      BY <1>2, <1>4 DEF diskVars
    <2>4. Len(out') = 0 /\ out' \in Seq(Bytes) /\ file[f].size - op'.left = 0
      BY <1>3, <1>5, <2>3
    <2>5. op'.k \in 1 .. file[f].leaves + 1
      BY <1>3, <1>5
    <2>6. \A p \in 1 .. Len(out') : FALSE
      BY <2>4
    <2>7. op'.left = IF file'[f].size > 0 THEN file'[f].size - 0 ELSE 0
      BY <2>2, <2>3
    <2>8. Len(out') = file'[f].size - op'.left /\ out' \in Seq(Bytes)
      BY <2>3, <2>4
    <2>9. op'.k \in 1 .. file'[f].leaves + 1
      BY <2>3, <2>5
    <2> QED
      BY ONLY <1>5, <2>1, <2>6, <2>7, <2>8, <2>9, f \in Files DEF OutOK
  <1>8. StoreOK' /\ CopyOK'
    BY <1>5 DEF StoreOK, Storing, CopyOK
  <1>9. HistoryOK'
    BY <1>2 DEF IInv, HistoryOK, historyVars
  <1>10. CallInv'
    BY <1>2, CallKeeps DEF IInv
  <1>11. DiskOK' /\ OwnOK' /\ WholeOK'
    BY <1>2, QuietKeeps DEF historyVars
  <1> QED
    BY <1>6, <1>7, <1>8, <1>9, <1>10, <1>11 DEF IInv

LEMMA WritesOutKeeps ==
    ASSUME IInv, WritesOut
    PROVE  IInv'
  <1> DEFINE f == op.source
             k == op.k
             size == file[f].size
             done == (k - 1) * BlockSize
             block == data[Leaf(f, k)]
             w == ToWrite(op.left)
  <1>1. /\ op.at = "out" /\ op.left # 0 /\ ~(k > file[f].leaves)
        /\ out' = out \o SubSeq(block, 1, w)
        /\ op' = [op EXCEPT !.k = @ + 1,
                            !.left = IF @ > BlockSize THEN @ - BlockSize ELSE 0]
        /\ UNCHANGED <<checkVars, diskVars, historyVars, version, kills>>
    BY DEF WritesOut, AllOut, From
  <1>2. /\ f \in Files /\ k \in 1 .. file[f].leaves + 1
        /\ op.left = IF size > done THEN size - done ELSE 0
        /\ out \in Seq(Bytes) /\ Len(out) = size - op.left
        /\ f \notin torn => \A p \in 1 .. Len(out) : out[p] = ByteOf(stored[f], p)
        /\ f \notin half /\ ~mixed =>
             \A p \in 1 .. Len(out) : out[p] = Zero \/ out[p][1] \in begun[f]
    BY <1>1 DEF IInv, OutOK
  <1>3. DiskOK /\ op \in Commands /\ HistoryOK
    BY DEF IInv, OpTypeOK
  <1>4. size \in Nat /\ file[f].leaves \in Nat /\ file[f].leaves <= Capacity
    <2>1. file \in [Files -> FileRecords]
      BY <1>3 DEF DiskOK
    <2> QED
      BY <1>2, <2>1, SizesAreNat, Sizes DEF FileRecords
  <1> HIDE DEF block, size
  <1>5. k \in 1 .. file[f].leaves /\ k \in Nat /\ k > 0
    BY <1>1, <1>2, <1>4
  <1>6. done \in Nat /\ k * BlockSize = done + BlockSize /\ BlockSize \in Nat /\ BlockSize > 0
    BY <1>5, Sizes
  <1>7. size > done /\ op.left = size - done /\ Len(out) = done
    BY <1>1, <1>2, <1>4, <1>6
  <1>9. block \in Block
    BY <1>2, <1>3, <1>5, LeafIs DEF block
  <1>10. w \in 1 .. BlockSize /\ done + w <= size
         /\ w = IF size > done + BlockSize THEN BlockSize ELSE size - done
    BY <1>4, <1>6, <1>7 DEF ToWrite
  <1> HIDE DEF w, done
  <1>11. /\ SubSeq(block, 1, w) \in Seq(Bytes) /\ Len(SubSeq(block, 1, w)) = w
         /\ \A p \in 1 .. w : SubSeq(block, 1, w)[p] = block[p]
    <2>1. block \in Seq(Bytes) /\ Len(block) = BlockSize
      BY <1>6, <1>9 DEF Block
    <2> QED
      BY <1>10, <2>1
  <1>12. /\ out' \in Seq(Bytes) /\ Len(out') = done + w
         /\ \A p \in 1 .. done : out'[p] = out[p]
         /\ \A p \in 1 .. done + w : p \in 1 .. done \/ (p - done \in 1 .. w /\ out'[p] = block[p - done])
    <2> DEFINE t == SubSeq(block, 1, w)
    <2>1. t \in Seq(Bytes) /\ Len(t) = w /\ \A p \in 1 .. w : t[p] = block[p]
      BY <1>11
    <2>2. out' = out \o t
      BY <1>1
    <2>3. w \in Nat /\ done \in Nat /\ out \in Seq(Bytes) /\ Len(out) = done
      BY <1>2, <1>6, <1>7, <1>10
    <2> HIDE DEF t
    <2>4. /\ out' \in Seq(Bytes) /\ Len(out') = done + w
          /\ \A p \in 1 .. done : out'[p] = out[p]
          /\ \A p \in 1 .. done + w :
                p \in 1 .. done \/ (p - done \in 1 .. w /\ out'[p] = t[p - done])
      <3>1. /\ out \o t \in Seq(Bytes) /\ Len(out \o t) = done + w
            /\ \A p \in 1 .. done : (out \o t)[p] = out[p]
            /\ \A p \in 1 .. done + w :
                  p \in 1 .. done \/ (p - done \in 1 .. w /\ (out \o t)[p] = t[p - done])
        <4>1. t \in Seq(Bytes) /\ Len(t) = w
          BY ONLY <2>1
        <4>2. w \in Nat /\ done \in Nat /\ out \in Seq(Bytes) /\ Len(out) = done
          BY ONLY <2>3
        <4> QED
          BY ONLY <4>1, <4>2, SMT
      <3> QED
        BY ONLY <2>2, <3>1, Zenon
    <2> QED
      BY ONLY <2>1, <2>4
  <1>13. /\ op'.at = "out" /\ op'.source = f /\ op'.k = k + 1
         /\ op'.left = IF op.left > BlockSize THEN op.left - BlockSize ELSE 0
    BY <1>1, <1>3 DEF Commands
  <1>14. op'.left = (IF size > k * BlockSize THEN size - k * BlockSize ELSE 0)
         /\ done + w = size - op'.left
    BY <1>4, <1>6, <1>7, <1>10, <1>13
  <1>15. ASSUME f \notin torn, NEW p \in 1 .. done + w
         PROVE  out'[p] = ByteOf(stored[f], p)
    <2>1. CASE p \in 1 .. done
      BY <1>2, <1>7, <1>12, <1>15, <2>1
    <2>2. CASE p - done \in 1 .. w /\ out'[p] = block[p - done]
      <3>1. block = BlockOf(stored[f], k) /\ stored[f].size = size
        BY <1>2, <1>5, <1>15 DEF IInv, WholeOK, block, size
      <3>2. stored[f] \in Contents
        BY <1>2, <1>3 DEF HistoryOK
      <3>3. p - done \in 1 .. BlockSize
        BY <1>6, <1>10, <2>2
      <3>4. block[p - done] = IF done + (p - done) <= size
                              THEN ByteOf(stored[f], done + (p - done)) ELSE Zero
        BY <1>5, <3>1, <3>2, <3>3, BlockOfIs DEF done
      <3>5. done + (p - done) = p /\ p <= size
        BY <1>4, <1>6, <1>10
      <3> QED
        BY <2>2, <3>4, <3>5
    <2> QED
      BY <1>12, <2>1, <2>2
  <1>16. ASSUME f \notin half, ~mixed, NEW p \in 1 .. done + w
         PROVE  out'[p] = Zero \/ out'[p][1] \in begun[f]
    <2>1. CASE p \in 1 .. done
      BY <1>2, <1>7, <1>12, <1>16, <2>1
    <2>2. CASE p - done \in 1 .. w /\ out'[p] = block[p - done]
      <3>1. Own(f, block)
        BY <1>2, <1>5, <1>16 DEF IInv, OwnOK, block
      <3>2. p - done \in 1 .. BlockSize
        BY <1>6, <1>10, <2>2
      <3> QED
        BY <2>2, <3>1, <3>2 DEF Own
    <2> QED
      BY <1>12, <2>1, <2>2
  <1>17. OutOK'
    <2>1. UNCHANGED <<file, stored, begun, torn, half, mixed>>
      BY <1>1 DEF diskVars, historyVars
    <2>2. op'.k \in 1 .. file[f].leaves + 1 /\ (op'.k - 1) * BlockSize = k * BlockSize
      BY <1>4, <1>5, <1>13
    <2> QED
      BY <1>2, <1>12, <1>13, <1>14, <1>15, <1>16, <2>1, <2>2 DEF OutOK, ByteOf, size
  <1>18. OpTypeOK'
    <2>1. k + 1 \in 0 .. Capacity + 1
      BY <1>4, <1>5, Sizes
    <2>2. op'.left \in Nat
      BY <1>3, <1>6, <1>13 DEF Commands
    <2> QED
      BY <1>1, <1>3, <1>13, <2>1, <2>2 DEF OpTypeOK, Commands
  <1>19. StoreOK' /\ CopyOK'
    BY <1>13 DEF StoreOK, Storing, CopyOK
  <1>20. HistoryOK' /\ CallInv'
    BY <1>1, CallKeeps DEF IInv, HistoryOK, historyVars
  <1>21. DiskOK' /\ OwnOK' /\ WholeOK'
    BY <1>1, QuietKeeps DEF historyVars
  <1> QED
    BY <1>17, <1>18, <1>19, <1>20, <1>21 DEF IInv

------------------------------------------------------------------------------
(* Files that are removed, and records.                                     *)

LEMMA DiscardStep ==
    ASSUME IInv, NEW f \in Files, Discard(f), UNCHANGED <<version, kills>>
    PROVE  DiskOK' /\ OwnOK' /\ WholeOK' /\ HistoryOK'
  <1>1. DiskOK /\ HistoryOK
    BY DEF IInv
  <1>2. /\ stored' = [stored EXCEPT ![f] = Nothing] /\ begun' = [begun EXCEPT ![f] = {}]
        /\ torn' = (torn \union Sharing(f)) \ {f} /\ half' = (half \union Sharing(f)) \ {f}
        /\ mixed' = mixed
    BY DEF Discard
  <1>3. /\ DiskOK' /\ file'[f] = NoFile
        /\ \A g \in Files \ {f} : file'[g] = file[g]
        /\ \A g \in Files \ half' : g # f => g \notin half /\ Kept(g)
        /\ (\A b \in free : data[b] = Zeros) => (\A b \in free' : data'[b] = Zeros)
    BY <1>1, DiscardKeeps
  <1>4. /\ stored'[f] = Nothing
        /\ \A g \in Files \ {f} : stored'[g] = stored[g] /\ begun'[g] = begun[g]
    BY <1>1, <1>2 DEF HistoryOK
  <1>5. HistoryOK'
    <2>1. Nothing \in Contents
      BY StreamAssumption DEF Nothing, Contents
    <2>2. Sharing(f) \subseteq Files
      BY DEF Sharing
    <2> QED
      BY <1>1, <1>2, <2>1, <2>2 DEF HistoryOK
  <1>6. NoFile.leaves = 0 /\ NoFile.size = 0 /\ Nothing.size = 0
    BY DEF NoFile, Nothing
  <1>7. \A k \in 1 .. file'[f].leaves : FALSE
    BY <1>3, <1>6
  <1>8. OwnOK'
    <2> SUFFICES ASSUME ~mixed
                 PROVE  /\ \A b \in free' : data'[b] = Zeros
                        /\ \A g \in Files \ half' : \A k \in 1 .. file'[g].leaves :
                             Own(g, data[Leaf(g, k)])'
      BY <1>2 DEF OwnOK
    <2>1. \A b \in free' : data'[b] = Zeros
      BY <1>3 DEF IInv, OwnOK
    <2>2. ASSUME NEW g \in Files \ half', NEW k \in 1 .. file'[g].leaves
          PROVE  Own(g, data[Leaf(g, k)])'
      <3>1. g # f /\ g \notin half /\ file'[g] = file[g] /\ begun'[g] = begun[g] /\ Kept(g)
        BY <1>3, <1>4, <1>7, <2>2
      <3>2. Own(g, data[Leaf(g, k)]) /\ data'[Leaf(g, k)'] = data[Leaf(g, k)]
        BY <3>1 DEF IInv, OwnOK, Kept
      <3> QED
        BY <3>1, <3>2 DEF Own
    <2> QED
      BY <2>1, <2>2
  <1>9. WholeOK'
    <2> SUFFICES ASSUME NEW g \in Files \ torn'
                 PROVE  /\ stored'[g].size = file'[g].size
                        /\ file'[g].leaves = CountBlocks(file'[g].size)
                        /\ \A k \in 1 .. file'[g].leaves :
                             data'[Leaf(g, k)'] = BlockOf(stored'[g], k)
      BY DEF WholeOK
    <2>1. CASE g = f
      <3>1. CountBlocks(0) = 0
        BY CountBlocksIs
      <3> QED
        BY <1>3, <1>4, <1>6, <1>7, <2>1, <3>1
    <2>2. CASE g # f
      <3>1. g \notin torn /\ g \notin half'
        BY <1>1, <1>2, <2>2 DEF HistoryOK
      <3>2. file'[g] = file[g] /\ stored'[g] = stored[g] /\ Kept(g)
        BY <1>3, <1>4, <2>2, <3>1
      <3> QED
        BY <3>1, <3>2 DEF IInv, WholeOK, Kept
    <2> QED
      BY <2>1, <2>2
  <1> QED
    BY <1>3, <1>5, <1>8, <1>9

LEMMA DiscardsKeep ==
    ASSUME IInv, RecordFails \/ CopyFails \/ Removes
    PROVE  IInv'
  <1>1. UNCHANGED <<checkVars, out, version, kills>> /\ op' = Idle /\ op.at # "out"
    BY DEF RecordFails, CopyFails, Removes, Idle
  <1>2. PICK f \in Files : Discard(f)
    BY DEF RecordFails, CopyFails, Removes, IInv, StoreOK, Storing
  <1>3. out' = <<>>
    BY <1>1 DEF IInv, OutOK
  <1>4. CallInv'
    BY <1>1, CallKeeps DEF IInv
  <1> QED
    BY <1>1, <1>2, <1>3, <1>4, DiscardStep, IdleKeeps DEF IInv

\* A file gets a record, or loses it: nothing that is said of its contents changes.
LEMMA NamedStep ==
    ASSUME IInv, NEW f \in Files, NEW named \in BOOLEAN, file[f].exists,
           file' = [file EXCEPT ![f].named = named],
           UNCHANGED <<free, data, historyVars>>
    PROVE  /\ DiskOK' /\ OwnOK' /\ WholeOK'
           /\ \A g \in Files : /\ file'[g].leaves = file[g].leaves
                               /\ file'[g].size = file[g].size
                               /\ file'[g].exists = file[g].exists
                               /\ \A k : Leaf(g, k)' = Leaf(g, k)
           /\ \A g \in Files : Apart(g) => Apart(g)'
  <1> USE DEF historyVars
  <1>1. DiskOK /\ HistoryOK /\ OwnOK /\ WholeOK
    BY DEF IInv
  <1>2. file' \in [Files -> FileRecords] /\ file'[f].size = file[f].size
        /\ file'[f].links = file[f].links /\ file'[f].leaves = file[f].leaves
        /\ file'[f].exists = file[f].exists
        /\ \A g \in Files \ {f} : file'[g] = file[g]
    <2>1. file \in [Files -> FileRecords]
      BY <1>1 DEF DiskOK
    <2>2. file'[f] = [file[f] EXCEPT !.named = named]
      BY <2>1 DEF FileRecords
    <2>3. \A g \in Files \ {f} : file'[g] = file[g]
      BY <2>1
    <2>4. /\ file'[f] \in FileRecords /\ file'[f].size = file[f].size
          /\ file'[f].links = file[f].links /\ file'[f].leaves = file[f].leaves
          /\ file'[f].exists = file[f].exists
      BY ONLY <2>1, <2>2, f \in Files DEF FileRecords
    <2>5. file' \in [Files -> FileRecords]
      BY <2>1, <2>4
    <2> QED
      BY <2>3, <2>4, <2>5
  <1>3. /\ DiskOK'
        /\ \A g \in Files : /\ file'[g].leaves = file[g].leaves
                            /\ file'[g].size = file[g].size
                            /\ file'[g].exists = file[g].exists
                            /\ \A k : Leaf(g, k)' = Leaf(g, k)
        /\ \A g \in Files : Apart(g) => Apart(g)'
    <2>1. free' = free /\ data' = data /\ half' = half
      OBVIOUS
    <2>2. \A g \in Files : file'[g].size = file[g].size
      BY <1>2
    <2> QED
      BY ONLY <1>1, <1>2, <2>1, <2>2, file[f].exists, f \in Files, RecordKeeps
  <1>5. OwnOK'
    BY <1>1, <1>3 DEF OwnOK, Own
  <1>6. WholeOK'
    BY <1>1, <1>3 DEF WholeOK
  <1> QED
    BY <1>3, <1>5, <1>6

LEMMA FsckRescuesKeeps ==
    ASSUME IInv, FsckRescues
    PROVE  IInv'
  <1>1. /\ op = Idle /\ op' = op
        /\ UNCHANGED <<checkVars, free, data, historyVars, out, version, kills>>
    BY DEF FsckRescues
  <1>2. PICK f \in Files : file[f].exists /\ file' = [file EXCEPT ![f].named = TRUE]
    BY DEF FsckRescues
  <1>3. out' = <<>>
    BY <1>1 DEF IInv, OutOK, Idle
  <1>4. CallInv'
    BY <1>1, CallKeeps DEF IInv
  <1>5. HistoryOK'
    BY <1>1 DEF IInv, HistoryOK, historyVars
  <1> QED
    BY <1>1, <1>2, <1>3, <1>4, <1>5, NamedStep, IdleKeeps DEF IInv

LEMMA RecordsKeeps ==
    ASSUME IInv, Records
    PROVE  IInv'
  <1> DEFINE f == op.target
  <1>1. /\ op.at = "record"
        /\ file' = [file EXCEPT ![f].named = TRUE]
        /\ op' = [op EXCEPT !.at = "copy", !.k = 1]
        /\ UNCHANGED <<checkVars, free, data, historyVars, out, version, kills>>
    BY DEF Records
  <1>2. f \in Files /\ file[f].exists
    BY <1>1 DEF IInv, StoreOK, Storing
  <1>30. HistoryOK'
    BY <1>1 DEF IInv, HistoryOK, historyVars
  <1>3. /\ DiskOK' /\ OwnOK' /\ WholeOK'
        /\ \A g \in Files : /\ file'[g].leaves = file[g].leaves
                            /\ file'[g].size = file[g].size
                            /\ file'[g].exists = file[g].exists
        /\ \A g \in Files : Apart(g) => Apart(g)'
    BY <1>1, <1>2, NamedStep
  <1>4. op \in Commands
    BY DEF IInv, OpTypeOK
  <1>5. /\ op'.at = "copy" /\ op'.k = 1 /\ op'.target = f /\ op'.source = op.source
        /\ op'.cmd = op.cmd /\ op'.content = op.content /\ op'.clean = op.clean
    BY <1>1, <1>4 DEF Commands
  <1>6. OpTypeOK'
    <2>1. 1 \in 0 .. Capacity + 1
      BY Sizes
    <2> QED
      BY <1>1, <1>4, <2>1 DEF OpTypeOK, Commands
  <1>7. StoreOK'
    <2>1. op.source \in Files => file'[op.source].size = file[op.source].size
      BY <1>3
    <2>2. StoreOK
      BY DEF IInv
    <2>3. UNCHANGED historyVars
      BY <1>1
    <2> QED
      BY <1>1, <1>2, <1>3, <1>5, <2>1, <2>2, <2>3 DEF StoreOK, Storing, historyVars
  <1>8. CopyOK'
    <2>1. file'[f].leaves \in Nat
      BY <1>2, <1>3, Sizes DEF DiskOK, FileRecords
    <2> QED
      BY <1>5, <2>1 DEF CopyOK
  <1>9. OutOK'
    BY <1>1, <1>5 DEF IInv, OutOK
  <1>10. CallInv'
    BY <1>1, CallKeeps DEF IInv
  <1> QED
    BY <1>3, <1>30, <1>6, <1>7, <1>8, <1>9, <1>10 DEF IInv

------------------------------------------------------------------------------
(* Copying.                                                                 *)

\* What is said of the blocks copied so far stays when neither they nor the
\* command change.
LEMMA CopiedKept ==
    ASSUME NEW x, Copied(x),
           To(x)' = To(x), data'[To(x)] = data[To(x)],
           /\ op'.cmd = op.cmd /\ op'.clean = op.clean /\ op'.content = op.content
           /\ op'.source = op.source /\ op'.target = op.target
    PROVE  Copied(x)'
  BY DEF Copied, BlockOf

\* A block is copied to the file the command stores.
LEMMA CopyStep ==
    ASSUME IInv, op.at \in {"copy", "over"},
           NEW k \in 1 .. file[op.target].leaves, NEW bytes \in Block,
           Put(To(k), bytes),
           ~mixed => Own(op.target, bytes),
           UNCHANGED <<checkVars, free, file, historyVars, out, version, kills>>,
           /\ op'.cmd = op.cmd /\ op'.clean = op.clean /\ op'.content = op.content
           /\ op'.source = op.source /\ op'.target = op.target
    PROVE  /\ CallInv' /\ DiskOK' /\ HistoryOK' /\ OwnOK' /\ WholeOK'
           /\ To(k)' = To(k) /\ data'[To(k)] = bytes
           /\ \A x \in 1 .. file[op.target].leaves : x # k /\ Copied(x) => Copied(x)'
  <1> DEFINE f == op.target
  <1> USE DEF historyVars
  <1>1. DiskOK /\ HistoryOK /\ OwnOK /\ WholeOK /\ CallInv
    BY DEF IInv
  <1>2. f \in Files /\ f \in torn /\ Apart(f) /\ (f \in half => mixed)
    BY DEF IInv, StoreOK, Storing
  <1>3. To(k) = Leaf(f, k)
    BY DEF To
  <1>4. /\ DiskOK' /\ data'[Leaf(f, k)] = bytes
        /\ \A g \in Files : \A l \in 1 .. file[g].leaves :
             /\ Leaf(g, l)' = Leaf(g, l)
             /\ g \notin half /\ (g # f \/ l # k) => data'[Leaf(g, l)] = data[Leaf(g, l)]
        /\ f \notin half => \A b \in free : data'[b] = data[b]
    BY <1>1, <1>2, <1>3, PutKeeps
  <1>5. HistoryOK' /\ CallInv'
    BY <1>1, CallKeeps DEF HistoryOK
  <1>6. OwnOK'
    <2> SUFFICES ASSUME ~mixed
                 PROVE  /\ \A b \in free : data'[b] = Zeros
                        /\ \A g \in Files \ half : \A l \in 1 .. file[g].leaves :
                             Own(g, data'[Leaf(g, l)])
      BY <1>4 DEF OwnOK, Own
    <2>1. \A b \in free : data'[b] = Zeros
      BY <1>1, <1>2, <1>4 DEF OwnOK
    <2>2. ASSUME NEW g \in Files \ half, NEW l \in 1 .. file[g].leaves
          PROVE  Own(g, data'[Leaf(g, l)])
      <3>1. CASE g # f \/ l # k
        BY <1>1, <1>4, <3>1 DEF OwnOK
      <3>2. CASE g = f /\ l = k
        BY <1>4, <3>2
      <3> QED
        BY <3>1, <3>2
    <2> QED
      BY <2>1, <2>2
  <1>7. WholeOK'
    <2>1. \A g \in Files \ torn : g # f /\ g \notin half
      BY <1>1, <1>2 DEF HistoryOK
    <2> QED
      BY <1>1, <1>4, <2>1 DEF WholeOK
  <1>8. \A x \in 1 .. file[f].leaves :
           To(x)' = To(x) /\ (x # k /\ f \notin half => data'[To(x)] = data[To(x)])
    BY <1>2, <1>4 DEF To, Leaf
  <1>9. ASSUME NEW x \in 1 .. file[f].leaves, x # k, Copied(x) PROVE Copied(x)'
    <2>1. CASE ~op.clean
      BY <2>1 DEF Copied
    <2>2. CASE op.clean
      <3>1. f \notin half
        BY <2>2 DEF IInv, StoreOK, Storing
      <3> QED
        BY <1>8, <1>9, <3>1, CopiedKept
    <2> QED
      BY <2>1, <2>2
  <1> QED
    BY <1>3, <1>4, <1>5, <1>6, <1>7, <1>8, <1>9

LEMMA OverwrittenIsBlock ==
    ASSUME NEW block \in Block, NEW c \in Contents, NEW k \in Nat, k > 0
    PROVE  Overwritten(block, Read(c, k)) \in Block
  <1>1. c.size \in Nat /\ c.version \in 0 .. MaxVersions
    BY SizesAreNat DEF Contents
  <1>2. Read(c, k) \in Seq({c.version, 0} \X Nat)
    BY <1>1, ReadIs
  <1>3. \A p \in 1 .. Len(Read(c, k)) : Read(c, k)[p] \in Bytes
    BY <1>1, <1>2, StreamAssumption DEF Bytes
  <1>4. Len(Read(c, k)) \in Nat
    BY <1>2
  <1>5. \A p \in 1 .. BlockSize : p <= Len(Read(c, k)) => Read(c, k)[p] \in Bytes
    BY <1>3, <1>4, Sizes
  <1> QED
    BY <1>5 DEF Overwritten, Block

LEMMA CopiesInPlaceKeeps ==
    ASSUME IInv, CopiesInPlace
    PROVE  IInv'
  <1>0. op \in Commands /\ op.k \in Nat
    BY Sizes DEF IInv, OpTypeOK, Commands
  <1> SUFFICES ASSUME NEW k \in Nat, k = op.k PROVE IInv'
    BY <1>0
  <1> DEFINE f == op.target
             bytes == Overwritten(data[To(k)], Read(op.content, k))
  <1>1. /\ op.at = "copy" /\ op.cmd = "incp" /\ k <= CountBlocks(op.content.size)
        /\ Put(To(k), bytes) /\ op' = [op EXCEPT !.k = k + 1]
        /\ UNCHANGED <<checkVars, free, file, historyVars, out, version, kills>>
    BY DEF CopiesInPlace
  <1>2. /\ f \in Files /\ op.content.version \in begun[f]
        /\ f \notin half /\ file[f].leaves = CountBlocks(op.content.size)
        /\ k \in 1 .. file[f].leaves + 1
        /\ \A x \in 1 .. k - 1 : x * BlockSize <= op.content.size => Copied(x)
        /\ op \in Commands /\ DiskOK
    BY <1>1 DEF IInv, StoreOK, Storing, CopyOK, OpTypeOK
  <1>3. file[f].leaves \in Nat /\ file[f].leaves <= Capacity /\ k \in 1 .. file[f].leaves
    BY <1>1, <1>2, Sizes DEF DiskOK, FileRecords
  <1>4. op.content \in Contents /\ k \in Nat /\ k > 0
    BY <1>2, <1>3 DEF Commands
  <1>5. bytes \in Block
    <2>1. data[To(k)] \in Block
      BY <1>2, <1>3, LeafIs DEF To
    <2> QED
      BY <1>4, <2>1, OverwrittenIsBlock
  <1>6. k * BlockSize <= op.content.size => bytes = BlockOf(op.content, k)
    BY <1>4, BlockOfIs
  <1>60. ASSUME ~mixed PROVE Own(f, bytes)
    <2>1. Own(f, data[To(k)])
      BY <1>1, <1>2, <1>3, <1>60 DEF IInv, OwnOK, To
    <2>2. Own(f, BlockOf(op.content, k))
      BY <1>2, <1>4, StoredIsOwn
    <2> QED
      BY <2>1, <2>2 DEF Own, BlockOf, Overwritten
  <1> HIDE DEF bytes
  <1>7. /\ op'.at = "copy" /\ op'.k = k + 1 /\ op'.target = f /\ op'.source = op.source
        /\ op'.cmd = op.cmd /\ op'.content = op.content /\ op'.clean = op.clean
    BY <1>1, <1>2 DEF Commands
  <1>8. /\ CallInv' /\ DiskOK' /\ HistoryOK' /\ OwnOK' /\ WholeOK'
        /\ To(k)' = To(k) /\ data'[To(k)] = bytes
        /\ \A x \in 1 .. file[f].leaves : x # k /\ Copied(x) => Copied(x)'
    BY <1>1, <1>3, <1>5, <1>60, <1>7, CopyStep
  <1>9. k * BlockSize <= op.content.size => Copied(k)'
    BY <1>6, <1>7, <1>8 DEF Copied, BlockOf
  <1>10. CopyOK'
    <2>1. k + 1 \in 1 .. file[f].leaves + 1
      BY <1>3
    <2>2. ASSUME NEW x \in 1 .. k, x * BlockSize <= op.content.size PROVE Copied(x)'
      <3>1. CASE x = k
        BY <1>9, <2>2, <3>1
      <3>2. CASE x # k
        BY <1>2, <1>3, <1>8, <2>2, <3>2
      <3> QED
        BY <3>1, <3>2
    <2>3. op'.k - 1 = k
      BY <1>3, <1>7
    <2> QED
      BY <1>1, <1>7, <2>1, <2>2, <2>3 DEF CopyOK
  <1>11. OpTypeOK'
    <2>1. k + 1 \in 0 .. Capacity + 1
      BY <1>3, Sizes
    <2> QED
      BY <1>1, <1>2, <2>1 DEF OpTypeOK, Commands
  <1>12. StoreOK'
    BY <1>1, <1>7 DEF IInv, StoreOK, Storing, historyVars, Apart
  <1>13. OutOK'
    BY <1>1, <1>7 DEF IInv, OutOK
  <1> QED
    BY <1>8, <1>10, <1>11, <1>12, <1>13 DEF IInv

\* What there is to say of a command that goes on copying, or comes to the size.
LEMMA GoesOn ==
    ASSUME IInv, op.at \in {"copy", "over"}, op'.at \in {op.at, "size"},
           NEW n \in 0 .. Capacity + 1,
           op' = [op EXCEPT !.k = n] \/ op' = [op EXCEPT !.at = "size"],
           UNCHANGED <<file, historyVars, out>>
    PROVE  OpTypeOK' /\ StoreOK' /\ OutOK'
  <1>1. op \in Commands
    BY DEF IInv, OpTypeOK
  <1>2. /\ op'.target = op.target /\ op'.source = op.source /\ op'.cmd = op.cmd
        /\ op'.content = op.content /\ op'.clean = op.clean
    BY <1>1 DEF Commands
  <1>3. OpTypeOK'
    BY <1>1 DEF OpTypeOK, Commands
  <1>4. StoreOK'
    BY <1>2 DEF IInv, StoreOK, Storing, historyVars, Apart
  <1>5. OutOK'
    BY <1>2 DEF IInv, OutOK
  <1> QED
    BY <1>3, <1>4, <1>5

\* Nothing is copied when the end is reached.
LEMMA EndStep ==
    ASSUME IInv, op.at \in {"copy", "over"}, op' = [op EXCEPT !.at = "size"],
           UNCHANGED <<checkVars, diskVars, historyVars, out, version, kills>>
    PROVE  /\ CallInv' /\ DiskOK' /\ HistoryOK' /\ OwnOK' /\ WholeOK'
           /\ \A x : Copied(x) => Copied(x)'
  <1>1. op \in Commands
    BY DEF IInv, OpTypeOK
  <1>2. /\ op'.target = op.target /\ op'.source = op.source /\ op'.cmd = op.cmd
        /\ op'.content = op.content /\ op'.clean = op.clean
    BY <1>1 DEF Commands
  <1>5. DiskOK' /\ OwnOK' /\ WholeOK'
    BY QuietKeeps DEF historyVars
  <1>3. \A x : To(x)' = To(x) /\ data'[To(x)] = data[To(x)]
    BY <1>2 DEF To, Leaf, diskVars
  <1>4. HistoryOK' /\ CallInv'
    BY CallKeeps DEF IInv, HistoryOK, historyVars
  <1> QED
    BY <1>2, <1>3, <1>4, <1>5, CopiedKept

LEMMA PadsLastKeeps ==
    ASSUME IInv, PadsLast
    PROVE  IInv'
  <1>0. op \in Commands /\ op.k \in Nat
    BY Sizes DEF IInv, OpTypeOK, Commands
  <1> SUFFICES ASSUME NEW k \in Nat, k = op.k PROVE IInv'
    BY <1>0
  <1> DEFINE f == op.target
             size == op.content.size
             bytes == Padded(Read(op.content, k - 1), data[To(k - 1)])
  <1>1. /\ op.at = "copy" /\ op.cmd = "incp" /\ k > CountBlocks(size)
        /\ IF size % BlockSize # 0 THEN Put(To(k - 1), bytes) ELSE UNCHANGED data
        /\ op' = [op EXCEPT !.at = "size"]
        /\ UNCHANGED <<checkVars, free, file, historyVars, out, version, kills>>
    BY DEF PadsLast
  <1>2. /\ f \in Files /\ op.content.version \in begun[f]
        /\ file[f].leaves = CountBlocks(size)
        /\ k \in 1 .. file[f].leaves + 1
        /\ \A x \in 1 .. k - 1 : x * BlockSize <= size => Copied(x)
        /\ DiskOK
    BY <1>1 DEF IInv, StoreOK, Storing, CopyOK
  <1>3. op.content \in Contents /\ size \in Nat
    BY <1>0, SizesAreNat DEF Commands, Contents
  <1> HIDE DEF size
  <1>4. file[f].leaves \in Nat /\ k = file[f].leaves + 1
    BY <1>1, <1>2, Sizes DEF DiskOK, FileRecords
  <1>5. /\ op'.at = "size" /\ op'.target = f /\ op'.source = op.source
        /\ op'.cmd = op.cmd /\ op'.content = op.content /\ op'.clean = op.clean
    BY <1>0, <1>1 DEF Commands
  <1>6. OpTypeOK' /\ StoreOK' /\ OutOK'
    <2>1. op.k \in 0 .. Capacity + 1
      BY <1>0 DEF Commands
    <2> QED
      BY <1>1, <1>5, <2>1, GoesOn
  \* All blocks but the last are full.
  <1>7. \A x \in 1 .. k - 1 : x # k - 1 => Copied(x)
    <2> SUFFICES ASSUME NEW x \in 1 .. k - 1, x # k - 1 PROVE Copied(x)
      OBVIOUS
    <2>1. x \in Nat /\ x < CountBlocks(size)
      BY <1>2, <1>4
    <2>2. x * BlockSize < size
      BY <1>3, <2>1, CountBlocksIs
    <2>3. x * BlockSize \in Nat
      BY <2>1, Sizes
    <2> QED
      BY <1>2, <1>3, <2>2, <2>3
  <1>8. CASE size % BlockSize # 0
    <2> DEFINE l == k - 1
    <2>1. l \in 1 .. file[f].leaves
      <3>1. file[f].leaves # 0
        <4> SUFFICES ASSUME CountBlocks(size) = 0 PROVE FALSE
          BY <1>2
        <4>1. ~(0 * BlockSize < size) /\ 0 * BlockSize = 0
          BY <1>3, CountBlocksIs, Sizes
        <4>2. size = 0
          BY <1>3, <4>1
        <4>3. 0 % BlockSize = 0
          BY Sizes, ModSmall
        <4> QED
          BY <1>8, <4>2, <4>3
      <3> QED
        BY <1>4, <3>1
    <2>2. l \in Nat /\ l > 0
      BY <1>4, <2>1
    <2>3. bytes = BlockOf(op.content, l)
      BY DEF Padded, BlockOf
    <2> HIDE DEF bytes, l
    <2>4. bytes \in Block /\ Own(f, bytes)
      BY <1>2, <1>3, <2>2, <2>3, BlockOfIs, StoredIsOwn
    <2>5. Put(To(l), bytes)
      BY <1>1, <1>8 DEF l
    <2>6. /\ CallInv' /\ DiskOK' /\ HistoryOK' /\ OwnOK' /\ WholeOK'
          /\ To(l)' = To(l) /\ data'[To(l)] = bytes
          /\ \A x \in 1 .. file[f].leaves : x # l /\ Copied(x) => Copied(x)'
      BY <1>1, <1>5, <2>1, <2>4, <2>5, CopyStep
    <2>7. Copied(l)'
      BY <1>5, <2>3, <2>6 DEF Copied, BlockOf
    <2>8. \A x \in 1 .. file[f].leaves : Copied(x)'
      BY <1>4, <1>7, <2>6, <2>7 DEF l
    <2>9. CopyOK'
      BY <1>1, <1>2, <1>5, <2>8 DEF CopyOK, size
    <2> QED
      BY <1>6, <2>6, <2>9 DEF IInv
  <1>9. CASE size % BlockSize = 0
    <2>1. \A x \in 1 .. k - 1 : Copied(x)
      <3>1. CountBlocks(size) * BlockSize = size
        BY <1>3, <1>9, CountBlocksIs
      <3>2. CASE k - 1 \in 1 .. k - 1
        <4>1. (k - 1) * BlockSize <= size
          BY <1>2, <1>3, <1>4, <3>1
        <4> QED
          BY <1>2, <1>7, <3>2, <4>1
      <3>3. CASE k - 1 \notin 1 .. k - 1
        BY <3>3, <1>4
      <3> QED
        BY <3>2, <3>3
    <2>2. /\ CallInv' /\ DiskOK' /\ HistoryOK' /\ OwnOK' /\ WholeOK'
          /\ \A x : Copied(x) => Copied(x)'
      BY <1>1, <1>9, EndStep DEF diskVars
    <2>3. \A x \in 1 .. file[f].leaves : Copied(x)'
      BY <1>4, <2>1, <2>2
    <2>4. CopyOK'
      BY <1>1, <1>2, <1>5, <2>3 DEF CopyOK, size
    <2> QED
      BY <1>6, <2>2, <2>4 DEF IInv
  <1> QED
    BY <1>8, <1>9

LEMMA CopiesOverKeeps ==
    ASSUME IInv, CopiesOver
    PROVE  IInv'
  <1>0. op \in Commands /\ op.k \in Nat
    BY Sizes DEF IInv, OpTypeOK, Commands
  <1> SUFFICES ASSUME NEW k \in Nat, k = op.k PROVE IInv'
    BY <1>0
  <1> DEFINE f == op.target
             size == op.content.size
             read == Read(op.content, k)
             bytes == IF Len(read) < BlockSize THEN Padded(read, data[To(k)]) ELSE read
  <1>1. /\ op.at = "over"
        /\ UNCHANGED <<checkVars, free, file, historyVars, out, version, kills>>
        /\ IF k <= file[f].leaves
           THEN /\ Put(To(k), bytes)
                /\ op' = IF Len(read) < BlockSize THEN [op EXCEPT !.at = "size"]
                                                  ELSE [op EXCEPT !.k = k + 1]
           ELSE op' = [op EXCEPT !.at = "size"] /\ UNCHANGED data
    BY DEF CopiesOver
  <1>2. /\ f \in Files /\ op.cmd = "incp" /\ op.content.version \in begun[f]
        /\ k \in 1 .. file[f].leaves + 1
        /\ op.clean => file[f].leaves = CountBlocks(size)
        /\ \A x \in 1 .. k - 1 : Copied(x)
        /\ DiskOK
    BY <1>1 DEF IInv, StoreOK, Storing, CopyOK
  <1>3. op.content \in Contents /\ size \in Nat
    BY <1>0, SizesAreNat DEF Commands, Contents
  <1> HIDE DEF size
  <1>4. file[f].leaves \in Nat /\ file[f].leaves <= Capacity /\ k > 0
    BY <1>2, Sizes DEF DiskOK, FileRecords
  <1>5. CASE k <= file[f].leaves
    <2>0. k \in 1 .. file[f].leaves
      BY <1>4, <1>5
    <2>1. bytes = BlockOf(op.content, k)
      BY <1>3, <1>4, BlockOfIs, Sizes DEF Padded, BlockOf
    <2>2. Put(To(k), bytes)
      BY <1>1, <1>5
    <2> HIDE DEF bytes
    <2>3. bytes \in Block /\ Own(f, bytes)
      BY <1>2, <1>3, <1>4, <2>1, BlockOfIs, StoredIsOwn
    <2>4. op' = [op EXCEPT !.at = "size"] \/ op' = [op EXCEPT !.k = k + 1]
      BY <1>1, <1>5
    <2>5. /\ op'.target = f /\ op'.source = op.source
          /\ op'.cmd = op.cmd /\ op'.content = op.content /\ op'.clean = op.clean
      BY <1>0, <2>4 DEF Commands
    <2>6. /\ CallInv' /\ DiskOK' /\ HistoryOK' /\ OwnOK' /\ WholeOK'
          /\ To(k)' = To(k) /\ data'[To(k)] = bytes
          /\ \A x \in 1 .. file[f].leaves : x # k /\ Copied(x) => Copied(x)'
      BY <1>1, <2>0, <2>2, <2>3, <2>5, CopyStep
    <2>7. Copied(k)'
      BY <2>1, <2>5, <2>6 DEF Copied, BlockOf
    <2>8. \A x \in 1 .. k : Copied(x)'
      <3> SUFFICES ASSUME NEW x \in 1 .. k PROVE Copied(x)'
        OBVIOUS
      <3>1. CASE x = k
        BY <2>7, <3>1
      <3>2. CASE x # k
        <4>1. x \in 1 .. k - 1 /\ x \in 1 .. file[f].leaves
          BY <1>4, <1>5, <3>2
        <4> QED
          BY <1>2, <2>6, <3>2, <4>1
      <3> QED
        BY <3>1, <3>2
    <2>9. CASE Len(read) < BlockSize
      <3>1. op' = [op EXCEPT !.at = "size"]
        BY <1>1, <1>5, <2>9
      <3>2. op'.at = "size"
        BY <1>0, <3>1 DEF Commands
      <3>3. CountBlocks(size) <= k
        <4>1. ~(k * BlockSize <= size)
          BY <1>3, <1>4, <2>9, BlockOfIs, Sizes DEF size
        <4>2. ~(k < CountBlocks(size)) /\ CountBlocks(size) \in Nat
          <5>1. k * BlockSize \in Nat
            BY Sizes
          <5> QED
            BY <1>3, <4>1, <5>1, CountBlocksIs
        <4> QED
          BY <4>2
      <3>4. \A x \in 1 .. file[f].leaves : x <= CountBlocks(size) => Copied(x)'
        <4>1. CountBlocks(size) \in Nat
          BY <1>3, CountBlocksIs
        <4> QED
          BY <1>4, <2>8, <3>3, <4>1
      <3>5. CopyOK'
        BY <1>1, <1>2, <2>5, <3>2, <3>4 DEF CopyOK, size
      <3>6. OpTypeOK' /\ StoreOK' /\ OutOK'
        <4>1. op.k \in 0 .. Capacity + 1
          BY <1>0 DEF Commands
        <4> QED
          BY <1>1, <3>1, <3>2, <4>1, GoesOn
      <3> QED
        BY <2>6, <3>5, <3>6 DEF IInv
    <2>10. CASE ~(Len(read) < BlockSize)
      <3>1. op' = [op EXCEPT !.k = k + 1]
        BY <1>1, <1>5, <2>10
      <3>2. op'.at = "over" /\ op'.k = k + 1
        BY <1>0, <1>1, <3>1 DEF Commands
      <3>3. k + 1 \in 0 .. Capacity + 1 /\ k + 1 \in 1 .. file[f].leaves + 1 /\ op'.k - 1 = k
        BY <1>4, <1>5, <3>2, Sizes
      <3>4. CopyOK'
        BY <1>1, <1>2, <2>5, <2>8, <3>2, <3>3 DEF CopyOK, size
      <3>5. OpTypeOK' /\ StoreOK' /\ OutOK'
        BY <1>1, <3>1, <3>2, <3>3, GoesOn
      <3> QED
        BY <2>6, <3>4, <3>5 DEF IInv
    <2> QED
      BY <2>9, <2>10
  <1>6. CASE ~(k <= file[f].leaves)
    <2>1. op' = [op EXCEPT !.at = "size"] /\ data' = data
      BY <1>1, <1>6
    <2>2. /\ op'.at = "size" /\ op'.target = f /\ op'.source = op.source
          /\ op'.cmd = op.cmd /\ op'.content = op.content /\ op'.clean = op.clean
      BY <1>0, <2>1 DEF Commands
    <2>3. /\ CallInv' /\ DiskOK' /\ HistoryOK' /\ OwnOK' /\ WholeOK'
          /\ \A x : Copied(x) => Copied(x)'
      BY <1>1, <2>1, EndStep DEF diskVars
    <2>4. \A x \in 1 .. file[f].leaves : Copied(x)'
      BY <1>2, <1>4, <1>6, <2>3
    <2>5. CopyOK'
      BY <1>1, <1>2, <2>2, <2>4 DEF CopyOK, size
    <2>6. OpTypeOK' /\ StoreOK' /\ OutOK'
      <3>1. op.k \in 0 .. Capacity + 1
        BY <1>0 DEF Commands
      <3> QED
        BY <1>1, <2>1, <2>2, <3>1, GoesOn
    <2> QED
      BY <2>3, <2>5, <2>6 DEF IInv
  <1> QED
    BY <1>5, <1>6

LEMMA CopiesBlockKeeps ==
    ASSUME IInv, CopiesBlock
    PROVE  IInv'
  <1>0. op \in Commands /\ op.k \in Nat
    BY Sizes DEF IInv, OpTypeOK, Commands
  <1> SUFFICES ASSUME NEW k \in Nat, k = op.k PROVE IInv'
    BY <1>0
  <1> DEFINE f == op.target
             g == op.source
             size == op.content.size
             bytes == data[From(k)]
  <1>1. /\ op.at = "copy" /\ op.cmd = "cp"
        /\ k <= CountBlocks(size) /\ k <= file[g].leaves
        /\ Put(To(k), bytes)
        /\ op' = IF k = CountBlocks(size) THEN [op EXCEPT !.at = "size"]
                                          ELSE [op EXCEPT !.k = k + 1]
        /\ UNCHANGED <<checkVars, free, file, historyVars, out, version, kills>>
    BY DEF CopiesBlock
  <1>2. /\ f \in Files /\ g \in Files /\ begun[f] = begun[g]
        /\ op.clean => g \notin torn
        /\ op.content = [stored[g] EXCEPT !.size = file[g].size] /\ (g \in half => mixed)
        /\ file[f].leaves = CountBlocks(size)
        /\ k \in 1 .. file[f].leaves + 1
        /\ \A x \in 1 .. k - 1 : Copied(x)
        /\ DiskOK /\ HistoryOK /\ WholeOK /\ OwnOK
    BY <1>1 DEF IInv, StoreOK, Storing, CopyOK
  <1>3. /\ file[f].leaves \in Nat /\ file[f].leaves <= Capacity /\ k > 0
        /\ k \in 1 .. file[f].leaves /\ k \in 1 .. file[g].leaves
    BY <1>1, <1>2, Sizes DEF DiskOK, FileRecords
  <1>4. bytes \in Block
    BY <1>2, <1>3, LeafIs DEF From
  <1>5. op.clean => bytes = BlockOf(op.content, k)
    <2> SUFFICES ASSUME op.clean PROVE bytes = BlockOf(op.content, k)
      OBVIOUS
    <2>1. stored[g].size = file[g].size /\ bytes = BlockOf(stored[g], k)
      BY <1>2, <1>3 DEF WholeOK, From
    <2>2. op.content \in Contents /\ stored[g] \in Contents
      BY <1>0, <1>2 DEF Commands, HistoryOK
    <2>3. op.content = stored[g]
      BY ONLY <1>2, <2>1, <2>2 DEF Contents
    <2> QED
      BY <2>1, <2>3
  <1>6. ~mixed => Own(f, bytes)
    <2> SUFFICES ASSUME ~mixed PROVE Own(f, bytes)
      OBVIOUS
    <2>1. Own(g, bytes)
      BY <1>1, <1>2, <1>3 DEF OwnOK, From
    <2> QED
      BY <1>2, <2>1 DEF Own
  <1> HIDE DEF bytes, size
  <1>7. op' = [op EXCEPT !.at = "size"] \/ op' = [op EXCEPT !.k = k + 1]
    BY <1>1
  <1>8. /\ op'.target = f /\ op'.source = g
        /\ op'.cmd = op.cmd /\ op'.content = op.content /\ op'.clean = op.clean
    BY <1>0, <1>7 DEF Commands
  <1>9. /\ CallInv' /\ DiskOK' /\ HistoryOK' /\ OwnOK' /\ WholeOK'
        /\ To(k)' = To(k) /\ data'[To(k)] = bytes
        /\ \A x \in 1 .. file[f].leaves : x # k /\ Copied(x) => Copied(x)'
    BY <1>1, <1>3, <1>4, <1>6, <1>8, CopyStep
  <1>10. Copied(k)'
    BY <1>5, <1>8, <1>9 DEF Copied, BlockOf
  <1>11. \A x \in 1 .. k : Copied(x)'
    <2> SUFFICES ASSUME NEW x \in 1 .. k PROVE Copied(x)'
      OBVIOUS
    <2>1. CASE x = k
      BY <1>10, <2>1
    <2>2. CASE x # k
      <3>1. x \in 1 .. k - 1 /\ x \in 1 .. file[f].leaves
        BY <1>3, <2>2
      <3> QED
        BY <1>2, <1>9, <2>2, <3>1
    <2> QED
      BY <2>1, <2>2
  <1>12. CASE k = CountBlocks(size)
    <2>1. op' = [op EXCEPT !.at = "size"]
      BY <1>1, <1>12
    <2>2. op'.at = "size"
      BY <1>0, <2>1 DEF Commands
    <2>3. CopyOK'
      BY <1>1, <1>2, <1>8, <1>11, <1>12, <2>2 DEF CopyOK, size
    <2>4. OpTypeOK' /\ StoreOK' /\ OutOK'
      <3>1. op.k \in 0 .. Capacity + 1
        BY <1>0 DEF Commands
      <3> QED
        BY <1>1, <2>1, <2>2, <3>1, GoesOn
    <2> QED
      BY <1>9, <2>3, <2>4 DEF IInv
  <1>13. CASE k # CountBlocks(size)
    <2>1. op' = [op EXCEPT !.k = k + 1]
      BY <1>1, <1>13
    <2>2. op'.at = "copy" /\ op'.k = k + 1
      BY <1>0, <1>1, <2>1 DEF Commands
    <2>3. k + 1 \in 0 .. Capacity + 1 /\ k + 1 \in 1 .. file[f].leaves + 1 /\ op'.k - 1 = k
      BY <1>3, <2>2, Sizes
    <2>4. CopyOK'
      BY <1>1, <1>2, <1>8, <1>11, <2>2, <2>3 DEF CopyOK
    <2>5. OpTypeOK' /\ StoreOK' /\ OutOK'
      BY <1>1, <2>1, <2>2, <2>3, GoesOn
    <2> QED
      BY <1>9, <2>4, <2>5 DEF IInv
  <1> QED
    BY <1>12, <1>13

LEMMA SetsSizeKeeps ==
    ASSUME IInv, SetsSize
    PROVE  IInv'
  <1> DEFINE f == op.target
             c == op.content
  <1>1. /\ op.at = "size" /\ op' = Idle
        /\ file' = [file EXCEPT ![f].size = c.size]
        /\ UNCHANGED <<checkVars, free, data, begun, half, mixed, out, version, kills>>
    BY DEF SetsSize
  <1>2. \/ /\ op.clean /\ stored' = [stored EXCEPT ![f] = c]
           /\ torn' = torn \ {f}
        \/ ~op.clean /\ stored' = stored /\ torn' = torn
    BY DEF SetsSize
  <1>3. /\ f \in Files /\ f \in torn /\ file[f].exists
        /\ op.clean => f \notin half /\ file[f].leaves = CountBlocks(c.size)
        /\ \A x \in 1 .. file[f].leaves : x <= CountBlocks(c.size) => Copied(x)
        /\ DiskOK /\ HistoryOK /\ OwnOK /\ WholeOK
    BY <1>1 DEF IInv, StoreOK, Storing, CopyOK
  <1>4. c \in Contents
    BY DEF IInv, OpTypeOK, Commands
  <1>5. /\ file' \in [Files -> FileRecords] /\ file'[f].size = c.size
        /\ file'[f].links = file[f].links /\ file'[f].leaves = file[f].leaves
        /\ file'[f].exists = file[f].exists
        /\ \A h \in Files \ {f} : file'[h] = file[h]
    <2>1. file \in [Files -> FileRecords]
      BY <1>3 DEF DiskOK
    <2>2. file'[f] = [file[f] EXCEPT !.size = c.size]
      BY <1>1, <1>3, <2>1 DEF FileRecords
    <2>3. \A h \in Files \ {f} : file'[h] = file[h]
      BY <1>1, <2>1
    <2>4. c.size \in HostSizes \union {0}
      BY <1>4 DEF Contents
    <2>5. /\ file'[f] \in FileRecords /\ file'[f].size = c.size
          /\ file'[f].links = file[f].links /\ file'[f].leaves = file[f].leaves
          /\ file'[f].exists = file[f].exists
      <3>1. file[f] \in FileRecords
        BY <1>3, <2>1
      <3> QED
        BY ONLY <2>2, <2>4, <3>1, SizedRecord
    <2>6. file' \in [Files -> FileRecords]
      BY <1>1, <2>1, <2>5
    <2> QED
      BY <2>3, <2>5, <2>6
  <1>6. /\ DiskOK'
        /\ \A h \in Files : /\ file'[h].leaves = file[h].leaves
                            /\ \A k : Leaf(h, k)' = Leaf(h, k)
    <2>1. free' = free /\ data' = data /\ half' = half
      BY <1>1
    <2>2. file[f].exists /\ f \in Files /\ DiskOK
      BY <1>3
    <2> QED
      BY ONLY <1>5, <2>1, <2>2, RecordKeeps
  <1>7. HistoryOK'
    <2>1. stored' \in [Files -> Contents]
      BY <1>2, <1>3, <1>4 DEF HistoryOK
    <2>2. torn' \subseteq Files /\ half' \subseteq torn'
      BY <1>1, <1>2, <1>3 DEF HistoryOK
    <2> QED
      BY <1>1, <1>3, <2>1, <2>2 DEF HistoryOK
  <1>8. OwnOK'
    BY <1>1, <1>3, <1>6 DEF OwnOK, Own
  <1>9. WholeOK'
    <2> SUFFICES ASSUME NEW h \in Files \ torn'
                 PROVE  /\ stored'[h].size = file'[h].size
                        /\ file[h].leaves = CountBlocks(file'[h].size)
                        /\ \A k \in 1 .. file[h].leaves :
                             data[Leaf(h, k)] = BlockOf(stored'[h], k)
      BY <1>1, <1>6 DEF WholeOK
    <2>1. CASE h = f
      <3>1. op.clean
        BY <1>2, <1>3, <2>1
      <3>2. stored'[f] = c
        BY <1>2, <1>3, <3>1 DEF HistoryOK
      <3>3. file[f].leaves = CountBlocks(c.size) /\ file[f].leaves \in Nat
        BY <1>3, <3>1, LeafIs
      <3>4. \A k \in 1 .. file[f].leaves : data[Leaf(f, k)] = BlockOf(c, k)
        BY <1>3, <3>1, <3>3 DEF Copied, To
      <3> QED
        BY <1>5, <2>1, <3>2, <3>3, <3>4
    <2>2. CASE h # f
      <3>1. h \notin torn /\ stored'[h] = stored[h]
        BY <1>2, <1>3, <2>2 DEF HistoryOK
      <3> QED
        BY <1>3, <1>5, <2>2, <3>1 DEF WholeOK
    <2> QED
      BY <2>1, <2>2
  <1>10. out' = <<>>
    BY <1>1 DEF IInv, OutOK
  <1>11. CallInv'
    BY <1>1, CallKeeps DEF IInv
  <1> QED
    BY <1>1, <1>6, <1>7, <1>8, <1>9, <1>10, <1>11, IdleKeeps DEF IInv

------------------------------------------------------------------------------
(* Links for a new file, and for one that is rewritten.                     *)

\* What growing does to the contents: the new leaves are empty.
LEMMA GrowStep ==
    ASSUME IInv, NEW f \in Files, NEW goal \in Nat, NEW n \in Nat, NEW count \in Nat,
           file[f].leaves <= n, n <= goal, CanGrow(f, goal),
           TakenFor(file[f].leaves, n) <= count, count <= TakenFor(file[f].leaves, goal),
           GrowTaking(f, goal, n, count), half \subseteq half',
           \A g \in half' : g \in half \/ file[g].exists,
           torn \union {f} \subseteq torn', mixed' = mixed,
           \A g \in Files \ {f} : begun'[g] = begun[g] /\ stored'[g] = stored[g],
           file[f].leaves = 0 \/ begun[f] \subseteq begun'[f]
    PROVE  /\ DiskOK' /\ OwnOK' /\ WholeOK'
           /\ \A g \in Files \ {f} : file'[g] = file[g]
           /\ file'[f].exists /\ file'[f].leaves = n /\ file'[f].size = file[f].size
           /\ (\A g \in Files \ half' : g # f => Disjoint(g, f)) => Apart(f)'
  <1>1. DiskOK /\ HistoryOK /\ OwnOK /\ WholeOK
    BY DEF IInv
  <1>2. /\ DiskOK'
        /\ \A g \in Files \ {f} : file'[g] = file[g]
        /\ file'[f].exists /\ file'[f].leaves = n
        /\ file'[f].named = file[f].named /\ file'[f].size = file[f].size
        /\ \A g \in Files \ half : Kept(g)
        /\ f \notin half => \A k \in 1 .. n : k > file[f].leaves =>
             /\ Leaf(f, k)' \in free /\ data'[Leaf(f, k)'] = data[Leaf(f, k)']
        /\ (\A g \in Files \ half' : g # f => Disjoint(g, f)) => Apart(f)'
        /\ \A b \in free' : b \in free /\ data'[b] = data[b]
    BY <1>1, GrowKeeps
  <1>3. OwnOK'
    <2> SUFFICES ASSUME ~mixed
                 PROVE  /\ \A b \in free' : data'[b] = Zeros
                        /\ \A g \in Files \ half' : \A k \in 1 .. file'[g].leaves :
                             Own(g, data[Leaf(g, k)])'
      BY DEF OwnOK
    <2>1. /\ \A b \in free : data[b] = Zeros
          /\ \A g \in Files \ half : \A k \in 1 .. file[g].leaves : Own(g, data[Leaf(g, k)])
      BY <1>1 DEF OwnOK
    <2>2. \A b \in free' : data'[b] = Zeros
      BY <1>2, <2>1
    <2>3. ASSUME NEW g \in Files \ half', NEW k \in 1 .. file'[g].leaves
          PROVE  Own(g, data[Leaf(g, k)])'
      <3>0. g \notin half /\ k \in Nat /\ file[g].leaves \in Nat
        <4>1. file'[g].leaves \in Nat /\ file[g].leaves \in Nat
          BY <1>1, <1>2, Sizes DEF DiskOK, FileRecords
        <4> QED
          BY <4>1
      <3>1. CASE k \in 1 .. file[g].leaves
        <4>1. data'[Leaf(g, k)'] = data[Leaf(g, k)]
          BY <1>2, <3>0, <3>1 DEF Kept
        <4>2. begun[g] \subseteq begun'[g]
          BY <3>1, <3>0
        <4>3. Own(g, data[Leaf(g, k)])
          BY <2>1, <3>0, <3>1
        <4> QED
          BY <4>1, <4>2, <4>3 DEF Own
      <3>2. CASE k \notin 1 .. file[g].leaves
        <4>1. g = f
          <5> SUFFICES ASSUME g # f PROVE FALSE
            OBVIOUS
          <5>1. file'[g] = file[g]
            BY <1>2
          <5> QED
            BY <3>2, <5>1
        <4>2. k \in 1 .. n /\ k > file[f].leaves
          BY <1>2, <3>0, <3>2, <4>1
        <4>3. data'[Leaf(f, k)'] = Zeros
          BY <1>2, <2>1, <3>0, <4>1, <4>2
        <4> QED
          BY <4>1, <4>3 DEF Own, Zeros
      <3> QED
        BY <3>1, <3>2
    <2> QED
      BY <2>2, <2>3
  <1>4. WholeOK'
    <2> SUFFICES ASSUME NEW g \in Files \ torn'
                 PROVE  /\ stored'[g].size = file'[g].size
                        /\ file'[g].leaves = CountBlocks(file'[g].size)
                        /\ \A k \in 1 .. file'[g].leaves :
                             data'[Leaf(g, k)'] = BlockOf(stored'[g], k)
      BY DEF WholeOK
    <2>1. g # f /\ g \notin torn /\ g \notin half
      BY <1>1 DEF HistoryOK
    <2>2. file'[g] = file[g] /\ stored'[g] = stored[g] /\ Kept(g)
      BY <1>2, <2>1
    <2> QED
      BY <1>1, <2>1, <2>2 DEF WholeOK, Kept
  <1> QED
    BY <1>2, <1>3, <1>4

\* What freeing leaves does to the contents.
LEMMA ShrinkStep ==
    ASSUME IInv, NEW f \in Files, NEW n \in Nat, n <= file[f].leaves, file[f].exists,
           Shrink(f, n), half' = half \union Sharing(f),
           torn' = torn \union {f} \union Sharing(f), mixed' = mixed,
           \A g \in Files \ {f} : begun'[g] = begun[g] /\ stored'[g] = stored[g],
           begun[f] \subseteq begun'[f]
    PROVE  /\ DiskOK' /\ OwnOK' /\ WholeOK'
           /\ \A g \in Files \ {f} : file'[g] = file[g]
           /\ file'[f].exists /\ file'[f].leaves = n /\ file'[f].size = file[f].size
           /\ Apart(f)'
  <1>1. DiskOK /\ HistoryOK /\ OwnOK /\ WholeOK
    BY DEF IInv
  <1>2. /\ DiskOK' /\ Apart(f)'
        /\ \A g \in Files \ {f} : file'[g] = file[g]
        /\ file'[f].exists /\ file'[f].leaves = n
        /\ file'[f].named = file[f].named /\ file'[f].size = file[f].size
        /\ \A g \in Files \ half' : \A k \in 1 .. file'[g].leaves :
             /\ g \notin half /\ k <= file[g].leaves
             /\ Leaf(g, k)' = Leaf(g, k) /\ data'[Leaf(g, k)] = data[Leaf(g, k)]
        /\ (\A b \in free : data[b] = Zeros) => (\A b \in free' : data'[b] = Zeros)
    BY <1>1, ShrinkKeeps
  <1>3. OwnOK'
    <2> SUFFICES ASSUME ~mixed
                 PROVE  /\ \A b \in free' : data'[b] = Zeros
                        /\ \A g \in Files \ half' : \A k \in 1 .. file'[g].leaves :
                             Own(g, data[Leaf(g, k)])'
      BY DEF OwnOK
    <2>1. \A b \in free' : data'[b] = Zeros
      BY <1>1, <1>2 DEF OwnOK
    <2>2. ASSUME NEW g \in Files \ half', NEW k \in 1 .. file'[g].leaves
          PROVE  Own(g, data[Leaf(g, k)])'
      <3>1. file'[g].leaves \in Nat /\ file[g].leaves \in Nat
        BY <1>1, <1>2, Sizes DEF DiskOK, FileRecords
      <3>2. g \in Files \ half /\ k \in 1 .. file[g].leaves
        BY <1>2, <3>1
      <3>3. data'[Leaf(g, k)'] = data[Leaf(g, k)]
        BY <1>2
      <3>4. Own(g, data[Leaf(g, k)])
        BY <1>1, <3>2 DEF OwnOK
      <3>5. begun[g] \subseteq begun'[g]
        OBVIOUS
      <3> QED
        BY <3>3, <3>4, <3>5 DEF Own
    <2> QED
      BY <2>1, <2>2
  <1>4. WholeOK'
    <2> SUFFICES ASSUME NEW g \in Files \ torn'
                 PROVE  /\ stored'[g].size = file'[g].size
                        /\ file'[g].leaves = CountBlocks(file'[g].size)
                        /\ \A k \in 1 .. file'[g].leaves :
                             data'[Leaf(g, k)'] = BlockOf(stored'[g], k)
      BY DEF WholeOK
    <2>1. g # f /\ g \notin torn /\ g \notin half'
      BY <1>1 DEF HistoryOK
    <2>2. file'[g] = file[g] /\ stored'[g] = stored[g]
      BY <1>2, <2>1
    <2>3. \A k \in 1 .. file'[g].leaves : data'[Leaf(g, k)'] = data[Leaf(g, k)]
      BY <1>2, <2>1
    <2> QED
      BY <1>1, <2>1, <2>2, <2>3 DEF WholeOK
  <1> QED
    BY <1>2, <1>3, <1>4

LEMMA CreatesKeeps ==
    ASSUME IInv, Creates
    PROVE  IInv'
  <1>0. op.target \in Files
    BY DEF Creates, IInv, StoreOK, Storing
  <1> SUFFICES ASSUME NEW f \in Files, f = op.target PROVE IInv'
    BY <1>0
  <1> DEFINE g == op.source
             c == op.content
             n == CountBlocks(c.size)
  <1>1. /\ op.at = "check" /\ ~file[f].exists /\ CanGrow(f, n) /\ NoCheck /\ Grow(f, n)
        /\ begun' = [begun EXCEPT ![f] = IF g = 0 THEN {c.version} ELSE begun[g]]
        /\ torn' = torn \union {f}
        /\ UNCHANGED <<stored, half, mixed, out, version, kills>>
    BY DEF Creates
  <1>2. op' = [op EXCEPT !.at = "record", !.clean = (g \notin torn)]
    BY DEF Creates
  <1>3. /\ f \in Files
        /\ \/ op.cmd = "incp" /\ g = 0 /\ c.version >= 1
           \/ /\ op.cmd = "cp" /\ g \in Files /\ g # f
              /\ c = [stored[g] EXCEPT !.size = file[g].size]
        /\ f \in half \/ g \in half => mixed
        /\ DiskOK /\ HistoryOK /\ OwnOK /\ WholeOK /\ op \in Commands
    BY <1>1 DEF IInv, StoreOK, Storing, OpTypeOK
  <1>4. c \in Contents /\ c.version \in 0 .. MaxVersions /\ c.size \in Nat
    BY <1>3, SizesAreNat DEF Commands, Contents
  <1>5. file[f] = NoFile /\ file[f].leaves = 0 /\ file[f].size = 0 /\ f \notin half
    <2>1. file[f] = NoFile /\ f \notin half
      BY <1>1, <1>3 DEF DiskOK
    <2> QED
      BY <2>1 DEF NoFile
  <1>6. n \in Nat /\ file[f].leaves <= n
    BY <1>4, <1>5, CountBlocksIs
  <1>8. /\ \A h \in Files \ {f} : begun'[h] = begun[h]
        /\ begun'[f] = IF g = 0 THEN {c.version} ELSE begun[g]
    BY <1>1, <1>3 DEF HistoryOK
  <1>70. TakenFor(file[f].leaves, n) \in Nat
    BY <1>5, <1>6, Positions
  <1> HIDE DEF n
  <1>7. /\ DiskOK' /\ OwnOK' /\ WholeOK'
        /\ \A h \in Files \ {f} : file'[h] = file[h]
        /\ file'[f].exists /\ file'[f].leaves = n /\ file'[f].size = 0
        /\ Apart(f)'
    <2>1. GrowTaking(f, n, n, TakenFor(file[f].leaves, n))
      BY <1>1 DEF Grow
    <2>2. /\ DiskOK' /\ OwnOK' /\ WholeOK'
          /\ \A h \in Files \ {f} : file'[h] = file[h]
          /\ file'[f].exists /\ file'[f].leaves = n /\ file'[f].size = file[f].size
          /\ (\A h \in Files \ half' : h # f => Disjoint(h, f)) => Apart(f)'
      BY <1>1, <1>3, <1>5, <1>6, <1>70, <1>8, <2>1, GrowStep
    <2>3. \A h \in Files \ half' : h # f => Disjoint(h, f)
      BY <1>1, <1>3, <1>5, ApartIs DEF Apart, Disjoint
    <2> QED
      BY <1>5, <2>2, <2>3
  <1>9. HistoryOK'
    <2>1. g = 0 => c.version \in 1 .. MaxVersions
      BY <1>3, <1>4, StreamAssumption
    <2>2. begun'[f] \in SUBSET (1 .. MaxVersions)
      BY <1>3, <1>8, <2>1, StreamAssumption DEF HistoryOK
    <2>3. begun' \in [Files -> SUBSET (1 .. MaxVersions)]
      BY <1>1, <1>3, <1>8, <2>2 DEF HistoryOK
    <2> QED
      BY <1>1, <1>3, <2>3 DEF HistoryOK
  <1>12. /\ op'.at = "record" /\ op'.target = f /\ op'.source = g
         /\ op'.cmd = op.cmd /\ op'.content = c
         /\ op'.clean = (g \notin torn)
    BY <1>2, <1>3, Zenon DEF Commands
  <1>13. OpTypeOK'
    <2> DEFINE clean == g \notin torn
    <2>2. clean \in BOOLEAN /\ op' = [op EXCEPT !.at = "record", !.clean = clean]
      BY <1>2
    <2> HIDE DEF clean
    <2> QED
      BY <1>3, <2>2 DEF OpTypeOK, Commands
  <1>14. op'.clean => g \notin torn
    BY ONLY <1>12, Zenon
  <1>15. StoreOK'
    <2>1. op'.cmd = "incp" => c.version \in begun'[f]
      BY <1>3, <1>8, <1>12, StreamAssumption
    <2>2. op'.cmd = "cp" => begun'[f] = begun'[g]
      BY <1>3, <1>8, <1>12, StreamAssumption
    <2>3. op'.clean => g \notin torn' /\ f \notin half'
      BY <1>1, <1>3, <1>5, <1>12, <1>14, StreamAssumption
    <2>4. op'.cmd = "cp" => file'[g] = file[g] /\ stored'[g] = stored[g]
      BY <1>1, <1>3, <1>7, <1>12
    <2> QED
      BY <1>1, <1>3, <1>5, <1>7, <1>12, <2>1, <2>2, <2>3, <2>4 DEF StoreOK, n
  <1>16. CopyOK'
    BY <1>12 DEF CopyOK
  <1>17. OutOK'
    BY <1>1, <1>12 DEF IInv, OutOK
  <1> QED
    BY <1>1, <1>7, <1>9, <1>13, <1>15, <1>16, <1>17, NoCheckKeeps DEF IInv

LEMMA ResizesKeeps ==
    ASSUME IInv, Resizes
    PROVE  IInv'
  <1>0. op.target \in Files
    BY DEF Resizes, IInv, StoreOK, Storing
  <1> SUFFICES ASSUME NEW f \in Files, f = op.target PROVE IInv'
    BY <1>0
  <1> DEFINE c == op.content
             wanted == CountBlocks(c.size)
             existing == CountBlocks(file[f].size)
             links == file[f].leaves
  <1>1. /\ op.at = "check" /\ file[f].exists /\ NoCheck
        /\ stored' = [stored EXCEPT ![f] = Nothing]
        /\ begun' = [begun EXCEPT ![f] = @ \union {c.version}]
        /\ torn' = torn \union {f} \union Sharing(f)
        /\ half' = half \union Sharing(f)
        /\ UNCHANGED <<mixed, out, version, kills>>
    BY DEF Resizes
  <1>2. op' = [op EXCEPT !.at = "over", !.k = 1, !.clean = (f \notin torn)]
    BY DEF Resizes
  <1>3. \/ /\ wanted > existing
           /\ CanGrow(f, links + wanted - existing)
           /\ Grow(f, links + wanted - existing)
        \/ /\ wanted < existing
           /\ Shrink(f, Remaining(f, existing - wanted))
        \/ /\ wanted = existing
           /\ UNCHANGED diskVars
    BY DEF Resizes
  <1>4. /\ f \in Files /\ op.cmd = "incp" /\ op.source = 0 /\ c.version >= 1
        /\ f \in half => mixed
        /\ DiskOK /\ HistoryOK /\ OwnOK /\ WholeOK /\ op \in Commands
    BY <1>1 DEF IInv, StoreOK, Storing, OpTypeOK
  <1>5. /\ c \in Contents /\ c.version \in 0 .. MaxVersions /\ c.size \in Nat
        /\ file[f].size \in Nat /\ links \in Nat
    <2>1. file \in [Files -> FileRecords]
      BY <1>4 DEF DiskOK
    <2> QED
      BY <1>4, <2>1, SizesAreNat, Sizes DEF Commands, Contents, FileRecords
  <1>6. wanted \in Nat /\ existing \in Nat
    BY <1>5, CountBlocksIs
  <1> HIDE DEF wanted, existing
  <1>8. /\ \A h \in Files \ {f} : begun'[h] = begun[h] /\ stored'[h] = stored[h]
        /\ begun'[f] = begun[f] \union {c.version}
    BY <1>1, <1>4 DEF HistoryOK
  <1>80. /\ \A g \in half' : g \in half \/ file[g].exists
         /\ Sharing(f) \subseteq Files /\ f \notin Sharing(f)
    BY <1>1, <1>4, SharingExists DEF Sharing
  <1>81. \A g \in Files \ half' : g # f => Disjoint(g, f)
    BY <1>1, <1>4, NotSharing
  \* What the three cases have in common.
  <1>7. /\ DiskOK' /\ OwnOK' /\ WholeOK' /\ Apart(f)'
        /\ file'[f].exists
        /\ links = existing => file'[f].leaves = wanted
    <2>1. CASE /\ wanted > existing
               /\ CanGrow(f, links + wanted - existing)
               /\ Grow(f, links + wanted - existing)
      <3> DEFINE n == links + wanted - existing
      <3>1. n \in Nat /\ links <= n /\ (links = existing => n = wanted)
        BY <1>5, <1>6, <2>1
      <3>2. CanGrow(f, n) /\ Grow(f, n)
        BY <2>1
      <3> HIDE DEF n
      <3>3. TakenFor(file[f].leaves, n) \in Nat
        BY <1>5, <3>1, Positions
      <3>4. GrowTaking(f, n, n, TakenFor(file[f].leaves, n))
        BY <3>2 DEF Grow
      <3>5. half \subseteq half' /\ torn \union {f} \subseteq torn' /\ begun[f] \subseteq begun'[f]
        BY <1>1, <1>8
      <3>6. /\ DiskOK' /\ OwnOK' /\ WholeOK'
            /\ \A g \in Files \ {f} : file'[g] = file[g]
            /\ file'[f].exists /\ file'[f].leaves = n /\ file'[f].size = file[f].size
            /\ (\A g \in Files \ half' : g # f => Disjoint(g, f)) => Apart(f)'
        BY <1>1, <1>4, <1>8, <1>80, <3>1, <3>2, <3>3, <3>4, <3>5, GrowStep
      <3> QED
        BY <1>81, <3>1, <3>6
    <2>2. CASE wanted < existing /\ Shrink(f, Remaining(f, existing - wanted))
      <3> DEFINE n == Remaining(f, existing - wanted)
      <3>1. n \in Nat /\ n <= links /\ (links = existing => n = wanted)
        BY <1>5, <1>6, <2>2 DEF Remaining
      <3>2. Shrink(f, n)
        BY <2>2
      <3> HIDE DEF n
      <3>3. begun[f] \subseteq begun'[f]
        BY <1>8
      <3>4. /\ DiskOK' /\ OwnOK' /\ WholeOK'
            /\ file'[f].exists /\ file'[f].leaves = n
            /\ Apart(f)'
        BY <1>1, <1>4, <1>8, <3>1, <3>2, <3>3, ShrinkStep
      <3> QED
        BY <3>1, <3>4
    <2>3. CASE wanted = existing /\ UNCHANGED diskVars
      <3> USE DEF diskVars
      <3>1. half \subseteq half' /\ (\A g \in Files : begun[g] \subseteq begun'[g])
        BY <1>1, <1>8
      <3>2. DiskOK'
        BY <1>4, <1>80, <2>3, <3>1 DEF DiskOK
      <3>3. OwnOK'
        BY <1>1, <1>4, <2>3, <3>1 DEF OwnOK, Own, Leaf
      <3>4. WholeOK'
        BY <1>1, <1>4, <1>8, <2>3 DEF WholeOK, Leaf
      <3>5. Apart(f)'
        <4>2. \A g \in Files \ half' : g # f =>
                \A x \in 1 .. Len(file[g].links), y \in 1 .. Len(file[f].links) :
                    file[g].links[x] # file[f].links[y]
          BY <1>81 DEF Disjoint
        <4>3. file' = file
          BY <2>3
        <4> QED
          BY ONLY <4>2, <4>3 DEF Apart
      <3> QED
        BY <1>1, <1>4, <2>3, <3>2, <3>3, <3>4, <3>5
    <2> QED
      BY <1>3, <2>1, <2>2, <2>3
  <1>9. HistoryOK'
    <2>1. c.version \in 1 .. MaxVersions
      BY <1>4, <1>5, StreamAssumption
    <2>2. begun' \in [Files -> SUBSET (1 .. MaxVersions)]
      BY <1>1, <1>4, <2>1 DEF HistoryOK
    <2>3. Nothing \in Contents
      BY StreamAssumption DEF Nothing, Contents
    <2>4. stored' \in [Files -> Contents]
      BY <1>1, <1>4, <2>3 DEF HistoryOK
    <2> QED
      BY <1>1, <1>4, <1>80, <2>2, <2>4 DEF HistoryOK
  <1>12. /\ op'.at = "over" /\ op'.k = 1 /\ op'.target = f /\ op'.source = 0
         /\ op'.cmd = "incp" /\ op'.content = c
         /\ op'.clean = (f \notin torn)
    BY <1>2, <1>4, Zenon DEF Commands
  <1>13. OpTypeOK'
    <2> DEFINE clean == f \notin torn
    <2>1. 1 \in 0 .. Capacity + 1
      BY Sizes
    <2>2. clean \in BOOLEAN /\ op' = [op EXCEPT !.at = "over", !.k = 1, !.clean = clean]
      BY <1>2
    <2> HIDE DEF clean
    <2> QED
      BY <1>4, <2>1, <2>2 DEF OpTypeOK, Commands
  <1>14. op'.clean => f \notin torn
    BY ONLY <1>12, Zenon
  <1>15. StoreOK'
    <2>1. op'.clean => 0 \notin torn' /\ f \notin half'
      BY <1>1, <1>4, <1>14, <1>80, StreamAssumption DEF HistoryOK
    <2>2. f \in half' \/ 0 \in half' => mixed'
      BY <1>1, <1>4, <1>80, StreamAssumption DEF HistoryOK
    <2> QED
      BY <1>1, <1>4, <1>7, <1>8, <1>12, <2>1, <2>2 DEF StoreOK
  <1>16. CopyOK'
    <2>1. op'.clean => file'[f].leaves = wanted
      <3> SUFFICES ASSUME op'.clean PROVE file'[f].leaves = wanted
        OBVIOUS
      <3>1. links = existing
        BY <1>4, <1>14 DEF WholeOK, existing
      <3> QED
        BY <1>7, <3>1
    <2>2. file'[f].leaves \in Nat
      BY <1>4, <1>7, Sizes DEF DiskOK, FileRecords
    <2> QED
      BY <1>12, <2>1, <2>2 DEF CopyOK, wanted
  <1>17. OutOK'
    BY <1>1, <1>12 DEF IInv, OutOK
  <1> QED
    BY <1>1, <1>7, <1>9, <1>13, <1>15, <1>16, <1>17, NoCheckKeeps DEF IInv

------------------------------------------------------------------------------
(* Kills in the middle of taking links and of giving them back.             *)

LEMMA KilledIs ==
    ASSUME IInv, Killed
    PROVE  /\ CallInv' /\ OpTypeOK' /\ StoreOK' /\ CopyOK' /\ OutOK'
           /\ kills' \in 0 .. MaxKills
  <1>1. kills \in 0 .. MaxKills /\ MaxKills \in Nat /\ kills < MaxKills /\ kills' = kills + 1
    BY StreamAssumption DEF IInv, HistoryOK, Killed
  <1> QED
    BY <1>1, NoCheckKeeps, IdleKeeps DEF Killed

LEMMA KilledGrowingKeeps ==
    ASSUME IInv, KilledGrowing
    PROVE  IInv'
  <1>0. /\ op.at = "check" /\ op.target \in Files /\ op \in Commands
        /\ DiskOK /\ HistoryOK
    BY DEF KilledGrowing, IInv, StoreOK, Storing, OpTypeOK
  <1> SUFFICES ASSUME NEW f \in Files, f = op.target PROVE IInv'
    BY <1>0
  <1> DEFINE m == file[f].leaves
             goal == m + CountBlocks(op.content.size) - CountBlocks(file[f].size)
  <1>1. /\ torn' = torn \union {f} /\ Killed /\ UNCHANGED <<stored, begun, half, mixed, version>>
        /\ goal > m /\ CanGrow(f, goal)
    BY DEF KilledGrowing
  <1>2. PICK n \in m .. Min({goal, Reached(m)}) :
           \E count \in TakenFor(m, n) .. TakenFor(m, goal) : GrowTaking(f, goal, n, count)
    BY DEF KilledGrowing
  <1>3. PICK count \in TakenFor(m, n) .. TakenFor(m, goal) : GrowTaking(f, goal, n, count)
    BY <1>2
  <1>4. m \in Nat /\ goal \in Nat
    <2>1. file[f] \in FileRecords /\ op.content \in Contents
      BY <1>0 DEF DiskOK, Commands
    <2>2. m \in Nat /\ file[f].size \in Nat /\ op.content.size \in Nat
      BY <2>1, SizesAreNat, Sizes DEF FileRecords, Contents
    <2>3. CountBlocks(op.content.size) \in Nat /\ CountBlocks(file[f].size) \in Nat
      BY <2>2, CountBlocksIs
    <2> HIDE DEF m
    <2> QED
      BY <1>1, <2>2, <2>3
  <1> HIDE DEF m, goal
  <1>5. n \in Nat /\ m <= n /\ n <= goal
    <2>1. CountDirect \in Nat /\ CountLinks \in Nat /\ Capacity \in Nat
      BY Sizes, SpaceAssumption
    <2>2. Reached(m) \in Nat
      BY <1>4, <2>1 DEF Reached
    <2>3. Min({goal, Reached(m)}) = IF goal <= Reached(m) THEN goal ELSE Reached(m)
      BY <1>4, <2>2, MinOfTwo
    <2> QED
      BY <1>4, <2>2, <2>3
  <1>6. TakenFor(m, n) \in Nat /\ TakenFor(m, goal) \in Nat
    BY <1>1, <1>4, <1>5, Positions
  <1>7. /\ count \in Nat /\ TakenFor(m, n) <= count /\ count <= TakenFor(m, goal)
    <2> HIDE DEF TakenFor
    <2> QED
      BY <1>6
  <1>8. DiskOK' /\ OwnOK' /\ WholeOK'
    <2>1. /\ file[f].leaves <= n /\ n <= goal /\ CanGrow(f, goal)
          /\ TakenFor(file[f].leaves, n) <= count /\ count <= TakenFor(file[f].leaves, goal)
      BY <1>1, <1>5, <1>7 DEF m
    <2>2. /\ half \subseteq half' /\ \A g \in half' : g \in half \/ file[g].exists
          /\ torn \union {f} \subseteq torn' /\ mixed' = mixed
          /\ \A g \in Files \ {f} : begun'[g] = begun[g] /\ stored'[g] = stored[g]
          /\ begun[f] \subseteq begun'[f]
      BY <1>1
    <2> QED
      BY <1>3, <1>4, <1>5, <1>7, <2>1, <2>2, GrowStep
  <1>9. HistoryOK'
    BY <1>0, <1>1, KilledIs DEF HistoryOK
  <1> QED
    BY <1>1, <1>8, <1>9, KilledIs DEF IInv

\* The links that a kill leaves half freed are taken from no other file.
LEMMA KilledFreeingKeeps ==
    ASSUME IInv, NEW f \in Files, NEW wiped, KilledFreeing(f, wiped), file[f].exists,
           \A b \in wiped : \E x \in 1 .. Len(file[f].links) : b = file[f].links[x],
           NEW named \in BOOLEAN, file' = [file EXCEPT ![f].named = named]
    PROVE  IInv'
  <1>1. DiskOK /\ HistoryOK /\ OwnOK /\ WholeOK
    BY DEF IInv
  <1>2. /\ torn' = torn \union {f} \union Sharing(f)
        /\ half' = half \union {f} \union Sharing(f)
        /\ Killed
        /\ UNCHANGED <<stored, begun, mixed, version>>
    BY DEF KilledFreeing
  <1>3. PICK opened : opened \subseteq wiped /\ GivesBack(wiped, opened)
    BY DEF KilledFreeing
  <1>4. /\ file' \in [Files -> FileRecords] /\ file'[f].exists
        /\ file'[f].links = file[f].links /\ file'[f].leaves = file[f].leaves
        /\ \A g \in Files \ {f} : file'[g] = file[g]
    <2>1. file \in [Files -> FileRecords] /\ file[f] \in FileRecords
      BY <1>1 DEF DiskOK
    <2>2. file'[f] = [file[f] EXCEPT !.named = named]
      BY <2>1 DEF FileRecords
    <2>3. /\ file'[f] \in FileRecords /\ file'[f].exists = file[f].exists
          /\ file'[f].links = file[f].links /\ file'[f].leaves = file[f].leaves
      BY ONLY <2>1, <2>2, named \in BOOLEAN DEF FileRecords
    <2> QED
      BY <2>1, <2>3
  <1>5. Sharing(f) \subseteq Files /\ f \notin Sharing(f)
    BY DEF Sharing
  <1>6. /\ DiskOK'
        /\ \A g \in Files \ half' : g # f => g \notin half /\ Kept(g)
        /\ (\A b \in free : data[b] = Zeros) => (\A b \in free' : data'[b] = Zeros)
    <2>1. /\ half \union Sharing(f) \subseteq half' \union {f}
          /\ half' \subseteq half \union Sharing(f) \union {f}
          /\ f \in half'
      BY <1>2
    <2>2. Len(file'[f].links) = TakenFor(0, file'[f].leaves)
      BY <1>1, <1>4 DEF DiskOK
    <2>3. \A x \in 1 .. Len(file'[f].links) :
              /\ x \in 1 .. Len(file[f].links) /\ file'[f].links[x] = file[f].links[x]
              /\ f \notin half' => f \notin half /\ file[f].links[x] \notin wiped
      BY <1>4, <2>1
    <2> QED
      BY <1>1, <1>3, <1>4, <2>1, <2>2, <2>3, FreesKeeps
  <1>7. OwnOK'
    <2> SUFFICES ASSUME ~mixed
                 PROVE  /\ \A b \in free' : data'[b] = Zeros
                        /\ \A g \in Files \ half' : \A k \in 1 .. file'[g].leaves :
                             Own(g, data[Leaf(g, k)])'
      BY <1>2 DEF OwnOK
    <2>1. \A b \in free' : data'[b] = Zeros
      BY <1>1, <1>6 DEF OwnOK
    <2>2. ASSUME NEW g \in Files \ half', NEW k \in 1 .. file'[g].leaves
          PROVE  Own(g, data[Leaf(g, k)])'
      <3>1. g # f /\ g \notin half /\ file'[g] = file[g] /\ Kept(g)
        BY <1>2, <1>4, <1>6
      <3>2. Own(g, data[Leaf(g, k)]) /\ data'[Leaf(g, k)'] = data[Leaf(g, k)]
        BY <1>1, <3>1 DEF OwnOK, Kept
      <3> QED
        BY <1>2, <3>2 DEF Own
    <2> QED
      BY <2>1, <2>2
  <1>8. WholeOK'
    <2> SUFFICES ASSUME NEW g \in Files \ torn'
                 PROVE  /\ stored'[g].size = file'[g].size
                        /\ file'[g].leaves = CountBlocks(file'[g].size)
                        /\ \A k \in 1 .. file'[g].leaves :
                             data'[Leaf(g, k)'] = BlockOf(stored'[g], k)
      BY DEF WholeOK
    <2>1. g # f /\ g \notin torn /\ g \notin half'
      BY <1>1, <1>2 DEF HistoryOK
    <2>2. file'[g] = file[g] /\ stored'[g] = stored[g] /\ Kept(g)
      BY <1>2, <1>4, <1>6, <2>1
    <2> QED
      BY <1>1, <2>1, <2>2 DEF WholeOK, Kept
  <1>9. HistoryOK'
    BY <1>1, <1>2, <1>5, KilledIs DEF HistoryOK
  <1> QED
    BY <1>2, <1>6, <1>7, <1>8, <1>9, KilledIs DEF IInv

\* The same when the links are freed from the first on.
LEMMA KilledDiscardingKeeps ==
    ASSUME IInv, NEW f \in Files, KilledDiscarding(f),
           NEW named \in BOOLEAN, file' = [file EXCEPT ![f].named = named]
    PROVE  IInv'
  <1>1. DiskOK /\ file[f].links \in Seq(Blocks) /\ file[f].leaves \in Nat
    BY Sizes DEF IInv, DiskOK, FileRecords
  <1>2. PICK n \in 1 .. file[f].leaves :
           \E deep \in SUBSET (DeepOf(f) \intersect Range(SubSeq(file[f].links, 1, TakenFor(0, n)))) :
              KilledFreeing(f, {Leaf(f, x) : x \in 1 .. n} \union deep)
    BY DEF KilledDiscarding
  <1>3. PICK deep \in SUBSET (DeepOf(f) \intersect Range(SubSeq(file[f].links, 1, TakenFor(0, n)))) :
           KilledFreeing(f, {Leaf(f, x) : x \in 1 .. n} \union deep)
    BY <1>2
  <1> DEFINE wiped == {Leaf(f, x) : x \in 1 .. n} \union deep
  <1>4. ASSUME NEW b \in wiped PROVE \E x \in 1 .. Len(file[f].links) : b = file[f].links[x]
    <2>1. CASE b \in deep
      <3>1. b \in Range(file[f].links)
        BY <2>1 DEF DeepOf
      <3> QED
        BY <1>1, <3>1 DEF Range
    <2>2. CASE b \in {Leaf(f, x) : x \in 1 .. n}
      <3>1. PICK x \in 1 .. n : b = Leaf(f, x)
        BY <2>2
      <3>2. x \in 1 .. file[f].leaves
        BY <1>1
      <3>3. TakenFor(0, x) \in 1 .. Len(file[f].links)
        BY <1>1, <3>2, LeafIs
      <3> QED
        BY <3>1, <3>3 DEF Leaf
    <2> QED
      BY <2>1, <2>2
  <1>5. file[f].exists
    <2> SUFFICES ASSUME ~file[f].exists PROVE FALSE
      OBVIOUS
    <2>1. file[f] = NoFile
      BY <1>1 DEF DiskOK
    <2>2. file[f].leaves = 0
      BY <2>1 DEF NoFile
    <2> QED
      BY <2>2
  <1>6. KilledFreeing(f, wiped)
    BY <1>3
  <1> HIDE DEF wiped
  <1> QED
    BY <1>4, <1>5, <1>6, KilledFreeingKeeps

\* A file record with the name it has is the same record.
LEMMA SameNamed ==
    ASSUME DiskOK, NEW f \in Files
    PROVE  /\ file[f].named \in BOOLEAN
           /\ file = [file EXCEPT ![f].named = file[f].named]
  <1>1. file \in [Files -> FileRecords]
    BY DEF DiskOK
  <1>2. file[f] \in FileRecords
    BY <1>1
  <1>3. file[f].named \in BOOLEAN /\ file[f] = [file[f] EXCEPT !.named = file[f].named]
    BY ONLY <1>2 DEF FileRecords
  <1> QED
    BY <1>1, <1>3

LEMMA KilledRemovingKeeps ==
    ASSUME IInv, KilledRemoving
    PROVE  IInv'
  <1>1. PICK f \in Files :
          /\ file[f].named
          /\ file' = [file EXCEPT ![f].named = FALSE]
          /\ \/ KilledDiscarding(f)
             \/ Killed /\ UNCHANGED <<free, data, historyVars, version>>
    BY DEF KilledRemoving
  <1>2. CASE KilledDiscarding(f)
    BY <1>1, <1>2, KilledDiscardingKeeps
  <1>3. CASE Killed /\ UNCHANGED <<free, data, historyVars, version>>
    <2>1. file[f].exists
      BY <1>1 DEF IInv, DiskOK, NoFile
    <2>2. DiskOK' /\ OwnOK' /\ WholeOK'
      BY <1>1, <1>3, <2>1, NamedStep
    <2>3. HistoryOK'
      BY <1>3, KilledIs DEF IInv, HistoryOK, historyVars
    <2> QED
      BY <1>3, <2>2, <2>3, KilledIs DEF IInv
  <1> QED
    BY <1>1, <1>2, <1>3

LEMMA KilledGivingUpKeeps ==
    ASSUME IInv, KilledGivingUp
    PROVE  IInv'
  <1>1. op.at \in {"record", "copy"} /\ KilledDiscarding(op.target) /\ file' = file
    BY DEF KilledGivingUp
  <1>2. op.target \in Files /\ DiskOK
    BY <1>1 DEF IInv, StoreOK, Storing
  <1> SUFFICES ASSUME NEW f \in Files, f = op.target PROVE IInv'
    BY <1>2
  <1>3. KilledDiscarding(f)
    BY <1>1
  <1>4. file[f].named \in BOOLEAN /\ file' = [file EXCEPT ![f].named = file[f].named]
    BY <1>1, <1>2, SameNamed
  <1> QED
    BY <1>3, <1>4, KilledDiscardingKeeps

LEMMA KilledShorteningKeeps ==
    ASSUME IInv, KilledShortening
    PROVE  IInv'
  <1>1. op.at = "check" /\ file' = file
    BY DEF KilledShortening
  <1>2. op.target \in Files /\ op \in Commands /\ DiskOK
    BY <1>1 DEF IInv, StoreOK, Storing, OpTypeOK
  <1> SUFFICES ASSUME NEW f \in Files, f = op.target PROVE IInv'
    BY <1>2
  <1> DEFINE shorter == CountBlocks(file[f].size) - CountBlocks(op.content.size)
             L == file[f].links
  <1>3. PICK x \in TakenFor(0, Remaining(f, shorter)) + 1 .. Len(L) :
           KilledFreeing(f, Range(SubSeq(L, x, Len(L))))
    BY DEF KilledShortening
  <1>4. shorter > 0
    BY DEF KilledShortening
  <1>5. /\ file[f].leaves \in Nat /\ L \in Seq(Blocks) /\ Len(L) = TakenFor(0, file[f].leaves)
        /\ shorter \in Nat
    <2>1. file[f] \in FileRecords /\ op.content \in Contents
      BY <1>2 DEF DiskOK, Commands
    <2>2. file[f].size \in Nat /\ op.content.size \in Nat
      BY <2>1, SizesAreNat DEF FileRecords, Contents
    <2>3. CountBlocks(op.content.size) \in Nat /\ CountBlocks(file[f].size) \in Nat
      BY <2>2, CountBlocksIs
    <2>4. file[f].leaves \in Nat /\ L \in Seq(Blocks) /\ Len(L) = TakenFor(0, file[f].leaves)
      BY <1>2, <2>1, Sizes DEF DiskOK, FileRecords
    <2> QED
      BY <1>4, <2>3, <2>4
  <1> HIDE DEF shorter
  <1>6. x \in Nat /\ x > 0 /\ x <= Len(L)
    <2>1. Remaining(f, shorter) \in Nat
      BY <1>5 DEF Remaining
    <2>2. TakenFor(0, Remaining(f, shorter)) \in Nat
      BY <2>1, Positions
    <2> HIDE DEF TakenFor, L
    <2> QED
      BY <1>5, <2>2
  <1>7. ASSUME NEW b \in Range(SubSeq(L, x, Len(L)))
        PROVE  \E y \in 1 .. Len(file[f].links) : b = file[f].links[y]
    <2> HIDE DEF L
    <2>1. /\ SubSeq(L, x, Len(L)) \in Seq(Blocks)
          /\ \A y \in 1 .. Len(SubSeq(L, x, Len(L))) :
               /\ x + y - 1 \in 1 .. Len(L)
               /\ SubSeq(L, x, Len(L))[y] = L[x + y - 1]
      BY <1>5, <1>6
    <2>2. \E y \in 1 .. Len(SubSeq(L, x, Len(L))) : b = SubSeq(L, x, Len(L))[y]
      BY <2>1, <1>7 DEF Range
    <2> QED
      BY <2>1, <2>2 DEF L
  <1>8. file[f].exists
    <2> SUFFICES ASSUME ~file[f].exists PROVE FALSE
      OBVIOUS
    <2>1. file[f] = NoFile
      BY <1>2 DEF DiskOK
    <2>2. Len(L) = 0
      BY <2>1 DEF NoFile
    <2> QED
      BY <1>6, <2>2
  <1>9. file[f].named \in BOOLEAN /\ file' = [file EXCEPT ![f].named = file[f].named]
    BY <1>1, <1>2, SameNamed
  <1> DEFINE wiped == Range(SubSeq(L, x, Len(L)))
  <1>10. /\ KilledFreeing(f, wiped)
         /\ \A b \in wiped : \E y \in 1 .. Len(file[f].links) : b = file[f].links[y]
    BY <1>3, <1>7
  <1>11. PICK named \in BOOLEAN : file' = [file EXCEPT ![f].named = named]
    BY <1>9
  <1> HIDE DEF wiped
  <1> QED
    BY ONLY IInv, f \in Files, <1>8, <1>10, <1>11, KilledFreeingKeeps

------------------------------------------------------------------------------
(* The invariant holds.                                                     *)

LEMMA InitIInv == Init => IInv
  <1> SUFFICES ASSUME Init PROVE IInv
    OBVIOUS
  <1>1. /\ free = Blocks \ {1} /\ data = [b \in Blocks |-> Zeros]
        /\ file = [f \in Files |-> NoFile]
        /\ op = Idle /\ out = <<>> /\ version = 0 /\ kills = 0
        /\ stored = [f \in Files |-> Nothing] /\ begun = [f \in Files |-> {}]
        /\ torn = {} /\ half = {} /\ mixed = FALSE
    BY DEF Init
  <1>2. CallInv
    <2>1. 0 \in 0 .. Capacity /\ 0 \in 0 .. MaxEmpty
      BY Sizes, MaxEmptyAssumption
    <2>2. CheckInit
      BY <2>1 DEF Init, CheckInit
    <2> QED
      BY <2>2, InitInv, InitCountInv DEF CallInv
  <1>3. NoFile \in FileRecords /\ Len(NoFile.links) = 0 /\ NoFile.leaves = 0 /\ NoFile.size = 0
    <2>1. 0 \in 0 .. Capacity
      BY Sizes
    <2> QED
      BY <2>1 DEF NoFile, FileRecords
  <1>4. \A f \in Files : file[f] = NoFile
    BY <1>1
  <1>5. Nothing \in Contents /\ Nothing.size = 0
    BY StreamAssumption DEF Nothing, Contents
  <1>6. DiskOK
    <2>1. data \in [Blocks -> Block]
      <3>1. Zero \in Bytes
        BY StreamAssumption DEF Zero, Bytes
      <3>2. Zeros \in Block
        BY <3>1 DEF Zeros, Block
      <3> QED
        BY <1>1, <3>2
    <2>2. file \in [Files -> FileRecords]
      BY <1>1, <1>3
    <2>3. free \subseteq Blocks
      BY <1>1
    <2>4. \A f \in Files : Len(file[f].links) = 0 /\ TakenFor(0, file[f].leaves) = 0
      BY <1>3, <1>4, Positions
    <2>5. half = {}
      BY <1>1
    <2>6. \A f \in Files : \A x \in 1 .. Len(file[f].links) : FALSE
      BY <2>4
    <2> QED
      BY <1>4, <2>1, <2>2, <2>3, <2>4, <2>5, <2>6 DEF DiskOK
  <1>7. HistoryOK
    <2>1. mixed \in BOOLEAN
      BY ONLY <1>1, Zenon
    <2>2. half \subseteq torn /\ torn \subseteq Files /\ 0 \in 0 .. MaxVersions /\ 0 \in 0 .. MaxKills
      BY <1>1, StreamAssumption
    <2>3. stored \in [Files -> Contents] /\ begun \in [Files -> SUBSET (1 .. MaxVersions)]
      BY <1>1, <1>5
    <2> QED
      BY <1>1, <2>1, <2>2, <2>3 DEF HistoryOK
  <1>8. \A f \in Files : /\ file[f].leaves = 0 /\ file[f].size = 0
                         /\ stored[f].size = 0
    BY <1>1, <1>3, <1>4, <1>5
  <1>9. OwnOK
    <2>1. \A b \in free : data[b] = Zeros
      BY <1>1
    <2>2. \A f \in Files : \A k \in 1 .. file[f].leaves : FALSE
      BY <1>8
    <2> QED
      BY <2>1, <2>2 DEF OwnOK
  <1>10. WholeOK
    BY <1>8, CountBlocksIs DEF WholeOK
  <1>11. OpTypeOK /\ StoreOK /\ CopyOK /\ OutOK
    <2>1. 0 \in 0 .. Capacity + 1
      BY Sizes
    <2>2. Idle \in Commands
      BY <1>5, <2>1 DEF Idle, Commands
    <2>3. op.at = "none"
      BY <1>1 DEF Idle
    <2> QED
      BY <1>1, <2>2, <2>3 DEF OpTypeOK, StoreOK, Storing, CopyOK, OutOK
  <1> QED
    BY <1>2, <1>6, <1>7, <1>9, <1>10, <1>11 DEF IInv

LEMMA NextIInv == IInv /\ [Next]_vars => IInv'
  <1> SUFFICES ASSUME IInv, [Next]_vars PROVE IInv'
    OBVIOUS
  <1>1. CASE StartIncp \/ StartCp
    BY <1>1, StartsKeep
  <1>2. CASE Checks
    BY <1>2, StillKeeps DEF Checks
  <1>3. CASE Refuses \/ ParentMissing \/ OutcpDone \/ Kill
    BY <1>3, EndsKeep
  <1>4. CASE Creates
    BY <1>4, CreatesKeeps
  <1>5. CASE Records
    BY <1>5, RecordsKeeps
  <1>6. CASE RecordFails \/ CopyFails \/ Removes
    BY <1>6, DiscardsKeep
  <1>7. CASE Resizes
    BY <1>7, ResizesKeeps
  <1>8. CASE CopiesInPlace
    BY <1>8, CopiesInPlaceKeeps
  <1>9. CASE PadsLast
    BY <1>9, PadsLastKeeps
  <1>10. CASE CopiesOver
    BY <1>10, CopiesOverKeeps
  <1>11. CASE CopiesBlock
    BY <1>11, CopiesBlockKeeps
  <1>12. CASE SetsSize
    BY <1>12, SetsSizeKeeps
  <1>13. CASE StartOutcp
    BY <1>13, StartOutcpKeeps
  <1>14. CASE WritesOut
    BY <1>14, WritesOutKeeps
  <1>15. CASE FsckRescues
    BY <1>15, FsckRescuesKeeps
  <1>20. CASE KilledGrowing
    BY <1>20, KilledGrowingKeeps
  <1>21. CASE KilledRemoving
    BY <1>21, KilledRemovingKeeps
  <1>22. CASE KilledGivingUp
    BY <1>22, KilledGivingUpKeeps
  <1>23. CASE KilledShortening
    BY <1>23, KilledShorteningKeeps
  <1>16. CASE UNCHANGED vars
    <2>1. UNCHANGED <<diskVars, historyVars, op, out, version, kills>>
      BY <1>16 DEF vars
    <2>2. UNCHANGED checkVars
      BY <1>16 DEF vars
    <2> QED
      BY <2>1, <2>2, StillKeeps
  <1> QED
    BY <1>1, <1>2, <1>3, <1>4, <1>5, <1>6, <1>7, <1>8, <1>9, <1>10, <1>11,
       <1>12, <1>13, <1>14, <1>15, <1>16, <1>20, <1>21, <1>22, <1>23 DEF Next

LEMMA AlwaysIInv == Spec => []IInv
  BY InitIInv, NextIInv, PTL DEF Spec

------------------------------------------------------------------------------
(* What cat prints.                                                        *)

\* What a sequence of sequences is joined to, given what its prefixes are.
LEMMA FlattenIs ==
    ASSUME NEW s, NEW prefix, Len(s) \in Nat, Len(s) > 0,
           prefix = [k \in 1 .. Len(s) |-> prefix[k]], prefix[1] = s[1],
           \A k \in 2 .. Len(s) : prefix[k] = prefix[k - 1] \o s[k]
    PROVE  FlattenSeq(s) = prefix[Len(s)]
  <1> DEFINE N == Len(s)
             Joins(g) == g = [k \in 1 .. Len(s) |-> IF k = 1 THEN s[k] ELSE g[k - 1] \o s[k]]
             flatten == CHOOSE g : Joins(g)
  <1>1. FlattenSeq(s) = flatten[N]
    <2>1. ~(Len(s) = 0)
      OBVIOUS
    <2> QED
      BY <2>1, Zenon DEF FlattenSeq
  <1>2. Joins(prefix)
    <2>1. \A k \in 1 .. N : prefix[k] = IF k = 1 THEN s[k] ELSE prefix[k - 1] \o s[k]
      <3> TAKE k \in 1 .. N
      <3>1. k = 1 \/ (k # 1 /\ k \in 2 .. N)
        OBVIOUS
      <3> QED
        BY <3>1, Zenon
    <2> QED
      BY <2>1
  <1>3. Joins(flatten)
    BY <1>2, Zenon
  <1>4. \A k \in 1 .. N : flatten[k] = IF k = 1 THEN s[k] ELSE flatten[k - 1] \o s[k]
    <2> HIDE DEF flatten
    <2> QED
      BY <1>3
  <1> DEFINE S == {k \in 0 .. N : k = 0 \/ flatten[k] = prefix[k]}
  <1>5. 0 \in S
    OBVIOUS
  <1>6. ASSUME NEW k \in 0 .. N - 1, k \in S PROVE k + 1 \in S
    <2> HIDE DEF flatten
    <2>1. CASE k = 0
      BY <1>4, <2>1
    <2>2. CASE k \in 1 .. N - 1
      <3>1. k + 1 \in 2 .. N /\ k + 1 \in 1 .. N /\ k + 1 # 1 /\ (k + 1) - 1 = k
        BY <2>2
      <3>2. flatten[k] = prefix[k]
        BY <1>6, <2>2
      <3>3. flatten[k + 1] = flatten[k] \o s[k + 1]
        BY <1>4, <3>1
      <3>4. prefix[k + 1] = prefix[k] \o s[k + 1]
        BY <3>1
      <3> QED
        <4>1. flatten[k + 1] = prefix[k + 1]
          BY <3>2, <3>3, <3>4, Zenon
        <4> QED
          BY <4>1
    <2> QED
      BY <1>6, <2>1, <2>2
  <1>7. N \in S
    <2> HIDE DEF S
    <2>1. 0 .. N \subseteq S
      BY <1>5, <1>6, SetInduction
    <2> QED
      BY <2>1
  <1>8. flatten[N] = prefix[N]
    <2> HIDE DEF flatten
    <2> QED
      BY <1>7
  <1> QED
    BY <1>1, <1>8, Zenon

\* cat prints no zero byte.
LEMMA PrintedNotZero ==
    ASSUME NEW block \in Block, NEW byte \in Range(Printed(block))
    PROVE  \E p \in 1 .. BlockSize : byte = block[p] /\ byte # Zero
  <1> DEFINE ends == {p \in 1 .. BlockSize : block[p] = Zero}
             last == IF ends = {} THEN BlockSize ELSE Min(ends) - 1
             P(x) == x \in ends /\ \A y \in ends : x <= y
  <1>0. BlockSize \in Nat
    BY Sizes
  <1>1. last \in 0 .. BlockSize /\ \A p \in 1 .. last : p \notin ends
    <2>1. CASE ends = {}
      BY <1>0, <2>1
    <2>2. CASE ends # {}
      <3>0. ends \subseteq Nat /\ ends # {}
        BY <2>2
      <3>1. \E x \in ends : \A y \in ends : x <= y
        <4> HIDE DEF ends
        <4> QED
          BY <3>0, LeastExists
      <3>2. P(CHOOSE x : P(x))
        BY <3>1, Zenon
      <3>3. Min(ends) = CHOOSE x : P(x)
        BY Zenon DEF Min
      <3>4. P(Min(ends))
        BY <3>2, <3>3, Zenon
      <3>5. Min(ends) \in 1 .. BlockSize
        BY <3>4
      <3>6. last = Min(ends) - 1
        BY <2>2
      <3> HIDE DEF ends
      <3> QED
        BY <1>0, <3>4, <3>5, <3>6
    <2> QED
      BY <2>1, <2>2
  <1>2. Printed(block) = SubSeq(block, 1, last)
    BY Zenon DEF Printed
  <1>3. block \in Seq(Bytes) /\ Len(block) = BlockSize
    BY <1>0 DEF Block
  <1>4. \A p \in 1 .. BlockSize : p \notin ends => block[p] # Zero
    OBVIOUS
  <1> HIDE DEF last, ends
  <1>5. /\ SubSeq(block, 1, last) \in Seq(Bytes) /\ Len(SubSeq(block, 1, last)) = last
        /\ \A p \in 1 .. last : SubSeq(block, 1, last)[p] = block[p]
    BY <1>0, <1>1, <1>3
  <1>6. PICK p \in 1 .. last : byte = SubSeq(block, 1, last)[p]
    <2>1. byte \in Range(SubSeq(block, 1, last))
      BY <1>2
    <2> QED
      BY <1>5, <2>1 DEF Range
  <1>7. p \in 1 .. BlockSize /\ p \notin ends
    BY <1>0, <1>1
  <1> QED
    BY <1>4, <1>5, <1>6, <1>7

\* What cat prints of a block that was stored.
LEMMA PrintedIs ==
    ASSUME NEW c \in Contents, NEW k \in Nat, k > 0, (k - 1) * BlockSize < c.size,
           c.zero = 0
    PROVE  Printed(BlockOf(c, k)) = Read(c, k)
  <1> DEFINE d == (k - 1) * BlockSize
             e == k * BlockSize
             block == BlockOf(c, k)
             read == Read(c, k)
             ends == {p \in 1 .. BlockSize : block[p] = Zero}
             last == IF ends = {} THEN BlockSize ELSE Min(ends) - 1
  <1>1. c.size \in Nat
    BY SizesAreNat DEF Contents
  <1>2. d \in Nat /\ d < c.size /\ e = d + BlockSize /\ BlockSize \in Nat /\ BlockSize > 0
    BY Sizes
  <1>0. \A p \in Nat : p > 0 => ByteOf(c, p) = <<c.version, p>>
    BY DEF ByteOf
  <1>3. /\ read \in Seq({c.version, 0} \X Nat)
        /\ Len(read) \in 0 .. BlockSize
        /\ Len(read) = BlockSize <=> e <= c.size
        /\ Len(read) < BlockSize => c.size = d + Len(read) \/ (c.size <= d /\ Len(read) = 0)
        /\ \A p \in 1 .. Len(read) : read[p] = <<c.version, d + p>>
    <2>1. /\ read \in Seq({c.version, 0} \X Nat)
          /\ Len(read) \in 0 .. BlockSize
          /\ Len(read) = BlockSize <=> e <= c.size
          /\ Len(read) < BlockSize => c.size = d + Len(read) \/ (c.size <= d /\ Len(read) = 0)
          /\ \A p \in 1 .. Len(read) : read[p] = ByteOf(c, d + p)
      BY <1>1, ReadIs
    <2>2. \A p \in 1 .. Len(read) : d + p \in Nat /\ d + p > 0
      BY <1>2, <2>1
    <2> QED
      BY <1>0, <2>1, <2>2
  <1>4. /\ block \in Block
        /\ \A p \in 1 .. BlockSize :
             block[p] = IF d + p <= c.size THEN <<c.version, d + p>> ELSE Zero
    <2>1. /\ block \in Block
          /\ \A p \in 1 .. BlockSize :
               block[p] = IF d + p <= c.size THEN ByteOf(c, d + p) ELSE Zero
      BY BlockOfIs
    <2>2. \A p \in 1 .. BlockSize : d + p \in Nat /\ d + p > 0
      BY <1>2
    <2> QED
      BY <1>0, <2>1, <2>2
  <1> HIDE DEF d, e, block, read
  <1>len. Len(read) \in Nat /\ Len(read) <= BlockSize
    BY <1>2, <1>3
  <1>5. \A p \in 1 .. BlockSize : block[p] = Zero <=> p > Len(read)
    <2> SUFFICES ASSUME NEW p \in 1 .. BlockSize PROVE block[p] = Zero <=> p > Len(read)
      OBVIOUS
    <2>1. d + p <= c.size <=> p <= Len(read)
      <3>1. CASE Len(read) = BlockSize
        BY <1>1, <1>2, <1>3, <3>1
      <3>2. CASE Len(read) < BlockSize
        <4>1. c.size = d + Len(read)
          BY <1>1, <1>2, <1>3, <3>2
        <4> QED
          BY <1>2, <1>len, <4>1
      <3> QED
        BY <1>2, <1>len, <3>1, <3>2
    <2>2. <<c.version, d + p>> # Zero
      BY <1>2 DEF Zero
    <2>3. p <= Len(read) <=> ~(p > Len(read))
      BY <1>len
    <2> QED
      BY <1>4, <2>1, <2>2, <2>3, Zenon
  <1>6. last = Len(read)
    <2>1. ends = {p \in 1 .. BlockSize : p > Len(read)}
      BY <1>5
    <2>2. CASE Len(read) = BlockSize
      <3>1. ends = {}
        BY <1>2, <2>1, <2>2
      <3> QED
        BY <2>2, <3>1
    <2>3. CASE Len(read) < BlockSize
      <3> DEFINE m == Len(read) + 1
                 P(x) == x \in ends /\ \A y \in ends : x <= y
      <3> HIDE DEF ends
      <3>1. P(m)
        BY <1>2, <1>len, <2>1, <2>3
      <3>2. \A x : P(x) => x = m
        BY <1>2, <1>len, <2>1, <3>1
      <3>3. P(CHOOSE x : P(x))
        BY <3>1, Zenon
      <3>4. Min(ends) = CHOOSE x : P(x)
        BY Zenon DEF Min
      <3>5. Min(ends) = m
        BY <3>2, <3>3, <3>4, Zenon
      <3>6. ends # {}
        BY <3>1
      <3> QED
        BY <1>len, <3>5, <3>6
    <2>4. Len(read) = BlockSize \/ Len(read) < BlockSize
      BY <1>2, <1>len
    <2> HIDE DEF last
    <2> QED
      BY <2>2, <2>3, <2>4
  <1>7. Printed(block) = SubSeq(block, 1, last)
    BY Zenon DEF Printed
  <1> HIDE DEF last
  <1>8. block \in Seq(Bytes) /\ Len(block) = BlockSize
    BY <1>2, <1>4 DEF Block
  <1>9. /\ SubSeq(block, 1, last) \in Seq(Bytes)
        /\ Len(SubSeq(block, 1, last)) = Len(read)
        /\ \A p \in 1 .. Len(read) : SubSeq(block, 1, last)[p] = block[p]
    <2>1. Len(read) <= Len(block)
      BY <1>len, <1>8
    <2> QED
      BY <1>6, <1>8, <1>len, <2>1
  <1>10. \A p \in 1 .. Len(read) : block[p] = read[p]
    <2> SUFFICES ASSUME NEW p \in 1 .. Len(read) PROVE block[p] = read[p]
      OBVIOUS
    <2>1. p \in 1 .. BlockSize /\ ~(p > Len(read))
      BY <1>2, <1>len
    <2>2. block[p] # Zero
      BY <1>5, <2>1
    <2> QED
      BY <1>3, <1>4, <2>1, <2>2
  <1>11. SubSeq(block, 1, last) = read
    <2> DEFINE sub == SubSeq(block, 1, last)
    <2> HIDE DEF sub
    <2>1. sub = [p \in 1 .. Len(read) |-> sub[p]]
      BY <1>9 DEF sub
    <2>2. read = [p \in 1 .. Len(read) |-> read[p]]
      BY <1>3
    <2>3. \A p \in 1 .. Len(read) : sub[p] = read[p]
      BY <1>9, <1>10 DEF sub
    <2> QED
      BY <2>1, <2>2, <2>3 DEF sub
  <1> QED
    BY <1>7, <1>11 DEF block, read

------------------------------------------------------------------------------
\* Bytes, links and locals keep their types under every command, kill and
\* retry; in particular the links of the files are as many as their leaves and
\* the link blocks above need, and blocks the bitmap does not show as free, but
\* for what a kill in the middle of freeing leaves.
THEOREM StreamTypes == Spec => []TypeOK
  <1>1. IInv => TypeOK
    <2> SUFFICES ASSUME IInv PROVE TypeOK
      OBVIOUS
    <2>1. CheckTypeOK
      BY DEF IInv, CallInv, Inv
    <2>2. DiskOK /\ HistoryOK /\ op \in Commands
      BY DEF IInv, OpTypeOK
    <2>3. file \in [Files -> FileRecords]
      BY <2>2 DEF DiskOK
    <2>4. ASSUME NEW f \in Files
          PROVE  /\ Range(file[f].links) \subseteq Blocks
                 /\ f \notin half => Range(file[f].links) \intersect free = {}
                 /\ file[f].leaves \in 0 .. Capacity
                 /\ Len(file[f].links) = TakenFor(0, file[f].leaves)
                 /\ file[f].exists \/ file[f] = NoFile
      <3>1. file[f].links \in Seq(Blocks) /\ file[f].leaves \in 0 .. Capacity
        BY <2>3 DEF FileRecords
      <3>2. f \notin half => \A x \in 1 .. Len(file[f].links) : file[f].links[x] \notin free
        BY <2>2 DEF DiskOK
      <3>3. /\ Range(file[f].links) \subseteq Blocks
            /\ f \notin half => Range(file[f].links) \intersect free = {}
        BY <3>1, <3>2 DEF Range
      <3> QED
        BY <2>2, <3>1, <3>3 DEF DiskOK
    <2>5. op.k \in 0 .. Capacity + 1
      BY <2>2 DEF Commands
    <2>6. free \subseteq Blocks /\ data \in [Blocks -> [1 .. BlockSize -> (0 .. MaxVersions) \X Nat]]
      BY <2>2 DEF DiskOK, Block, Bytes
    <2> QED
      BY <2>1, <2>2, <2>4, <2>5, <2>6 DEF TypeOK, HistoryOK, Contents
  <1> QED
    BY AlwaysIInv, <1>1, PTL

\* Called from incp and cp with the sizes and the free blocks they find, the
\* check accepts no file without room for its leaves and link blocks.
THEOREM AcceptedInUse == Spec => []AcceptedFits
  <1>1. IInv => AcceptedFits
    BY DEF IInv, CallInv, Inv, LoopInv, AcceptedFits
  <1> QED
    BY AlwaysIInv, <1>1, PTL

\* ... and it answers what the closed form says.
THEOREM ClosedFormInUse == Spec => []ClosedForm
  <1>1. IInv => ClosedForm
    BY DEF IInv, CallInv, CountInv, ClosedForm
  <1> QED
    BY AlwaysIInv, <1>1, PTL

\* For every size of blocks, files and link trees: what incp stored, over
\* whatever was there, or cp copied from it, outcp writes byte by byte, unless
\* the file's own copying or freeing was broken off, or it had blocks in common
\* with a half freed file that was used again.
THEOREM RoundTripHolds == Spec => []RoundTrip
  <1>1. IInv => RoundTrip
    <2> SUFFICES ASSUME IInv, op.at = "out", AllOut, op.source \notin torn
                 PROVE  out = Content(stored[op.source])
      BY DEF RoundTrip
    <2> DEFINE f == op.source
               done == (op.k - 1) * BlockSize
               size == file[f].size
    <2>1. /\ f \in Files /\ op.k \in 1 .. file[f].leaves + 1
          /\ op.left = IF size > done THEN size - done ELSE 0
          /\ out \in Seq(Bytes) /\ Len(out) = size - op.left
          /\ \A p \in 1 .. Len(out) : out[p] = ByteOf(stored[f], p)
      BY DEF IInv, OutOK
    <2>2. DiskOK /\ WholeOK /\ HistoryOK
      BY DEF IInv
    <2>3. /\ stored[f].size = size /\ file[f].leaves = CountBlocks(size)
      BY <2>1, <2>2 DEF WholeOK
    <2>4. size \in Nat /\ file[f].leaves \in Nat
      <3>1. file \in [Files -> FileRecords]
        BY <2>2 DEF DiskOK
      <3> QED
        BY <2>1, <3>1, SizesAreNat, Sizes DEF FileRecords
    <2>5. op.left = 0
      <3>1. CASE op.left = 0
        BY <3>1
      <3>2. CASE op.k > file[f].leaves
        <4>1. op.k - 1 = file[f].leaves /\ op.k - 1 \in Nat
          BY <2>1, <2>4, <3>2
        <4>2. ~(op.k - 1 < CountBlocks(size))
          BY <2>3, <2>4, <4>1
        <4>3. ~(done < size)
          BY <2>4, <4>1, <4>2, CountBlocksIs
        <4>4. done \in Nat
          BY <4>1, Sizes
        <4> QED
          BY <2>1, <2>4, <4>3, <4>4
      <3> QED
        BY <3>1, <3>2 DEF AllOut
    <2>6. Len(out) = size
      BY <2>1, <2>4, <2>5
    <2>7. out = [p \in 1 .. size |-> out[p]]
      BY <2>1, <2>6
    <2>8. \A p \in 1 .. size : out[p] = ByteOf(stored[f], p)
      BY <2>1, <2>6
    <2>9. out = [p \in 1 .. size |-> ByteOf(stored[f], p)]
      BY ONLY <2>7, <2>8
    <2> QED
      BY <2>3, <2>9 DEF Content, ByteOf
  <1> QED
    BY AlwaysIInv, <1>1, PTL

\* cat, which does not look at the size, prints just what was stored, when none
\* of its bytes is zero: the last block is filled with zeros wherever copying was
\* not broken off.
THEOREM CatAgreesHolds == Spec => []CatAgrees
  <1>1. IInv => CatAgrees
    <2> SUFFICES ASSUME IInv, NEW f \in Files, f \notin torn, stored[f].zero = 0
                 PROVE  Cat(f) = Content(stored[f])
      BY DEF CatAgrees
    <2> DEFINE c == stored[f]
               n == file[f].leaves
               printed == [x \in 1 .. n |-> Printed(data[Leaf(f, x)])]
               prefix == [k \in 1 .. n |->
                             [p \in 1 .. (IF k * BlockSize <= c.size THEN k * BlockSize
                                                                   ELSE c.size)
                                |-> <<c.version, p>>]]
    <2>1. c \in Contents /\ c.size \in Nat
      BY SizesAreNat DEF IInv, HistoryOK, Contents
    <2>2. /\ n = CountBlocks(c.size)
          /\ \A k \in 1 .. n : data[Leaf(f, k)] = BlockOf(c, k)
      BY DEF IInv, WholeOK
    <2>3. BlockSize \in Nat /\ BlockSize > 0
      BY Sizes
    <2>z. c.zero = 0
      OBVIOUS
    <2> HIDE DEF c, n
    <2>y. \A p \in Nat : p > 0 => ByteOf(c, p) = <<c.version, p>>
      BY <2>z DEF ByteOf
    <2>x. Content(c) = [p \in 1 .. c.size |-> <<c.version, p>>]
      <3>1. \A p \in 1 .. c.size : p # c.zero
        BY <2>z
      <3> QED
        BY <3>1 DEF Content
    <2>4. n \in Nat /\ \A k \in Nat : k < n <=> k * BlockSize < c.size
      BY <2>1, <2>2, CountBlocksIs
    <2>5. ASSUME NEW k \in 1 .. n
          PROVE  /\ (k - 1) * BlockSize \in Nat
                 /\ (k - 1) * BlockSize < c.size
                 /\ k * BlockSize = (k - 1) * BlockSize + BlockSize
      <3>1. k \in Nat /\ k - 1 \in Nat /\ k - 1 < n
        BY <2>4
      <3>2. (k - 1) * BlockSize < c.size
        BY <2>4, <3>1
      <3>3. (k - 1) * BlockSize \in Nat /\ k * BlockSize = (k - 1) * BlockSize + BlockSize
        BY <2>3, <3>1
      <3> QED
        BY <3>2, <3>3
    <2>6. ASSUME NEW k \in 1 .. n PROVE printed[k] = Read(c, k)
      <3>1. k \in Nat /\ k > 0
        BY <2>4
      <3>2. Printed(BlockOf(c, k)) = Read(c, k)
        BY <2>1, <2>5, <2>z, <3>1, PrintedIs
      <3> QED
        BY <2>2, <3>2
    <2>7. Cat(f) = FlattenSeq(printed) /\ Len(printed) = n
      <3>1. Len(printed) = n
        BY <2>4
      <3> QED
        BY <3>1 DEF Cat, n
    <2>8. CASE n = 0
      <3>1. c.size = 0
        BY <2>1, <2>3, <2>4, <2>8
      <3>2. FlattenSeq(printed) = printed
        BY <2>7, <2>8, Zenon DEF FlattenSeq
      <3>3. printed = << >> /\ Content(c) = << >>
        BY <2>8, <2>x, <3>1
      <3> QED
        BY <2>7, <3>2, <3>3 DEF c
    <2>9. CASE n > 0
      <3> DEFINE X == {c.version, 0} \X Nat
      <3>1. ASSUME NEW k \in 1 .. n
            PROVE  LET m == IF k * BlockSize <= c.size THEN k * BlockSize ELSE c.size
                   IN  /\ m \in Nat
                       /\ prefix[k] = [p \in 1 .. m |-> <<c.version, p>>]
                       /\ prefix[k] \in Seq(X) /\ Len(prefix[k]) = m
                       /\ \A p \in 1 .. m : prefix[k][p] = <<c.version, p>>
        <4> DEFINE m == IF k * BlockSize <= c.size THEN k * BlockSize ELSE c.size
                   s == [p \in 1 .. m |-> <<c.version, p>>]
        <4>1. m \in Nat
          BY <2>1, <2>3, <2>5
        <4>2. prefix[k] = s
          OBVIOUS
        <4> HIDE DEF m, prefix, X
        <4>3. \A p \in 1 .. m : <<c.version, p>> \in X
          BY <4>1 DEF X
        <4>4. s \in Seq(X) /\ Len(s) = m
          BY <4>1, <4>3
        <4>5. \A p \in 1 .. m : s[p] = <<c.version, p>>
          OBVIOUS
        <4> QED
          BY <4>1, <4>2, <4>4, <4>5 DEF m
      <3>2. ASSUME NEW k \in 1 .. n
            PROVE  LET d == (k - 1) * BlockSize
                       m == IF k * BlockSize <= c.size THEN k * BlockSize ELSE c.size
                   IN  /\ Read(c, k) \in Seq(X) /\ d + Len(Read(c, k)) = m
                       /\ \A p \in 1 .. Len(Read(c, k)) : Read(c, k)[p] = <<c.version, d + p>>
        <4> DEFINE r == Read(c, k)
                   d == (k - 1) * BlockSize
                   e == k * BlockSize
        <4>1. k \in Nat /\ k > 0
          BY <2>4
        <4>20. /\ r \in Seq({c.version, 0} \X Nat)
               /\ Len(r) \in 0 .. BlockSize
               /\ Len(r) = BlockSize <=> e <= c.size
               /\ Len(r) < BlockSize => c.size = d + Len(r) \/ (c.size <= d /\ Len(r) = 0)
               /\ \A p \in 1 .. Len(r) : r[p] = ByteOf(c, d + p)
          BY <2>1, <4>1, ReadIs
        <4>3. d \in Nat /\ d < c.size /\ e = d + BlockSize
          BY <2>5
        <4> HIDE DEF r, d, e
        <4>2. /\ r \in Seq({c.version, 0} \X Nat)
              /\ Len(r) \in 0 .. BlockSize
              /\ Len(r) = BlockSize <=> e <= c.size
              /\ Len(r) < BlockSize => c.size = d + Len(r) \/ (c.size <= d /\ Len(r) = 0)
              /\ \A p \in 1 .. Len(r) : r[p] = <<c.version, d + p>>
          <5>1. \A p \in 1 .. Len(r) : d + p \in Nat /\ d + p > 0
            BY <4>20, <4>3
          <5> QED
            BY <2>y, <4>20, <5>1
        <4>4. d + Len(r) = IF e <= c.size THEN e ELSE c.size
          BY <2>1, <2>3, <4>2, <4>3
        <4> QED
          BY <4>2, <4>4 DEF r, d, e
      <3> HIDE DEF prefix, printed, X
      <3>3. prefix \in [1 .. n -> Seq(X)]
        <4>1. prefix = [k \in 1 .. n |-> prefix[k]]
          BY DEF prefix
        <4>2. \A k \in 1 .. n : prefix[k] \in Seq(X)
          BY <3>1
        <4> QED
          BY <4>1, <4>2
      <3>4. prefix[1] = printed[1]
        <4> DEFINE m == IF 1 * BlockSize <= c.size THEN 1 * BlockSize ELSE c.size
                   r == Read(c, 1)
        <4>1. 1 \in 1 .. n /\ (1 - 1) * BlockSize = 0
          BY <2>3, <2>4, <2>9
        <4>2. /\ m \in Nat
              /\ prefix[1] = [p \in 1 .. m |-> <<c.version, p>>]
          BY <3>1, <4>1
        <4>3. /\ r \in Seq(X) /\ 0 + Len(r) = m
              /\ \A p \in 1 .. Len(r) : r[p] = <<c.version, 0 + p>>
          BY <3>2, <4>1
        <4> HIDE DEF m, r
        <4>4. r = [p \in 1 .. m |-> r[p]] /\ \A p \in 1 .. m : r[p] = <<c.version, p>>
          BY <4>2, <4>3
        <4>5. prefix[1] = r
          BY ONLY <4>2, <4>4
        <4> QED
          BY <2>6, <4>1, <4>5 DEF r
      <3>5. ASSUME NEW k \in 2 .. n PROVE prefix[k] = prefix[k - 1] \o printed[k]
        <4> DEFINE m == IF k * BlockSize <= c.size THEN k * BlockSize ELSE c.size
                   d == (k - 1) * BlockSize
                   r == Read(c, k)
                   before == prefix[k - 1]
        <4>1. k \in 1 .. n /\ k - 1 \in 1 .. n
          BY <2>4
        <4>2. m \in Nat /\ prefix[k] = [p \in 1 .. m |-> <<c.version, p>>]
          BY <3>1, <4>1
        <4>3. d \in Nat /\ d <= c.size
          BY <2>1, <2>5, <4>1
        <4>4. /\ before \in Seq(X) /\ Len(before) = d
              /\ \A p \in 1 .. d : before[p] = <<c.version, p>>
          BY <3>1, <4>1, <4>3
        <4>5. /\ r \in Seq(X) /\ d + Len(r) = m
              /\ \A p \in 1 .. Len(r) : r[p] = <<c.version, d + p>>
          BY <3>2, <4>1
        <4> HIDE DEF m, d, r, before
        <4> DEFINE s == before \o r
        <4>6. s \in Seq(X) /\ Len(s) = m
          <5>1. before \in Seq(X) /\ r \in Seq(X) /\ Len(before) + Len(r) = m
            BY <4>4, <4>5
          <5> QED
            BY ONLY <5>1
        <4>7. ASSUME NEW p \in 1 .. m PROVE s[p] = <<c.version, p>>
          <5>0. p \in Nat /\ p > 0 /\ p <= m /\ Len(r) \in Nat
            BY <4>2, <4>5
          <5>1. CASE p <= d
            <6>1. p \in 1 .. d
              BY <4>3, <5>0, <5>1
            <6>2. s[p] = before[p]
              BY <4>4, <4>5, <6>1
            <6> QED
              BY <4>4, <6>1, <6>2
          <5>2. CASE p > d
            <6>1. p - d \in 1 .. Len(r) /\ d + (p - d) = p
              BY <4>2, <4>3, <4>5, <5>0, <5>2
            <6>2. s[p] = r[p - d]
              BY <4>3, <4>4, <4>5, <5>0, <5>2, <6>1
            <6> QED
              BY <4>5, <6>1, <6>2
          <5> QED
            <6>1. p <= d \/ p > d
              BY <4>3, <5>0
            <6> QED
              BY <5>1, <5>2, <6>1, Zenon
        <4> HIDE DEF s
        <4>8. s = [p \in 1 .. m |-> s[p]]
          BY <4>6
        <4>9. \A p \in 1 .. m : s[p] = <<c.version, p>>
          BY <4>7
        <4>10. prefix[k] = s
          BY ONLY <4>2, <4>8, <4>9
        <4> QED
          BY <2>6, <4>1, <4>10 DEF s, r, before
      <3>6. FlattenSeq(printed) = prefix[n]
        <4>1. Len(printed) = n /\ n \in Nat /\ n > 0
          BY <2>4, <2>7, <2>9
        <4>2. \A k \in 2 .. n : prefix[k] = prefix[k - 1] \o printed[k]
          BY <3>5
        <4>3. prefix = [k \in 1 .. n |-> prefix[k]]
          BY <3>3
        <4>4. FlattenSeq(printed) = prefix[Len(printed)]
          BY ONLY <3>4, <4>1, <4>2, <4>3, FlattenIs
        <4> QED
          BY <4>1, <4>4
      <3>7. prefix[n] = Content(c)
        <4>1. ~(n < n) /\ n \in 1 .. n
          BY <2>4, <2>9
        <4>2. ~(n * BlockSize < c.size)
          BY <2>4, <4>1
        <4>3. n * BlockSize \in Nat
          BY <2>3, <2>4
        <4>4. (IF n * BlockSize <= c.size THEN n * BlockSize ELSE c.size) = c.size
          BY <2>1, <4>2, <4>3
        <4>5. prefix[n] = [p \in 1 .. c.size |-> <<c.version, p>>]
          BY <3>1, <4>1, <4>4, Zenon
        <4> QED
          BY <2>x, <4>5
      <3> QED
        BY <2>7, <3>6, <3>7 DEF c
    <2> QED
      BY <2>4, <2>8, <2>9
  <1> QED
    BY AlwaysIInv, <1>1, PTL

\* Whatever is killed and tried again, neither outcp nor cat gives out a byte of a
\* file that had the blocks before, or of a link block, but for files that a kill
\* left half freed, and as long as none of those was written to or copied.
THEOREM NothingForeignHolds == Spec => []NothingForeign
  <1>1. IInv => NothingForeign
    <2> SUFFICES ASSUME IInv, ~mixed, NEW f \in Files \ half
                 PROVE  /\ op.at = "out" /\ op.source = f =>
                             \A p \in DOMAIN out : out[p] = Zero \/ out[p][1] \in begun[f]
                        /\ \A x \in 1 .. file[f].leaves :
                           \A byte \in Range(Printed(data[Leaf(f, x)])) : byte[1] \in begun[f]
      BY DEF NothingForeign
    <2>1. ASSUME op.at = "out", op.source = f, NEW p \in DOMAIN out
          PROVE  out[p] = Zero \/ out[p][1] \in begun[f]
      <3>1. out \in Seq(Bytes)
        BY <2>1 DEF IInv, OutOK
      <3>2. p \in 1 .. Len(out)
        BY <2>1, <3>1
      <3> QED
        BY <2>1, <3>2 DEF IInv, OutOK
    <2>2. ASSUME NEW x \in 1 .. file[f].leaves,
                 NEW byte \in Range(Printed(data[Leaf(f, x)]))
          PROVE  byte[1] \in begun[f]
      <3>1. Own(f, data[Leaf(f, x)]) /\ data[Leaf(f, x)] \in Block
        BY LeafIs DEF IInv, OwnOK
      <3>2. PICK p \in 1 .. BlockSize : byte = data[Leaf(f, x)][p] /\ byte # Zero
        BY <2>2, <3>1, PrintedNotZero
      <3> QED
        BY <3>1, <3>2 DEF Own
    <2> QED
      BY <2>1, <2>2
  <1> QED
    BY AlwaysIInv, <1>1, PTL
=====
