--------------------------- MODULE SessionProofs ---------------------------
(***************************************************************************)
(* For every size format accepts: no uint32_t of the layout overflows, the *)
(* parts follow each other, and every index and id is inside its part.     *)
(* For all sizes, directories and kills: what a completed format leaves is *)
(* whole, and every seek after it stays inside the file; the prompt names  *)
(* the current directory; and get_path_to_root() writes the whole path, or *)
(* its last characters, at most two of them before its buffer.             *)
(***************************************************************************)
EXTENDS Session, Numbers

\* A number below 2^32 is kept by an assignment to a uint32_t.
LEMMA WordKeeps ==
    ASSUME NEW x \in Nat, x \div HalfWord < HalfWord
    PROVE  Word(x) = x
  BY SMT DEF Word, HalfWord

LEMMA WordKeepsBelow ==
    ASSUME NEW x \in Nat, x < 4294967296
    PROVE  Word(x) = x
  <1>1. x \div HalfWord < HalfWord
    BY SMT DEF HalfWord
  <1> QED
    BY SMT, <1>1, WordKeeps

\* The blocks of a filesystem: 95 percent of it.
LEMMA BlockCntBounds ==
    ASSUME NEW mb \in 1 .. FsSizeMax
    PROVE  /\ BlockCnt(mb) \in Nat
           /\ 972 <= BlockCnt(mb) /\ BlockCnt(mb) <= 3983616
           /\ 10 * BlockCnt(mb) <= 9728 * mb
  BY SMT DEF BlockCnt, FsSizeMax, Percentage

\* Where the parts begin, without overflow.
LEMMA Addresses ==
    ASSUME NEW mb \in 1 .. FsSizeMax, NEW n, n = BlockCnt(mb)
    PROVE  /\ AddrBmInodes = 312
           /\ AddrBmData(n) = 312 + n
           /\ AddrInodes(n) = 312 + 2 * n
           /\ AddrData(n) = 312 + 42 * n
  <1>1. n \in Nat /\ n <= 3983616
    BY SMT, BlockCntBounds
  <1>2. AddrBmInodes = 312
    BY SMT DEF AddrBmInodes, SuperblockSize
  <1>3. AddrBmData(n) = 312 + n
    <2>1. 312 + n \in Nat /\ 312 + n < 4294967296
      BY SMT, <1>1
    <2> QED
      BY SMT, <1>2, <2>1, WordKeepsBelow DEF AddrBmData
  <1>4. AddrInodes(n) = 312 + 2 * n
    <2>1. 312 + n + n \in Nat /\ 312 + n + n < 4294967296 /\ 312 + n + n = 312 + 2 * n
      BY SMT, <1>1
    <2> QED
      BY SMT, <1>3, <2>1, WordKeepsBelow DEF AddrInodes
  <1>5. AddrData(n) = 312 + 42 * n
    <2>1. /\ 312 + 2 * n + n * 40 \in Nat
          /\ 312 + 2 * n + n * 40 < 4294967296
          /\ 312 + 2 * n + n * 40 = 312 + 42 * n
      BY SMT, <1>1
    <2> QED
      BY SMT, <1>4, <2>1, WordKeepsBelow DEF AddrData, InodeSize
  <1> QED
    BY SMT, <1>2, <1>3, <1>4, <1>5

\* Every index and every id an inode or a block can have is looked for inside
\* the part it belongs to, and the last part ends inside the file: for every size
\* from 1 to FS_SIZE_MAX the uint32_t addresses of init_superblock() and the
\* seeks of fs_io.c agree.
THEOREM EverySeekInside ==
    ASSUME NEW mb \in 1 .. FsSizeMax, NEW n, n = BlockCnt(mb),
           NEW id \in 1 .. n
    PROVE  /\ SuperblockSize <= SeekBmInode(id - 1)
           /\ SeekBmInode(id - 1) < AddrBmData(n)
           /\ AddrBmData(n) <= SeekBmData(n, id - 1)
           /\ SeekBmData(n, id - 1) < AddrInodes(n)
           /\ AddrInodes(n) <= SeekInode(n, id)
           /\ SeekInode(n, id) + InodeSize <= AddrData(n)
           /\ AddrData(n) <= SeekData(n, id)
           /\ SeekData(n, id) + FsBlockSize <= Bytes(mb)
  <1>1. n \in Nat /\ n <= 3983616 /\ 10 * n <= 9728 * mb
    BY SMT, BlockCntBounds
  <1>2. Word(id - 1) = id - 1
    <2>1. id - 1 \in Nat /\ id - 1 < 4294967296
      BY SMT, <1>1
    <2> QED
      BY SMT, <2>1, WordKeepsBelow
  <1>3. /\ SeekBmInode(id - 1) = 312 + (id - 1)
        /\ SeekBmData(n, id - 1) = 312 + n + (id - 1)
        /\ SeekInode(n, id) = 312 + 2 * n + (id - 1) * 40
        /\ SeekData(n, id) = 312 + 42 * n + (id - 1) * 1024
    BY SMT, <1>2, Addresses
       DEF SeekBmInode, SeekBmData, SeekInode, SeekData, InodeSize, FsBlockSize
  <1>4. 312 + 42 * n + (id - 1) * 1024 + 1024 <= mb * 1024 * 1024
    BY SMT, <1>1 DEF FsSizeMax
  <1> QED
    BY SMT, <1>1, <1>3, <1>4, Addresses
       DEF SuperblockSize, InodeSize, FsBlockSize, Bytes

\* incp and cp go on only with a file whose blocks the filesystem has and whose
\* blocks an inode can link: the product the size test compares is not cut off,
\* because the test before it bounds the count by the blocks of the filesystem.
\* (A host file of 4 TB and more has a count that does not fit its uint32_t.)
THEOREM AcceptedIsLinkable ==
    ASSUME NEW mb \in 1 .. FsSizeMax, NEW n, n = BlockCnt(mb),
           NEW bytes \in Nat,
           FitsWord((bytes + FsBlockSize - 1) \div FsBlockSize),
           ~TooBig(n, bytes)
    PROVE  /\ bytes <= (5 + LinksInBlock + LinksInBlock * LinksInBlock) * FsBlockSize
           /\ bytes < n * FsBlockSize
  <1> DEFINE count == (bytes + 1024 - 1) \div 1024
  <1>1. n \in Nat /\ n <= 3983616
    BY SMT, BlockCntBounds
  <1>2. count \in Nat /\ bytes <= count * 1024
    BY SMT
  <1>3. CountDataBlocks(bytes) = count
    <2>1. count \div HalfWord < HalfWord
      BY SMT DEF FitsWord, FsBlockSize
    <2> QED
      BY SMT, <1>2, <2>1, WordKeeps DEF CountDataBlocks, FsBlockSize
  <1>4. count < n
    BY SMT, <1>1, <1>2, <1>3 DEF TooBig
  <1>5. Word(count * 1024) = count * 1024
    <2>1. count * 1024 \in Nat /\ count * 1024 < 4294967296
      BY SMT, <1>1, <1>2, <1>4
    <2> QED
      BY SMT, <2>1, WordKeepsBelow
  <1>6. MaxFileSize = (5 + LinksInBlock + LinksInBlock * LinksInBlock) * FsBlockSize
    <2>1. (5 + 256 + 256 * 256) * 1024 \in Nat /\ (5 + 256 + 256 * 256) * 1024 < 4294967296
      BY SMT
    <2> QED
      BY SMT, <2>1, WordKeepsBelow DEF MaxFileSize, LinksInBlock, FsBlockSize
  <1>7. count * 1024 <= MaxFileSize
    <2>1. ~(Word(CountDataBlocks(bytes) * FsBlockSize) > MaxFileSize)
      BY SMT DEF TooBig
    <2>2. MaxFileSize \in Nat
      BY SMT, <1>6 DEF LinksInBlock, FsBlockSize
    <2> QED
      BY SMT, <1>2, <1>3, <1>5, <2>1, <2>2 DEF FsBlockSize
  <1> QED
    BY SMT, <1>1, <1>2, <1>4, <1>6, <1>7 DEF LinksInBlock, FsBlockSize

\* df's total is the size of all blocks, its product of two uint32_t is not cut
\* off, and what it prints as available is the size of the free ones.
THEOREM AvailableIsFree ==
    ASSUME NEW mb \in 1 .. FsSizeMax, NEW n, n = BlockCnt(mb),
           NEW free \in 0 .. n
    PROVE  /\ TotalSpace(n) = n * FsBlockSize
           /\ TotalSpace(n) - UsedSpace(n, free) = free * FsBlockSize
  <1>1. n \in Nat /\ n <= 3983616
    BY SMT, BlockCntBounds
  <1>2. n * 1024 \in Nat /\ n * 1024 < 4294967296
    BY SMT, <1>1
  <1>3. TotalSpace(n) = n * 1024
    BY SMT, <1>2, WordKeepsBelow DEF TotalSpace, FsBlockSize
  <1> QED
    BY SMT, <1>1, <1>3 DEF UsedSpace, FsBlockSize

-----------------------------------------------------------------------------


\* Bytes before the inodes and before the blocks, of n blocks.
BeforeInodes(n) == SuperblockSize + n + n
BeforeBlocks(n) == BeforeInodes(n) + n * InodeSize

\* How far format has come: what the file holds when a part's turn i begins.
Progress(n) ==
    /\ at = "bm_inodes" =>
         i <= n \div CacheSize /\ host.bytes = SuperblockSize + i * CacheSize
    /\ at = "bm_data" =>
         i <= n \div CacheSize /\ host.bytes = SuperblockSize + n + i * CacheSize
    /\ at = "inodes" =>
         /\ i <= n \div InodesInCache
         /\ host.bytes = BeforeInodes(n) + i * (InodesInCache * InodeSize)
    /\ at = "blocks" =>
         /\ i <= (Bytes(sb) - BeforeBlocks(n)) \div CacheSize
         /\ host.bytes = BeforeBlocks(n) + i * CacheSize
    /\ at = "root" => host.bytes = Bytes(sb)

\* The file, the handle and the cached superblock agree, while formatting and
\* afterwards.
FileKnown ==
    /\ at \in Parts =>
         /\ sb \in FsSizes /\ open /\ torn /\ host.exists /\ host.ids
         /\ Progress(BlockCnt(sb))
         /\ at # "superblock" => host.size = sb
    /\ host.exists /\ ~torn =>
         host.size \in FsSizes /\ host.bytes = Bytes(host.size) /\ host.ids /\ host.root
    /\ at # "off" /\ formatted /\ ~torn => open /\ host.exists /\ sb = host.size

\* The prompt is made for the current directory, except while cd makes it.
PromptKnown ==
    at \notin {"off", "climb"} /\ ~moved => pwd.dir = cwd

\* The pointer is two less than the room that is left, and a name is written
\* only into room that is there: what the names written do not take.
PointerKnown ==
    /\ climb = "up" => /\ start = room - 2 /\ room >= 0
                       /\ room > 2 \/ k = Len(above)
                       /\ room = Length - Lengths(above)[k]
    /\ start >= -2
    /\ CutExactly

IInv == TypeOK /\ FileKnown /\ PromptKnown /\ PointerKnown

------------------------------------------------------------------------------
(* The path                                                                *)

LEMMA LengthsAre ==
    ASSUME NEW names \in Seq(Nat \ {0})
    PROVE  /\ Lengths(names) \in [0 .. Len(names) -> Nat]
           /\ Lengths(names)[0] = 0
           /\ \A n \in 1 .. Len(names) :
                Lengths(names)[n] = Lengths(names)[n - 1] + names[n] + 1
  <1> DEFINE N == Len(names)
             Step == [n \in 1 .. N |-> [x \in Nat |-> x + names[n] + 1]]
             Is(f) == f = [n \in 0 .. N |-> IF n = 0 THEN 0 ELSE f[n - 1] + names[n] + 1]
             L == Lengths(names)
  <1>1. N \in Nat /\ \A n \in 1 .. N : names[n] \in Nat
    OBVIOUS
  <1>2. PICK g \in [0 .. N -> Nat] :
          g[0] = 0 /\ \A n \in 1 .. N : g[n] = Step[n][g[n - 1]]
    <2>1. Step \in [1 .. N -> [Nat -> Nat]]
      BY <1>1
    <2> HIDE DEF N, Step
    <2>2. Recursion(N, Nat, 0, Step) # {}
      BY <1>1, <2>1, RecursionExists
    <2> QED
      BY <2>2 DEF Recursion
  <1>3. \A n \in 1 .. N : g[n] = g[n - 1] + names[n] + 1
    <2> SUFFICES ASSUME NEW n \in 1 .. N PROVE g[n] = g[n - 1] + names[n] + 1
      OBVIOUS
    <2>1. n - 1 \in 0 .. N
      BY <1>1
    <2>2. g[n - 1] \in Nat
      BY <2>1
    <2> QED
      BY <1>2, <2>2
  <1>4. Is(g)
    BY <1>2, <1>3
  <1>5. L = CHOOSE f : Is(f)
    BY DEF Lengths
  <1>6. L = [n \in 0 .. N |-> IF n = 0 THEN 0 ELSE L[n - 1] + names[n] + 1]
    <2>1. Is(L)
      <3> HIDE DEF Is, L
      <3> QED
        BY <1>4, <1>5
    <2> QED
      BY <2>1
  <1> HIDE DEF N, L
  <1>7. L[0] = 0 /\ \A n \in 1 .. N : L[n] = L[n - 1] + names[n] + 1
    BY <1>1, <1>6
  <1>8. \A n \in 0 .. N : L[n] \in Nat
    <2> DEFINE S == {n \in Nat : L[n] \in Nat}
    <2>1. 0 \in S
      BY <1>7
    <2>2. ASSUME NEW n \in 0 .. N - 1, n \in S PROVE n + 1 \in S
      <3>1. n + 1 \in 1 .. N /\ (n + 1) - 1 = n
        BY <1>1
      <3>2. L[n + 1] = L[n] + names[n + 1] + 1
        BY <1>7, <3>1
      <3> QED
        BY <1>1, <2>2, <3>1, <3>2
    <2>3. 0 .. N \subseteq S
      <3> HIDE DEF S
      <3> QED
        BY <1>1, <2>1, <2>2, SetInduction
    <2> QED
      BY <2>3
  <1>9. L \in [0 .. N -> Nat]
    BY <1>6, <1>8
  <1> QED
    BY <1>7, <1>9 DEF L, N

LEMMA NoNames == Lengths(<<>>)[Len(<<>>)] = 0
  <1>1. <<>> \in Seq(Nat \ {0}) /\ Len(<<>>) = 0
    OBVIOUS
  <1> QED
    BY <1>1, LengthsAre

\* More names are longer, by two characters each at least.
LEMMA LengthsGrow ==
    ASSUME NEW names \in Seq(Nat \ {0}), NEW m \in 0 .. Len(names)
    PROVE  /\ Lengths(names)[m] <= Lengths(names)[Len(names)]
           /\ m < Len(names) => Lengths(names)[m] + 2 <= Lengths(names)[Len(names)]
  <1> DEFINE N == Len(names)
             L == Lengths(names)
             S == {n \in Nat : n <= m \/ L[n] >= L[m] + 2}
  <1>1. /\ N \in Nat /\ m \in 0 .. N /\ L \in [0 .. N -> Nat]
        /\ \A n \in 1 .. N : names[n] \in Nat \ {0} /\ L[n] = L[n - 1] + names[n] + 1
    BY LengthsAre
  <1> HIDE DEF N, L
  <1>2. 0 \in S
    BY <1>1
  <1>3. ASSUME NEW n \in 0 .. N - 1, n \in S PROVE n + 1 \in S
    <2>1. n + 1 \in 1 .. N /\ (n + 1) - 1 = n /\ n \in 0 .. N
      BY <1>1
    <2>2. /\ L[n + 1] = L[n] + names[n + 1] + 1 /\ names[n + 1] >= 1
          /\ names[n + 1] \in Nat /\ L[n] \in Nat /\ L[m] \in Nat
      BY <1>1, <2>1
    <2>3. n = m \/ n + 1 <= m \/ L[n] >= L[m] + 2
      BY <1>1, <1>3
    <2> QED
      BY <2>1, <2>2, <2>3
  <1>4. 0 .. N \subseteq S
    <2> HIDE DEF S
    <2> QED
      BY <1>1, <1>2, <1>3, SetInduction
  <1>5. N <= m \/ L[N] >= L[m] + 2
    BY <1>1, <1>4
  <1>6. L[N] \in Nat /\ L[m] \in Nat /\ (N <= m => m = N)
    BY <1>1
  <1>7. L[m] <= L[N] /\ (m < N => L[m] + 2 <= L[N])
    BY <1>1, <1>5, <1>6
  <1> QED
    BY <1>7 DEF L, N

\* The call of get_path_to_root(), its turns, and its end keep the pointer.
LEMMA ClimbFromKeeps ==
    ASSUME NEW d \in Directories \union {<<>>}, ClimbFrom(d)
    PROVE  PathTypeOK' /\ PointerKnown'
  <1>1. d \in Seq(Nat \ {0})
    <2>1. CASE d \in Directories
      BY <2>1, SessionAssumption
    <2>2. CASE d = <<>>
      BY <2>2
    <2> QED
      BY <2>1, <2>2
  <1>2. Len(d) \in Nat /\ (d = <<>> => Len(d) = 0)
    BY <1>1
  <1>3. Lengths(d)[0] = 0
    BY <1>1, LengthsAre
  <1> QED
    BY <1>1, <1>2, <1>3, LengthAssumption
       DEF ClimbFrom, PathTypeOK, PointerKnown, CutExactly, Texts

LEMMA PathIdleKeeps ==
    ASSUME PathIdle
    PROVE  PathTypeOK' /\ PointerKnown'
  <1>1. above' = <<>> /\ climb' = "whole" /\ start' = Length - 2
    BY DEF PathIdle
  <1>2. TextLength' = 0
    BY <1>1, NoNames DEF TextLength
  <1> QED
    BY <1>1, <1>2, LengthAssumption
       DEF PathIdle, PathTypeOK, PointerKnown, CutExactly, Texts

LEMMA ClimbKeeps ==
    ASSUME PathTypeOK, PointerKnown, Climb
    PROVE  PathTypeOK' /\ PointerKnown'
  <1>0. PICK L : L = Lengths(above)
    OBVIOUS
  <1>1. /\ above' = above /\ climb = "up" /\ Len(above) \in Nat
        /\ above \in Seq(Nat \ {0})
        /\ k \in 0 .. Len(above) /\ L \in [0 .. Len(above) -> Nat]
        /\ start = room - 2 /\ room >= 0 /\ room \in Int /\ Length \in Nat
        /\ room > 2 \/ k = Len(above)
        /\ room = Length - L[k] /\ L[k] \in Nat /\ L[Len(above)] \in Nat
    <2>1. /\ above' = above /\ climb = "up"
          /\ above \in Seq(Nat \ {0}) /\ k \in 0 .. Len(above) /\ room \in Int
      BY DEF Climb, WriteName, NameMissing, AtRoot, PathTypeOK
    <2>2. Len(above) \in Nat /\ L \in [0 .. Len(above) -> Nat]
      BY <1>0, <2>1, LengthsAre
    <2>3. L[k] \in Nat /\ L[Len(above)] \in Nat
      BY <2>1, <2>2
    <2>4. /\ start = room - 2 /\ room >= 0
          /\ room > 2 \/ k = Len(above)
          /\ room = Length - L[k]
      BY <1>0, <2>1 DEF PointerKnown
    <2> QED
      BY <2>1, <2>2, <2>3, <2>4, LengthAssumption
  <1>2. TextLength' = L[Len(above)] /\ Lengths(above') = L
    BY <1>0, <1>1 DEF TextLength
  <1>3. CASE WriteName
    <2>0. PICK length, left : length = above[k + 1] /\ left = room - (length + 1)
      OBVIOUS
    <2>1. k + 1 \in 1 .. Len(above) /\ (k + 1) - 1 = k
      BY <1>1, <1>3 DEF WriteName
    <2>2. length \in Nat /\ L[k + 1] \in Nat
      <3>1. above[k + 1] \in Nat
        BY <1>1, <2>1
      <3>2. k + 1 \in 0 .. Len(above)
        BY <1>1, <2>1
      <3>3. L[k + 1] \in Nat
        BY <1>1, <3>2
      <3> QED
        BY <2>0, <3>1, <3>3
    <2>3. L[k + 1] = L[k] + length + 1
      BY <1>0, <1>1, <2>0, <2>1, LengthsAre
    <2>4. left = Length - L[k + 1] /\ left \in Int
      <3>1. left = room - (length + 1) /\ room = Length - L[k] /\ room \in Int
            /\ L[k] \in Nat /\ length \in Nat /\ Length \in Nat
        BY <1>1, <2>0, <2>2
      <3> QED
        BY ONLY <3>1, <2>3
    <2>5. /\ L[k + 1] <= L[Len(above)]
          /\ k + 1 < Len(above) => L[k + 1] + 2 <= L[Len(above)]
      <3>1. k + 1 \in 0 .. Len(above)
        BY <1>1, <2>1
      <3> QED
        BY <1>0, <1>1, <3>1, LengthsGrow
    <2>6. Enough(left, k + 1 = Len(above)) <=> left > 2 \/ (left >= 0 /\ k + 1 = Len(above))
      BY DEF Enough
    <2>7. /\ room' = left
          /\ \/ /\ Enough(left, k + 1 = Len(above))
                /\ start' = start - length - 1 /\ k' = k + 1 /\ climb' = climb
             \/ /\ ~Enough(left, k + 1 = Len(above))
                /\ start' = start - 2 /\ climb' = "cut" /\ k' = k
      BY <1>3, <2>0 DEF WriteName
    <2>8. CASE Enough(left, k + 1 = Len(above))
      <3>1. /\ start' = left - 2 /\ k' = k + 1 /\ climb' = "up" /\ room' = left
            /\ left >= 0 /\ (left > 2 \/ k + 1 = Len(above)) /\ left \in Int
        <4>1. start = room - 2 /\ room \in Int /\ climb = "up"
          BY <1>1
        <4>2. left > 2 \/ (left >= 0 /\ k + 1 = Len(above))
          BY ONLY <2>6, <2>8
        <4>3. room' = left /\ start' = start - length - 1 /\ k' = k + 1 /\ climb' = climb
          BY ONLY <2>7, <2>8
        <4>4. start' = left - 2 /\ left >= 0
          <5>1. /\ left = room - (length + 1) /\ start' = start - length - 1
                /\ start = room - 2 /\ length \in Nat /\ room \in Int /\ left \in Int
                /\ left > 2 \/ left >= 0
            BY ONLY <2>0, <2>2, <2>4, <4>1, <4>2, <4>3
          <5> QED
            BY ONLY <5>1
        <4> QED
          BY ONLY <2>4, <4>1, <4>2, <4>3, <4>4
      <3>2. PointerKnown'
        <4>1. room' = Length - Lengths(above')[k'] /\ Len(above') = Len(above)
          BY <1>1, <1>2, <2>4, <3>1
        <4> QED
          BY <2>4, <3>1, <4>1 DEF PointerKnown, CutExactly
      <3>3. PathTypeOK'
        BY <1>1, <2>1, <3>1 DEF PathTypeOK
      <3> QED
        BY <3>2, <3>3
    <2>9. CASE ~Enough(left, k + 1 = Len(above))
      <3>1. /\ start' = start - 2 /\ climb' = "cut" /\ k' = k /\ room' = left
            /\ left \in Int /\ ~(left > 2) /\ ~(left >= 0 /\ k + 1 = Len(above))
        BY <1>1, <2>0, <2>2, <2>6, <2>7, <2>9
      <3>2. L[Len(above)] >= Length
        <4>1. /\ Len(above) \in Nat /\ L[Len(above)] \in Nat /\ Length \in Nat
              /\ k + 1 <= Len(above) /\ k \in Int
          BY <1>1, <2>1
        <4> QED
          BY ONLY <2>2, <2>4, <2>5, <3>1, <4>1
      <3>3. start >= 0 /\ start \in Int
        BY <1>1, <2>1
      <3>4. PointerKnown'
        BY <1>1, <1>2, <3>1, <3>2, <3>3 DEF PointerKnown, CutExactly
      <3>5. PathTypeOK'
        BY <1>1, <3>1, <3>3 DEF PathTypeOK, Texts
      <3> QED
        BY <3>4, <3>5
    <2> QED
      BY <2>8, <2>9
  <1>4. CASE NameMissing
    BY <1>1, <1>4 DEF NameMissing, PathTypeOK, PointerKnown, CutExactly, Texts
  <1>5. CASE AtRoot
    BY <1>1, <1>2, <1>5 DEF AtRoot, PathTypeOK, PointerKnown, CutExactly, Texts
  <1> QED
    BY <1>3, <1>4, <1>5 DEF Climb

LEMMA PathUnchanged ==
    ASSUME PathTypeOK, PointerKnown, UNCHANGED pathVars
    PROVE  PathTypeOK' /\ PointerKnown'
  <1>1. TextLength' = TextLength
    BY DEF TextLength, pathVars
  <1> QED
    BY <1>1 DEF PathTypeOK, PointerKnown, CutExactly, pathVars

------------------------------------------------------------------------------
(* Formatting                                                              *)

\* What the arithmetic of format needs to know of a size.
LEMMA SizeFacts ==
    ASSUME NEW mb \in FsSizes
    PROVE  /\ mb \in 1 .. FsSizeMax
           /\ Bytes(mb) \in Nat
           /\ BlockCnt(mb) \in Nat
           /\ BeforeBlocks(BlockCnt(mb)) <= Bytes(mb)
  <1>1. mb \in 1 .. FsSizeMax
    BY SessionAssumption
  <1>2. Bytes(mb) \in Nat
    BY SMT, <1>1 DEF Bytes, FsSizeMax
  <1>3. /\ BlockCnt(mb) \in Nat /\ BlockCnt(mb) >= 972
        /\ 10 * BlockCnt(mb) <= 9728 * mb
    BY SMT, <1>1, BlockCntBounds
  <1>4. BeforeBlocks(BlockCnt(mb)) <= Bytes(mb)
    BY SMT, <1>1, <1>3 DEF BeforeBlocks, BeforeInodes, Bytes, SuperblockSize, InodeSize
  <1> QED
    BY <1>1, <1>2, <1>3, <1>4

\* The turns of a loop that writes 'total' records: they add up.
LEMMA BatchesAddUp ==
    ASSUME NEW total \in Nat, NEW capacity \in {CacheSize, InodesInCache},
           i \in Nat, i <= total \div capacity
    PROVE  /\ BatchOf(total, capacity) \in Nat
           /\ i < total \div capacity =>
                /\ i + 1 <= total \div capacity
                /\ i * capacity + BatchOf(total, capacity) = (i + 1) * capacity
           /\ ~(i < total \div capacity) =>
                i * capacity + BatchOf(total, capacity) = total
  <1>1. CASE capacity = CacheSize
    BY SMT, <1>1 DEF BatchOf, CacheSize
  <1>2. CASE capacity = InodesInCache
    BY SMT, <1>2 DEF BatchOf, InodesInCache, CacheSize, InodeSize
  <1> QED
    BY <1>1, <1>2

HostType == [exists : BOOLEAN, size : {0} \union FsSizes, bytes : Nat,
             ids : BOOLEAN, root : BOOLEAN]

\* The first inode of a batch is written where its id says.
InPlace == host.bytes = SeekInode(BlockCnt(sb), FirstId(BlockCnt(sb), i))

\* Where the part begins that turn i writes a batch of.
Base(capacity, recordSize) == host.bytes - i * (capacity * recordSize)

\* What the host's file is when a turn ends.
LEMMA TurnWrites ==
    ASSUME host \in HostType,
           NEW total \in Nat, NEW capacity \in {CacheSize, InodesInCache},
           NEW recordSize \in {1, InodeSize}, NEW next,
           i \in Nat, i <= total \div capacity, Base(capacity, recordSize) \in Nat,
           WriteBatch(total, capacity, recordSize, next)
    PROVE  /\ host' \in HostType /\ i' \in Nat
           /\ host'.exists = host.exists /\ host'.size = host.size
           /\ host'.root = host.root
           /\ host.ids /\ (at = "inodes" => InPlace) => host'.ids
           /\ \/ /\ at' = at /\ i' <= total \div capacity
                 /\ host'.bytes = Base(capacity, recordSize) + i' * (capacity * recordSize)
              \/ /\ at' = next /\ i' = 0
                 /\ host'.bytes = Base(capacity, recordSize) + total * recordSize
  <1> DEFINE base == Base(capacity, recordSize)
  <1>0. base \in Nat /\ host.bytes = base + i * (capacity * recordSize)
    BY SMT DEF Base, HostType, CacheSize, InodesInCache, InodeSize
  <1> HIDE DEF base
  <1> DEFINE batch == BatchOf(total, capacity)
             more == i < total \div capacity
  <1>1. /\ batch \in Nat
        /\ more => /\ i + 1 <= total \div capacity
                   /\ i * capacity + batch = (i + 1) * capacity
        /\ ~more => i * capacity + batch = total
    BY BatchesAddUp
  <1>2. batch * recordSize \in Nat
    BY SMT, <1>1 DEF InodeSize
  <1>3. /\ host' = [host EXCEPT
                      !.bytes = @ + batch * recordSize,
                      !.ids = @ /\ (at = "inodes" => InPlace)]
        /\ more => i' = i + 1 /\ at' = at
        /\ ~more => i' = 0 /\ at' = next
    BY DEF WriteBatch, InPlace
  <1>4. host'.bytes = base + i * (capacity * recordSize) + batch * recordSize
    BY <1>0, <1>3 DEF HostType
  <1>5. /\ more => host'.bytes = base + (i + 1) * (capacity * recordSize)
        /\ ~more => host'.bytes = base + total * recordSize
    <2>1. capacity \in Nat
      BY SMT DEF CacheSize, InodesInCache, InodeSize
    <2> HIDE DEF batch, more
    <2>2. CASE recordSize = 1
      <3>1. /\ capacity * recordSize = capacity
            /\ batch * recordSize = batch /\ total * recordSize = total
        BY SMT, <1>1, <2>1, <2>2
      <3>2. i * capacity \in Nat /\ (i + 1) * capacity \in Nat
        BY SMT, <2>1
      <3> QED
        BY SMT, <1>0, <1>1, <1>4, <2>1, <3>1, <3>2
    <2>3. CASE recordSize = InodeSize
      <3>1. capacity = CacheSize \/ capacity = InodesInCache
        OBVIOUS
      <3> QED
        BY SMT, <1>0, <1>1, <1>4, <2>3, <3>1 DEF CacheSize, InodesInCache, InodeSize
    <2> QED
      BY <2>2, <2>3
  <1>6. /\ host' \in HostType
        /\ host'.exists = host.exists /\ host'.size = host.size
        /\ host'.root = host.root
        /\ host.ids /\ (at = "inodes" => InPlace) => host'.ids
    <2>1. PICK bytes \in Nat : bytes = host.bytes + batch * recordSize
      BY <1>2 DEF HostType
    <2>2. PICK ok \in BOOLEAN : ok = (host.ids /\ (at = "inodes" => InPlace))
      OBVIOUS
    <2>3. host' = [host EXCEPT !.bytes = bytes, !.ids = ok]
      BY <1>3, <2>1, <2>2
    <2> HIDE DEF batch
    <2>4. /\ host'.exists = host.exists /\ host'.size = host.size
          /\ host'.root = host.root
      BY <2>3 DEF HostType
    <2>5. host'.ids = ok
      BY <2>3 DEF HostType
    <2>6. host' \in HostType
      BY Zenon, <2>3 DEF HostType
    <2> QED
      BY <2>2, <2>4, <2>5, <2>6
  <1>7. i' \in Nat /\ (more => i' <= total \div capacity)
    BY <1>1, <1>3
  <1>8. CASE more
    BY <1>3, <1>5, <1>6, <1>7, <1>8 DEF base
  <1>9. CASE ~more
    BY <1>3, <1>5, <1>6, <1>7, <1>9 DEF base
  <1> QED
    BY <1>8, <1>9

\* What is in the file while it is formatted is not more than its size.
LEMMA ProgressBounded ==
    ASSUME NEW mb \in FsSizes, NEW a \in Parts \ {"superblock"},
           NEW j \in Nat, NEW bytes \in Nat, NEW n, n = BlockCnt(mb),
           a = "bm_inodes" =>
             j <= n \div CacheSize /\ bytes = SuperblockSize + j * CacheSize,
           a = "bm_data" =>
             j <= n \div CacheSize /\ bytes = SuperblockSize + n + j * CacheSize,
           a = "inodes" =>
             /\ j <= n \div InodesInCache
             /\ bytes = BeforeInodes(n) + j * (InodesInCache * InodeSize),
           a = "blocks" =>
             /\ j <= (Bytes(mb) - BeforeBlocks(n)) \div CacheSize
             /\ bytes = BeforeBlocks(n) + j * CacheSize,
           a = "root" => bytes = Bytes(mb)
    PROVE  bytes <= Bytes(mb)
  <1>1. n \in Nat /\ Bytes(mb) \in Nat /\ BeforeBlocks(n) <= Bytes(mb)
    BY SizeFacts
  <1>2. BeforeBlocks(n) = 312 + 42 * n /\ BeforeInodes(n) = 312 + 2 * n
    BY SMT, <1>1 DEF BeforeBlocks, BeforeInodes, SuperblockSize, InodeSize
  <1>3. CASE a = "bm_inodes"
    BY SMT, <1>1, <1>2, <1>3 DEF CacheSize, SuperblockSize
  <1>4. CASE a = "bm_data"
    BY SMT, <1>1, <1>2, <1>4 DEF CacheSize, SuperblockSize
  <1>5. CASE a = "inodes"
    BY SMT, <1>1, <1>2, <1>5 DEF InodesInCache, CacheSize, InodeSize
  <1>6. CASE a = "blocks"
    BY SMT, <1>1, <1>2, <1>6 DEF CacheSize
  <1>7. CASE a = "root"
    BY SMT, <1>1, <1>7
  <1> QED
    BY <1>3, <1>4, <1>5, <1>6, <1>7 DEF Parts

\* A turn of a part keeps what is known of the file, in every part.
LEMMA WritePartKeeps ==
    ASSUME TypeOK, FileKnown, WritePart
    PROVE  /\ host' \in HostType /\ i' \in Nat /\ at' \in Parts
           /\ UNCHANGED <<sb, open, formatted, torn, placeVars, script, stale, input, kills>>
           /\ FileKnown' /\ host'.size = sb /\ host'.bytes <= Bytes(sb)
  <1> DEFINE n == BlockCnt(sb)
             rest == Bytes(sb) - BeforeBlocks(n)
  <1>1. at \in {"bm_inodes", "bm_data", "inodes", "blocks"}
    BY DEF WritePart
  <1>2. /\ sb \in FsSizes /\ open /\ torn /\ host.exists /\ host.ids /\ host.size = sb
        /\ Progress(n)
    BY <1>1 DEF FileKnown, Parts
  <1>3. host \in HostType /\ i \in Nat
    BY DEF TypeOK, HostType
  <1>4. /\ n \in Nat /\ Bytes(sb) \in Nat /\ rest \in Nat
        /\ BeforeInodes(n) \in Nat /\ BeforeBlocks(n) \in Nat
        /\ SuperblockSize \in Nat /\ SuperblockSize + n \in Nat
    BY SMT, <1>2, SizeFacts DEF BeforeInodes, BeforeBlocks, SuperblockSize, InodeSize
  <1>5. UNCHANGED <<sb, open, formatted, torn, placeVars, script, stale, input, kills>>
    BY DEF WritePart, WriteBatch
  <1> DEFINE Turn(total, capacity, recordSize, base, next) ==
               /\ host' \in HostType /\ i' \in Nat
               /\ host'.exists /\ host'.size = sb /\ host'.ids
               /\ \/ /\ at' = at /\ i' <= total \div capacity
                     /\ host'.bytes = base + i' * (capacity * recordSize)
                  \/ /\ at' = next /\ i' = 0
                     /\ host'.bytes = base + total * recordSize
  <1>10. ASSUME at' \in Parts \ {"superblock"}, host' \in HostType, i' \in Nat,
                host'.exists, host'.size = sb, host'.ids, Progress(BlockCnt(sb))'
         PROVE  /\ host' \in HostType /\ i' \in Nat /\ at' \in Parts
                /\ FileKnown' /\ host'.size = sb /\ host'.bytes <= Bytes(sb)
    <2>1. FileKnown'
      BY <1>2, <1>5, <1>10 DEF FileKnown
    <2>2. host'.bytes \in Nat
      BY <1>10 DEF HostType
    <2>3. host'.bytes <= Bytes(sb)
      BY <1>2, <1>5, <1>10, <2>2, ProgressBounded DEF Progress
    <2> QED
      BY <1>10, <2>1, <2>3
  <1>6. CASE at = "bm_inodes"
    <2>1. WriteBatch(n, CacheSize, 1, "bm_data")
      BY <1>6 DEF WritePart
    <2>2. i <= n \div CacheSize /\ Base(CacheSize, 1) = SuperblockSize
      BY SMT, <1>2, <1>3, <1>4, <1>6 DEF Progress, Base, HostType, CacheSize
    <2>3. Turn(n, CacheSize, 1, SuperblockSize, "bm_data")
      BY <1>2, <1>3, <1>4, <1>6, <2>1, <2>2, TurnWrites
    <2>4. at' \in Parts \ {"superblock"} /\ Progress(BlockCnt(sb))'
      BY SMT, <1>4, <1>5, <1>6, <2>3
         DEF Parts, Progress, BeforeInodes, BeforeBlocks, CacheSize, InodesInCache, InodeSize
    <2> QED
      BY <1>5, <1>10, <2>3, <2>4
  <1>7. CASE at = "bm_data"
    <2>1. WriteBatch(n, CacheSize, 1, "inodes")
      BY <1>7 DEF WritePart
    <2>2. i <= n \div CacheSize /\ Base(CacheSize, 1) = (SuperblockSize + n)
      BY SMT, <1>2, <1>3, <1>4, <1>7 DEF Progress, Base, HostType, CacheSize
    <2>3. Turn(n, CacheSize, 1, (SuperblockSize + n), "inodes")
      BY <1>2, <1>3, <1>4, <1>7, <2>1, <2>2, TurnWrites
    <2>4. at' \in Parts \ {"superblock"} /\ Progress(BlockCnt(sb))'
      BY SMT, <1>4, <1>5, <1>7, <2>3
         DEF Parts, Progress, BeforeInodes, BeforeBlocks, CacheSize, InodesInCache, InodeSize
    <2> QED
      BY <1>5, <1>10, <2>3, <2>4
  <1>8. CASE at = "inodes"
    <2>1. WriteBatch(n, InodesInCache, InodeSize, "blocks")
      BY <1>8 DEF WritePart
    <2>2. i <= n \div InodesInCache /\ Base(InodesInCache, InodeSize) = BeforeInodes(n)
      BY SMT, <1>2, <1>3, <1>4, <1>8
         DEF Progress, Base, HostType, CacheSize, InodesInCache, InodeSize
    <2>3. Turn(n, InodesInCache, InodeSize, BeforeInodes(n), "blocks")
      <3>1. InPlace
        <4>1. SeekInode(n, FirstId(n, i)) = BeforeInodes(n) + i * InodesInCache * InodeSize
          <5>1. Word(FirstId(n, i) - 1) = i * InodesInCache
            <6>1. i * InodesInCache \in Nat /\ i * InodesInCache < 4294967296
              BY SMT, <1>2, <1>3, <1>4, <2>2, SizeFacts, BlockCntBounds
                 DEF InodesInCache, CacheSize, InodeSize
            <6>2. FirstId(n, i) - 1 = i * InodesInCache
              BY SMT, <1>3, <6>1 DEF FirstId, InodesInCache, CacheSize, InodeSize
            <6> QED
              BY SMT, <6>1, <6>2, WordKeepsBelow
          <5>2. AddrInodes(n) = BeforeInodes(n)
            BY SMT, <1>2, <1>4, SizeFacts, Addresses DEF BeforeInodes, SuperblockSize
          <5> QED
            BY <5>1, <5>2 DEF SeekInode
        <4> QED
          BY SMT, <1>3, <1>4, <2>2, <4>1
             DEF InPlace, Base, HostType, InodesInCache, CacheSize, InodeSize
      <3> QED
        BY <1>2, <1>3, <1>4, <2>1, <2>2, <3>1, TurnWrites
    <2>4. at' \in Parts \ {"superblock"} /\ Progress(BlockCnt(sb))'
      BY SMT, <1>4, <1>5, <1>8, <2>3
         DEF Parts, Progress, BeforeInodes, BeforeBlocks, CacheSize, InodesInCache, InodeSize
    <2> QED
      BY <1>5, <1>10, <2>3, <2>4
  <1>9. CASE at = "blocks"
    <2>1. WriteBatch(rest, CacheSize, 1, "root")
      <3>1. Bytes(sb) - (host.bytes - i * CacheSize) = rest
        BY SMT, <1>2, <1>3, <1>4, <1>9 DEF Progress, HostType, CacheSize
      <3> QED
        BY Zenon, <3>1, <1>9 DEF WritePart
    <2>2. i <= rest \div CacheSize /\ Base(CacheSize, 1) = BeforeBlocks(n)
      BY SMT, <1>2, <1>3, <1>4, <1>9 DEF Progress, Base, HostType, CacheSize
    <2>3. Turn(rest, CacheSize, 1, BeforeBlocks(n), "root")
      BY <1>2, <1>3, <1>4, <1>9, <2>1, <2>2, TurnWrites
    <2>4. at' \in Parts \ {"superblock"} /\ Progress(BlockCnt(sb))'
      BY SMT, <1>4, <1>5, <1>9, <2>3
         DEF Parts, Progress, BeforeInodes, BeforeBlocks, CacheSize, InodesInCache, InodeSize
    <2> QED
      BY <1>5, <1>10, <2>3, <2>4
  <1> QED
    BY <1>1, <1>5, <1>6, <1>7, <1>8, <1>9

------------------------------------------------------------------------------
(* Every step of the program                                               *)

\* What format did not make has no superblock.
LEMMA UnformattedIsEmpty ==
    ASSUME NEW h \in Unformatted
    PROVE  h \in HostType /\ h.bytes = 0 /\ h.size = 0
  <1>1. h = NoFile \/ h = [NoFile EXCEPT !.exists = TRUE]
    BY DEF Unformatted
  <1>2. NoFile \in HostType /\ NoFile.bytes = 0 /\ NoFile.size = 0
    BY DEF HostType, NoFile
  <1>3. /\ [NoFile EXCEPT !.exists = TRUE] \in HostType
        /\ [NoFile EXCEPT !.exists = TRUE].bytes = 0
        /\ [NoFile EXCEPT !.exists = TRUE].size = 0
    BY DEF HostType, NoFile
  <1> QED
    BY <1>1, <1>2, <1>3

\* The program has not run.
LEMMA IInvInitially == Init => IInv
  <1> SUFFICES ASSUME Init PROVE IInv
    OBVIOUS
  <1>1. PathTypeOK /\ PointerKnown
    BY LengthAssumption, NoNames
       DEF Init, PathInit, PathTypeOK, PointerKnown, CutExactly, TextLength, Texts
  <1>2. TypeOK
    <2>1. host \in HostType /\ host.bytes = 0
      BY UnformattedIsEmpty DEF Init
    <2>2. pwd \in [dir : Directories \union {<<>>}, text : Texts]
      BY DEF Init, AtTheRoot, Texts
    <2>3. input \in [line : {"short", "long", "none"}, scanned : BOOLEAN]
      BY DEF Init
    <2> QED
      <3>1. /\ sb \in {0} \union FsSizes /\ cwd \in Directories \union {<<>>}
            /\ at \in Parts \union {"off", "prompt", "discard", "climb", "script"}
            /\ {open, formatted, script, stale, torn, moved} \subseteq BOOLEAN
        BY DEF Init
      <3>2. i \in Nat /\ kills \in 0 .. MaxKills
        BY SessionAssumption DEF Init
      <3>3. ~(host.bytes > 0)
        BY <2>1
      <3> QED
        BY <1>1, <2>1, <2>2, <2>3, <3>1, <3>2, <3>3 DEF TypeOK, HostType
  <1>3. FileKnown
    BY DEF Init, FileKnown, Parts, NoFile
  <1>4. PromptKnown
    BY DEF Init, PromptKnown
  <1> QED
    BY <1>1, <1>2, <1>3, <1>4 DEF IInv

\* Whatever the user types, and wherever a SIGINT comes, IInv is kept.
LEMMA IInvKept ==
    ASSUME IInv, [Next]_vars PROVE IInv'
  <1>1. CASE Launch
    <2>1. PathTypeOK' /\ PointerKnown'
      BY <1>1, PathUnchanged DEF IInv, TypeOK, Launch, placeVars, NoFile, AtTheRoot, Texts
    <2>2. TypeOK'
      <3>1. host \in HostType /\ torn \in BOOLEAN
        BY DEF IInv, TypeOK, HostType
      <3>2. /\ host' \in HostType /\ torn' \in BOOLEAN
            /\ host'.bytes > 0 /\ host'.size > 0 => host'.bytes <= Bytes(host'.size)
        <4>1. CASE UNCHANGED <<host, torn>>
          BY <3>1, <4>1 DEF IInv, TypeOK
        <4>2. CASE host' \in Unformatted /\ torn' = TRUE
          BY <4>2, UnformattedIsEmpty
        <4> QED
          BY <1>1, <4>1, <4>2 DEF Launch
      <3>3. /\ sb' \in {0} \union FsSizes
            /\ {open', formatted', script', stale', torn', moved'} \subseteq BOOLEAN
        BY <1>1, <3>2 DEF Launch, HostType
      <3>4. /\ at' \in Parts \union {"off", "prompt", "discard", "climb", "script"}
            /\ i' \in Nat /\ kills' \in 0 .. MaxKills
            /\ input' \in [line : {"short", "long", "none"}, scanned : BOOLEAN]
            /\ cwd' \in Directories \union {<<>>}
            /\ pwd' \in [dir : Directories \union {<<>>}, text : Texts]
        BY <1>1 DEF IInv, TypeOK, Launch, AtTheRoot, Texts
      <3> QED
        BY <2>1, <3>2, <3>3, <3>4 DEF TypeOK, HostType
    <2>3. FileKnown'
      BY <1>1
         DEF IInv, TypeOK, FileKnown, Launch, hostVars, Parts, Progress, NoFile, AtTheRoot, Texts
    <2>4. PromptKnown'
      BY <1>1 DEF IInv, PromptKnown, Launch, placeVars, Parts, NoFile, AtTheRoot, Texts
    <2> QED
      BY <2>1, <2>2, <2>3, <2>4 DEF IInv
  <1>2. CASE FullLine
    <2>1. PathTypeOK' /\ PointerKnown'
      BY <1>2, PathUnchanged DEF IInv, TypeOK, FullLine, placeVars
    <2>2. TypeOK'
      BY <1>2, <2>1 DEF IInv, TypeOK, FullLine, hostVars, placeVars, Parts
    <2>3. FileKnown'
      BY <1>2 DEF IInv, TypeOK, FileKnown, FullLine, hostVars, Parts, Progress
    <2>4. PromptKnown'
      BY <1>2 DEF IInv, PromptKnown, FullLine, placeVars, Parts
    <2> QED
      BY <2>1, <2>2, <2>3, <2>4 DEF IInv
  <1>3. CASE LongLine
    <2>1. PathTypeOK' /\ PointerKnown'
      BY <1>3, PathUnchanged DEF IInv, TypeOK, LongLine, placeVars
    <2>2. TypeOK'
      BY <1>3, <2>1 DEF IInv, TypeOK, LongLine, hostVars, placeVars, Parts
    <2>3. FileKnown'
      BY <1>3 DEF IInv, TypeOK, FileKnown, LongLine, hostVars, Parts, Progress
    <2>4. PromptKnown'
      BY <1>3 DEF IInv, PromptKnown, LongLine, placeVars, Parts
    <2> QED
      BY <2>1, <2>2, <2>3, <2>4 DEF IInv
  <1>4. CASE ShortLineRefused
    <2>1. PathTypeOK' /\ PointerKnown'
      BY <1>4, PathUnchanged DEF IInv, TypeOK, ShortLineRefused, placeVars
    <2>2. TypeOK'
      BY <1>4, <2>1 DEF IInv, TypeOK, ShortLineRefused, hostVars, placeVars, Parts
    <2>3. FileKnown'
      BY <1>4 DEF IInv, TypeOK, FileKnown, ShortLineRefused, hostVars, Parts, Progress
    <2>4. PromptKnown'
      BY <1>4 DEF IInv, PromptKnown, ShortLineRefused, placeVars, Parts
    <2> QED
      BY <2>1, <2>2, <2>3, <2>4 DEF IInv
  <1>5. CASE NextLineDiscarded
    <2>1. PathTypeOK' /\ PointerKnown'
      BY <1>5, PathUnchanged DEF IInv, TypeOK, NextLineDiscarded, placeVars
    <2>2. TypeOK'
      BY <1>5, <2>1 DEF IInv, TypeOK, NextLineDiscarded, hostVars, placeVars, Parts
    <2>3. FileKnown'
      BY <1>5 DEF IInv, TypeOK, FileKnown, NextLineDiscarded, hostVars, Parts, Progress
    <2>4. PromptKnown'
      BY <1>5 DEF IInv, PromptKnown, NextLineDiscarded, placeVars, Parts
    <2> QED
      BY <2>1, <2>2, <2>3, <2>4 DEF IInv
  <1>6. CASE FormatRefused
    <2>1. PathTypeOK' /\ PointerKnown'
      BY <1>6, PathUnchanged DEF IInv, TypeOK, FormatRefused, placeVars, Scans, AfterRefusal
    <2>2. TypeOK'
      BY <1>6, <2>1 DEF IInv, TypeOK, FormatRefused, hostVars, placeVars, Parts, Scans, AfterRefusal
    <2>3. FileKnown'
      BY <1>6
         DEF IInv, TypeOK, FileKnown, FormatRefused, hostVars, Parts, Progress, Scans, AfterRefusal
    <2>4. PromptKnown'
      BY <1>6 DEF IInv, PromptKnown, FormatRefused, placeVars, Parts, Scans, AfterRefusal
    <2> QED
      BY <2>1, <2>2, <2>3, <2>4 DEF IInv
  <1>7. CASE FormatCannotOpen
    <2>1. PathTypeOK' /\ PointerKnown'
      BY <1>7, PathUnchanged DEF IInv, TypeOK, FormatCannotOpen, placeVars, Scans, AfterRefusal
    <2>2. TypeOK'
      BY <1>7, <2>1
         DEF IInv, TypeOK, FormatCannotOpen, hostVars, placeVars, Parts, Scans, AfterRefusal
    <2>3. FileKnown'
      BY <1>7
         DEF IInv, TypeOK, FileKnown, FormatCannotOpen, hostVars, Parts, Progress, Scans, AfterRefusal
    <2>4. PromptKnown'
      BY <1>7 DEF IInv, PromptKnown, FormatCannotOpen, placeVars, Parts, Scans, AfterRefusal
    <2> QED
      BY <2>1, <2>2, <2>3, <2>4 DEF IInv
  <1>8. CASE FormatOpens
    <2>1. PathTypeOK' /\ PointerKnown'
      BY <1>8, PathUnchanged DEF IInv, TypeOK, FormatOpens, placeVars, Scans, NoFile
    <2>2. TypeOK'
      <3>1. host' \in HostType /\ host'.bytes = 0
        BY <1>8 DEF FormatOpens, NoFile, HostType
      <3>2. input' \in [line : {"short", "long", "none"}, scanned : BOOLEAN]
        BY <1>8 DEF FormatOpens, Scans
      <3> QED
        BY <1>8, <2>1, <3>1, <3>2 DEF IInv, TypeOK, FormatOpens, HostType, placeVars, Parts
    <2>3. FileKnown'
      BY <1>8 DEF IInv, TypeOK, FileKnown, FormatOpens, hostVars, Parts, Progress, Scans, NoFile
    <2>4. PromptKnown'
      BY <1>8 DEF IInv, PromptKnown, FormatOpens, placeVars, Parts, Scans, NoFile
    <2> QED
      BY <2>1, <2>2, <2>3, <2>4 DEF IInv
  <1>9. CASE OtherCommand
    <2>1. PathTypeOK' /\ PointerKnown'
      BY <1>9, PathUnchanged DEF IInv, TypeOK, OtherCommand, placeVars, Scans
    <2>2. TypeOK'
      BY <1>9, <2>1 DEF IInv, TypeOK, OtherCommand, hostVars, placeVars, Parts, Scans
    <2>3. FileKnown'
      BY <1>9 DEF IInv, TypeOK, FileKnown, OtherCommand, hostVars, Parts, Progress, Scans
    <2>4. PromptKnown'
      BY <1>9 DEF IInv, PromptKnown, OtherCommand, placeVars, Parts, Scans
    <2> QED
      BY <2>1, <2>2, <2>3, <2>4 DEF IInv
  <1>10. CASE Exit
    <2>1. PathTypeOK' /\ PointerKnown'
      BY <1>10, PathUnchanged DEF IInv, TypeOK, Exit, placeVars, Scans
    <2>2. TypeOK'
      BY <1>10, <2>1 DEF IInv, TypeOK, Exit, hostVars, placeVars, Parts, Scans
    <2>3. FileKnown'
      BY <1>10 DEF IInv, TypeOK, FileKnown, Exit, hostVars, Parts, Progress, Scans
    <2>4. PromptKnown'
      BY <1>10 DEF IInv, PromptKnown, Exit, placeVars, Parts, Scans
    <2> QED
      BY <2>1, <2>2, <2>3, <2>4 DEF IInv
  <1>11. CASE MoveAbove
    <2>1. PathTypeOK' /\ PointerKnown'
      BY <1>11, PathUnchanged DEF IInv, TypeOK, MoveAbove, placeVars, Runs, Scans
    <2>2. TypeOK'
      <3>1. input' \in [line : {"short", "long", "none"}, scanned : BOOLEAN]
        <4>1. \/ input' = [line |-> "short", scanned |-> TRUE]
              \/ input' = input
          BY <1>11 DEF MoveAbove, Runs, Scans
        <4>2. input \in [line : {"short", "long", "none"}, scanned : BOOLEAN]
          BY DEF IInv, TypeOK
        <4>3. [line |-> "short", scanned |-> TRUE]
                 \in [line : {"short", "long", "none"}, scanned : BOOLEAN]
          OBVIOUS
        <4> QED
          BY Zenon, <4>1, <4>2, <4>3
      <3> QED
        BY <1>11, <2>1, <3>1 DEF IInv, TypeOK, MoveAbove, hostVars, pathVars
    <2>3. FileKnown'
      BY <1>11 DEF IInv, TypeOK, FileKnown, MoveAbove, hostVars, Parts, Progress, Runs, Scans
    <2>4. PromptKnown'
      BY <1>11 DEF IInv, PromptKnown, MoveAbove, placeVars, Parts, Runs, Scans
    <2> QED
      BY <2>1, <2>2, <2>3, <2>4 DEF IInv
  <1>12. CASE Load
    <2>1. PathTypeOK' /\ PointerKnown'
      BY <1>12, PathUnchanged DEF IInv, TypeOK, Load, placeVars, Scans
    <2>2. TypeOK'
      BY <1>12, <2>1 DEF IInv, TypeOK, Load, hostVars, placeVars, Parts, Scans
    <2>3. FileKnown'
      BY <1>12 DEF IInv, TypeOK, FileKnown, Load, hostVars, Parts, Progress, Scans
    <2>4. PromptKnown'
      BY <1>12 DEF IInv, PromptKnown, Load, placeVars, Parts, Scans
    <2> QED
      BY <2>1, <2>2, <2>3, <2>4 DEF IInv
  <1>13. CASE ScriptEnds
    <2>1. PathTypeOK' /\ PointerKnown'
      BY <1>13, PathUnchanged DEF IInv, TypeOK, ScriptEnds, placeVars
    <2>2. TypeOK'
      BY <1>13, <2>1 DEF IInv, TypeOK, ScriptEnds, hostVars, placeVars, Parts
    <2>3. FileKnown'
      BY <1>13 DEF IInv, TypeOK, FileKnown, ScriptEnds, hostVars, Parts, Progress
    <2>4. PromptKnown'
      BY <1>13 DEF IInv, PromptKnown, ScriptEnds, placeVars, Parts
    <2> QED
      BY <2>1, <2>2, <2>3, <2>4 DEF IInv
  <1>14. CASE Kill
    <2>1. PathTypeOK' /\ PointerKnown'
      BY <1>14, PathUnchanged DEF IInv, TypeOK, Kill, placeVars
    <2>2. TypeOK'
      BY <1>14, <2>1, SessionAssumption DEF IInv, TypeOK, Kill, hostVars, placeVars
    <2>3. FileKnown'
      BY <1>14 DEF IInv, TypeOK, FileKnown, Kill, hostVars, Parts, Progress
    <2>4. PromptKnown'
      BY <1>14 DEF IInv, PromptKnown, Kill, placeVars, Parts
    <2> QED
      BY <2>1, <2>2, <2>3, <2>4 DEF IInv
  <1>15. CASE WriteSuperblock
    <2>1. PathTypeOK' /\ PointerKnown'
      BY <1>15, PathUnchanged DEF IInv, TypeOK, WriteSuperblock, placeVars
    <2>2. TypeOK'
      <3>1. /\ host \in HostType /\ sb \in FsSizes
            /\ host' = [host EXCEPT !.size = sb, !.bytes = SuperblockSize]
        BY <1>15 DEF IInv, TypeOK, FileKnown, HostType, WriteSuperblock, Parts
      <3>2. SuperblockSize \in Nat /\ SuperblockSize <= Bytes(sb)
        BY SMT, <3>1, SizeFacts DEF SuperblockSize, BeforeBlocks, BeforeInodes, InodeSize
      <3>3. host' \in HostType /\ host'.size = sb /\ host'.bytes = SuperblockSize
        BY <3>1, <3>2 DEF HostType
      <3> QED
        BY <1>15, <2>1, <3>2, <3>3 DEF IInv, TypeOK, HostType, WriteSuperblock, placeVars, Parts
    <2>3. FileKnown'
      <3>1. /\ host \in HostType /\ sb \in FsSizes /\ open /\ torn
            /\ host.exists /\ host.ids
            /\ host' = [host EXCEPT !.size = sb, !.bytes = SuperblockSize]
        BY <1>15 DEF IInv, TypeOK, FileKnown, HostType, WriteSuperblock, Parts
      <3>2. /\ host'.size = sb /\ host'.bytes = SuperblockSize
            /\ host'.exists = host.exists /\ host'.ids = host.ids
        BY <3>1 DEF HostType
      <3>3. 0 <= BlockCnt(sb) \div CacheSize /\ SuperblockSize = SuperblockSize + 0 * CacheSize
        BY SMT, <3>1, SizeFacts DEF CacheSize, SuperblockSize
      <3> QED
        BY <1>15, <3>1, <3>2, <3>3 DEF FileKnown, Progress, WriteSuperblock, Parts
    <2>4. PromptKnown'
      BY <1>15 DEF IInv, PromptKnown, WriteSuperblock, placeVars, Parts
    <2> QED
      BY <2>1, <2>2, <2>3, <2>4 DEF IInv
  <1>16. CASE WriteRoot
    <2>1. PathTypeOK' /\ PointerKnown'
      BY <1>16, PathUnchanged DEF IInv, TypeOK, WriteRoot, placeVars, PromptOfRoot, AtTheRoot, Texts
    <2>2. TypeOK'
      BY <1>16, <2>1
         DEF IInv, TypeOK, WriteRoot, hostVars, placeVars, Parts, PromptOfRoot, AtTheRoot, Texts
    <2>3. FileKnown'
      BY <1>16
         DEF IInv, TypeOK, FileKnown, WriteRoot, hostVars, Parts, Progress, PromptOfRoot, AtTheRoot, Texts
    <2>4. PromptKnown'
      BY <1>16 DEF IInv, PromptKnown, WriteRoot, placeVars, Parts, PromptOfRoot, AtTheRoot, Texts
    <2> QED
      BY <2>1, <2>2, <2>3, <2>4 DEF IInv
  <1>17. CASE WritePart
    <2>1. PathTypeOK' /\ PointerKnown'
      BY <1>17, WritePartKeeps, PathUnchanged DEF IInv, TypeOK, placeVars
    <2>2. TypeOK'
      <3>1. /\ host' \in HostType /\ i' \in Nat /\ at' \in Parts
            /\ UNCHANGED <<sb, open, formatted, torn, placeVars, script, stale, input, kills>>
            /\ host'.size = sb /\ host'.bytes <= Bytes(sb)
        BY <1>17, WritePartKeeps DEF IInv
      <3> QED
        BY <2>1, <3>1 DEF IInv, TypeOK, HostType, placeVars
    <2>3. FileKnown'
      BY <1>17, WritePartKeeps DEF IInv
    <2>4. PromptKnown'
      BY <1>17, WritePartKeeps DEF IInv, PromptKnown, placeVars, Parts, WritePart
    <2> QED
      BY <2>1, <2>2, <2>3, <2>4 DEF IInv
  <1>18. CASE Cd
    <2>1. PathTypeOK' /\ PointerKnown'
      BY <1>18, ClimbFromKeeps DEF Cd
    <2>2. TypeOK'
      <3>1. input' \in [line : {"short", "long", "none"}, scanned : BOOLEAN]
        <4>1. \/ input' = [line |-> "short", scanned |-> TRUE]
              \/ input' = input
          BY <1>18 DEF Cd, Runs, Scans
        <4>2. input \in [line : {"short", "long", "none"}, scanned : BOOLEAN]
          BY DEF IInv, TypeOK
        <4>3. [line |-> "short", scanned |-> TRUE]
                 \in [line : {"short", "long", "none"}, scanned : BOOLEAN]
          OBVIOUS
        <4> QED
          BY Zenon, <4>1, <4>2, <4>3
      <3> QED
        BY <1>18, <2>1, <3>1 DEF IInv, TypeOK, Cd, hostVars
    <2>3. FileKnown'
      BY <1>18 DEF IInv, FileKnown, Cd, Runs, Scans, hostVars, Parts, Progress
    <2>4. PromptKnown'
      BY <1>18 DEF PromptKnown, Cd
    <2> QED
      BY <2>1, <2>2, <2>3, <2>4 DEF IInv
  <1>19. CASE CdClimbs
    <2>1. PathTypeOK' /\ PointerKnown'
      BY <1>19, ClimbKeeps DEF IInv, TypeOK, CdClimbs
    <2>2. TypeOK'
      BY <1>19, <2>1 DEF IInv, TypeOK, CdClimbs, hostVars
    <2>3. FileKnown'
      BY <1>19 DEF IInv, FileKnown, CdClimbs, hostVars, Parts, Progress
    <2>4. PromptKnown'
      BY <1>19 DEF IInv, PromptKnown, CdClimbs
    <2> QED
      BY <2>1, <2>2, <2>3, <2>4 DEF IInv
  <1>20. CASE CdPrompts
    <2>1. PathTypeOK' /\ PointerKnown'
      BY <1>20, PathIdleKeeps DEF CdPrompts
    <2>2. TypeOK'
      BY <1>20, <2>1 DEF IInv, TypeOK, PathTypeOK, CdPrompts, hostVars
    <2>3. FileKnown'
      BY <1>20 DEF IInv, FileKnown, CdPrompts, hostVars, Parts, Progress
    <2>4. PromptKnown'
      BY <1>20 DEF PromptKnown, CdPrompts
    <2> QED
      BY <2>1, <2>2, <2>3, <2>4 DEF IInv
  <1>21. CASE UNCHANGED vars
    <2>1. PathTypeOK' /\ PointerKnown'
      BY <1>21, PathUnchanged DEF IInv, TypeOK, vars, placeVars
    <2>2. TypeOK'
      BY <1>21, <2>1 DEF IInv, TypeOK, vars, hostVars, placeVars
    <2>3. FileKnown' /\ PromptKnown'
      BY <1>21 DEF IInv, FileKnown, PromptKnown, vars, hostVars, placeVars, Progress
    <2> QED
      BY <2>1, <2>2, <2>3 DEF IInv
  <1> QED
    BY <1>1, <1>2, <1>3, <1>4, <1>5, <1>6, <1>7, <1>8, <1>9, <1>10, <1>11, <1>12,
       <1>13, <1>14, <1>15, <1>16, <1>17, <1>18, <1>19, <1>20, <1>21
       DEF Next, Format

------------------------------------------------------------------------------
\* What is known of the file, the prompt and the pointer holds in every state.
THEOREM SessionSafe == Spec => []IInv
  <1>1. Init => IInv
    BY IInvInitially
  <1>2. IInv /\ [Next]_vars => IInv'
    BY IInvKept
  <1> QED
    BY <1>1, <1>2, PTL DEF Spec

\* TypeOK, for every size, set of directories and number of kills.
THEOREM SessionTypes == Spec => []TypeOK
  BY SessionSafe, PTL DEF IInv

\* After a completed format, and for every size from 1 to FS_SIZE_MAX, every
\* address the seeks of fs_io.c compute is inside its part and inside the file.
THEOREM SeeksStayInside == Spec => []SeeksInside
  <1>1. IInv => SeeksInside
    <2> SUFFICES ASSUME IInv, at = "prompt", formatted, ~torn
                 PROVE  LET n == BlockCnt(sb)
                        IN  /\ open /\ sb = host.size
                            /\ SeekBmInode(n - 1) < SeekBmData(n, 0)
                            /\ SeekBmData(n, n - 1) < SeekInode(n, 1)
                            /\ SeekInode(n, n) + InodeSize <= SeekData(n, 1)
                            /\ SeekData(n, n) + FsBlockSize <= host.bytes
      BY DEF SeeksInside
    <2> DEFINE n == BlockCnt(sb)
    <2>1. open /\ sb = host.size /\ sb \in FsSizes /\ host.bytes = Bytes(sb)
      BY DEF IInv, FileKnown
    <2>2. sb \in 1 .. FsSizeMax /\ n \in Nat /\ 972 <= n
      BY <2>1, SizeFacts, BlockCntBounds
    <2>3. 1 \in 1 .. n /\ n \in 1 .. n
      BY <2>2
    <2>4. /\ SeekBmInode(n - 1) < AddrBmData(n)
          /\ SeekBmData(n, n - 1) < AddrInodes(n)
          /\ SeekInode(n, n) + InodeSize <= AddrData(n)
          /\ SeekData(n, n) + FsBlockSize <= Bytes(sb)
      BY <2>2, <2>3, EverySeekInside
    <2>5. /\ AddrBmData(n) = SeekBmData(n, 0)
          /\ AddrInodes(n) = SeekInode(n, 1)
          /\ AddrData(n) = SeekData(n, 1)
      <3>1. AddrBmData(n) \in Nat /\ AddrInodes(n) \in Nat /\ AddrData(n) \in Nat
        BY <2>2, Addresses
      <3>2. Word(1 - 1) = 0
        BY SMT DEF Word, HalfWord
      <3> QED
        BY <3>1, <3>2 DEF SeekBmData, SeekInode, SeekData, InodeSize, FsBlockSize
    <2> QED
      BY <2>1, <2>4, <2>5
  <1> QED
    BY <1>1, SessionSafe, PTL

\* A completed format has written the whole file, its root, and every inode
\* where its id says, for every size.
THEOREM FormatWritesAll == Spec => []FormatIsWhole
  <1>1. IInv => FormatIsWhole
    BY DEF IInv, FileKnown, FormatIsWhole
  <1> QED
    BY <1>1, SessionSafe, PTL

\* The prompt names the current directory, unless a directory above was moved.
THEOREM PromptTellsCwd == Spec => []PromptIsCwd
  <1>1. IInv => PromptIsCwd
    BY DEF IInv, PromptKnown, PromptIsCwd
  <1> QED
    BY <1>1, SessionSafe, PTL

\* Whatever the names on the way up and the size of the buffer, the pointer of
\* get_path_to_root() goes at most two characters before it.
THEOREM PointerAlmostInside == Spec => []AtMostTwoBefore
  <1>1. IInv => AtMostTwoBefore
    BY DEF IInv, PointerKnown, AtMostTwoBefore
  <1> QED
    BY <1>1, SessionSafe, PTL

\* ... and the path of the prompt is cut only when it does not fit the buffer
\* with its terminator, and written whole only when its characters fit.
THEOREM PathCutWhenLong == Spec => []CutExactly
  <1>1. IInv => CutExactly
    BY DEF IInv, PointerKnown
  <1> QED
    BY <1>1, SessionSafe, PTL
=============================================================================
