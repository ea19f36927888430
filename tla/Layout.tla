------------------------------- MODULE Layout -------------------------------
(***************************************************************************)
(* Where format (src/commands/format.c) puts the parts of a filesystem in  *)
(* its file, and where the seeks of src/fsop/fs_io.c look for them.  Sizes *)
(* are the bytes of the build; addresses are uint32_t.                     *)
(***************************************************************************)
EXTENDS Integers

FsSizeMax == 4095         \* FS_SIZE_MAX, in MB
FsBlockSize == 1024       \* FS_BLOCK_SIZE
Percentage == 95          \* PERCENTAGE, of 100
CacheSize == 131072       \* CACHE_SIZE
SuperblockSize == 312     \* sizeof(struct superblock)
InodeSize == 40           \* sizeof(struct inode)
LinksInBlock == 256       \* sb.count_links

\* 2^16, and the value of a uint32_t that was assigned x.  (2^32 itself is out
\* of the range of TLC's integers.)
HalfWord == 65536
Word(x) == ((x \div HalfWord) % HalfWord) * HalfWord + (x % HalfWord)
FitsWord(x) == 0 <= x /\ x \div HalfWord < HalfWord

\* block_cnt: mb2b(fs_size) * PERCENTAGE / FS_BLOCK_SIZE, truncated.
BlockCnt(mb) == (mb * 1024 * Percentage) \div 100

Bytes(mb) == mb * 1024 * 1024

\* The superblock's addresses, for n blocks.
AddrBmInodes == SuperblockSize
AddrBmData(n) == Word(AddrBmInodes + n)
AddrInodes(n) == Word(AddrBmData(n) + n)
AddrData(n) == Word(AddrInodes(n) + n * InodeSize)

MaxFileSize == Word((5 + LinksInBlock + LinksInBlock * LinksInBlock) * FsBlockSize)

\* The offsets fseek() is given, for a field's index and for an id.
SeekBmInode(index) == AddrBmInodes + index
SeekBmData(n, index) == AddrBmData(n) + index
SeekInode(n, id) == AddrInodes(n) + Word(id - 1) * InodeSize
SeekData(n, id) == AddrData(n) + Word(id - 1) * FsBlockSize

\* init_inodes(): how many inodes are written at once.
InodesInCache == CacheSize \div InodeSize

\* Faulty: the ids go on from the size of the batch at hand.
FirstIdByBatch(n, i) ==
    IF i < n \div InodesInCache THEN 1 + i * InodesInCache
                                ELSE 1 + i * (n % InodesInCache)

\* The id of the first inode of the i-th batch.
FirstId(n, i) == 1 + i * InodesInCache

\* get_count_data_blocks(), and what incp compares it with: the product is a
\* uint32_t, so the order of the two tests matters.
CountDataBlocks(bytes) == Word((bytes + FsBlockSize - 1) \div FsBlockSize)
TooBig(n, bytes) ==
    \/ CountDataBlocks(bytes) >= n
    \/ Word(CountDataBlocks(bytes) * FsBlockSize) > MaxFileSize

\* What df computes of n blocks, of which some are free: the total is a product
\* of uint32_t, what is used one of size_t.
TotalSpace(n) == Word(n * FsBlockSize)
UsedSpace(n, free) == (n - free) * FsBlockSize
=============================================================================
