------------------------------- MODULE Stream -------------------------------
(***************************************************************************)
(* Contents of files: incp, cp, outcp and cat, block by block              *)
(* (src/fsop/fs_block_op.c and src/commands), over the check for space of  *)
(* module Space.  Taking links, and giving them back, is one step when it  *)
(* is not disturbed (Links has the single writes); a kill in the middle of *)
(* it is one step as well, which leaves any part of the writes done.       *)
(* A byte is the version of a host file it came from and its position      *)
(* there, or '\0'.                                                         *)
(***************************************************************************)
EXTENDS Space, SequencesExt

CONSTANTS Files,        \* inodes for files
          BlockCount,   \* sb.block_count
          BlockSize,    \* sb.block_size
          HostSizes,    \* sizes of the host files that are copied in
          HostZeros,    \* positions where one of them may have a '\0', 0: nowhere
          MaxVersions,  \* bound on host files
          MaxKills      \* bound on SIGINTs

ASSUME StreamAssumption ==
    /\ BlockCount \in Nat \ {0} /\ BlockSize \in Nat \ {0}
    /\ HostSizes \subseteq Nat /\ HostZeros \subseteq Nat
    /\ MaxEmpty = BlockCount
    /\ 0 \notin Files
    /\ MaxVersions \in Nat /\ MaxKills \in Nat

VARIABLES free,     \* the data bitmap
          data,     \* block -> its bytes
          file,     \* inode -> its links, size, and whether it has a record
          op,       \* the command in progress
          out,      \* the host file outcp writes
          version,  \* host files so far
          kills,    \* SIGINTs so far
          stored,   \* history: content last stored in a file completely
          begun,    \* history: versions that were written to a file
          torn,     \* history: files whose copying or freeing was broken off
          half,     \* history: files that may link blocks they do not own, for a
                    \* kill came before the inode was written as freed
          mixed     \* history: one of those was written to, or copied

diskVars == <<free, data, file>>
historyVars == <<stored, begun, torn, half, mixed>>
vars == <<checkVars, diskVars, historyVars, op, out, version, kills>>

Zero == <<0, 0>>      \* '\0'
LinkByte == <<0, 1>>  \* a byte of a link block
Blocks == 1 .. BlockCount

\* links are the leaves and the link blocks in the order they were taken, each
\* leaf after the link blocks above it; leaves is the number of leaves.
NoFile == [exists |-> FALSE, named |-> FALSE, links |-> <<>>, leaves |-> 0, size |-> 0]
Nothing == [version |-> 0, size |-> 0, zero |-> 0]
Idle == [cmd |-> "none", at |-> "none", target |-> 0, source |-> 0,
         content |-> Nothing, k |-> 0, left |-> 0, clean |-> TRUE]

\* get_count_data_blocks()
CountBlocks(bytes) == (bytes + BlockSize - 1) \div BlockSize

\* The bytes of a host file, and those a fread() of its k-th block returns.
Content(c) == [p \in 1 .. c.size |-> IF p = c.zero THEN Zero ELSE <<c.version, p>>]
Read(c, k) ==
    SubSeq(Content(c), (k - 1) * BlockSize + 1, Min({k * BlockSize, c.size}))

\* A block with its first bytes replaced.
Overwritten(block, bytes) ==
    [p \in 1 .. BlockSize |-> IF p <= Len(bytes) THEN bytes[p] ELSE block[p]]

Zeros == [p \in 1 .. BlockSize |-> Zero]
LinkBlock == [p \in 1 .. BlockSize |-> LinkByte]

Put(b, bytes) == data' = [data EXCEPT ![b] = bytes]

------------------------------------------------------------------------------
(* Links                                                                   *)

\* The block that the n-th search for a free one finds.
FirstFit(n) == CHOOSE b \in free : Cardinality({c \in free : c <= b}) = n

\* Blocks that n more leaves after m take: the x-th leaf comes after the link
\* blocks above it.
TakenFor(m, n) == n - m + DeepNeeded(n) - DeepNeeded(m)
CanGrow(f, n) == n <= Capacity /\ TakenFor(file[f].leaves, n) <= Cardinality(free)

NewBlocks(m, n) == [x \in 1 .. TakenFor(m, n) |-> FirstFit(x)]
NewLeaves(m, n) == {FirstFit(TakenFor(m, x)) : x \in m + 1 .. n}

\* The x-th leaf.
Leaf(f, x) == file[f].links[TakenFor(0, x)]

\* The link blocks of f.
DeepOf(f) == Range(file[f].links) \ {Leaf(f, x) : x \in 1 .. file[f].leaves}

\* create_empty_links(): a new link block is written, a new leaf is not.  Of the
\* leaves up to 'goal' that are being made the first 'count' blocks are taken, and
\* the leaves up to n are linked.
GrowTaking(f, goal, n, count) ==
    LET m == file[f].leaves
        taken == {FirstFit(x) : x \in 1 .. count}
    IN  /\ free' = free \ taken
        /\ file' = [file EXCEPT ![f].exists = TRUE,
                                ![f].links = @ \o NewBlocks(m, n), ![f].leaves = n]
        /\ data' = [b \in Blocks |-> IF b \in taken \ NewLeaves(m, goal)
                                     THEN LinkBlock ELSE data[b]]

Grow(f, n) == GrowTaking(f, n, n, TakenFor(file[f].leaves, n))

\* The leaves an inode with m of them reaches through the link blocks it has.
Reached(m) == IF m > CountDirect + CountLinks THEN Capacity
              ELSE IF m > CountDirect THEN CountDirect + CountLinks
              ELSE m

\* Faulty: a block is given back as it is.
GivesBackAsIs(wiped, opened) == free' = free \union opened /\ UNCHANGED data

\* free_link_() of some blocks: they are cleared, then their bits turned on.
GivesBack(wiped, opened) ==
    /\ free' = free \union opened
    /\ data' = [b \in Blocks |-> IF b \in wiped THEN Zeros ELSE data[b]]

\* Faulty: the inode is not written.
ShrinkUnsaved(f, n) ==
    LET dropped == Range(SubSeq(file[f].links, TakenFor(0, n) + 1, Len(file[f].links)))
    IN  GivesBack(dropped, dropped) /\ UNCHANGED file

\* free_amount_of_links()
Shrink(f, n) ==
    LET kept == SubSeq(file[f].links, 1, TakenFor(0, n))
        dropped == Range(file[f].links) \ Range(kept)
    IN  /\ GivesBack(dropped, dropped)
        /\ file' = [file EXCEPT ![f].links = kept, ![f].leaves = n]

\* Files that link a block of f as well.
Sharing(f) ==
    {g \in Files \ {f} : Range(file[g].links) \intersect Range(file[f].links) # {}}

\* free_inode_file()
Discard(f) ==
    /\ GivesBack(Range(file[f].links), Range(file[f].links))
    /\ file' = [file EXCEPT ![f] = NoFile]
    /\ stored' = [stored EXCEPT ![f] = Nothing]
    /\ begun' = [begun EXCEPT ![f] = {}]
    /\ torn' = (torn \union Sharing(f)) \ {f}
    /\ half' = (half \union Sharing(f)) \ {f}
    /\ UNCHANGED mixed

------------------------------------------------------------------------------
TypeOK ==
    /\ CheckTypeOK
    /\ free \subseteq Blocks
    /\ data \in [Blocks -> [1 .. BlockSize -> (0 .. MaxVersions) \X Nat]]
    /\ \A f \in Files :
         /\ Range(file[f].links) \subseteq Blocks
         /\ f \notin half => Range(file[f].links) \intersect free = {}
         /\ file[f].leaves \in 0 .. Capacity
         /\ Len(file[f].links) = TakenFor(0, file[f].leaves)
         /\ file[f].exists \/ file[f] = NoFile
    /\ op.k \in 0 .. Capacity + 1
    /\ version \in 0 .. MaxVersions /\ kills \in 0 .. MaxKills
    /\ stored \in [Files -> [version : 0 .. MaxVersions, size : HostSizes \union {0},
                             zero : HostZeros \union {0}]]
    /\ begun \in [Files -> SUBSET (1 .. MaxVersions)]
    /\ half \subseteq torn /\ torn \subseteq Files /\ mixed \in BOOLEAN

\* The root directory has block 1.
Init ==
    /\ free = Blocks \ {1}
    /\ data = [b \in Blocks |-> Zeros]
    /\ file = [f \in Files |-> NoFile]
    /\ op = Idle /\ out = <<>>
    /\ version = 0 /\ kills = 0
    /\ stored = [f \in Files |-> Nothing]
    /\ begun = [f \in Files |-> {}]
    /\ torn = {} /\ half = {} /\ mixed = FALSE
    /\ asked = [blocks |-> 0, empty |-> 0]
    /\ loop = "direct" /\ i = 0 /\ j = 0
    /\ c_blocks = 0 /\ addition = 0 /\ answer = FALSE

\* Locals of a call of is_enough_space(), and of none.
CallCheck(blocks, empty) ==
    /\ asked' = [blocks |-> blocks, empty |-> empty]
    /\ loop' = "direct" /\ i' = 0 /\ j' = 0
    /\ c_blocks' = blocks /\ addition' = 0 /\ answer' = FALSE
NoCheck == CallCheck(0, 0)

\* The tests incp makes of the host file's size, and both make of the bitmap.
TooBig(blocks) == blocks >= BlockCount \/ blocks > Capacity

\* What it takes for the links of a half freed file still to be its own, or none:
\* data of another file read as links leads anywhere, and is not in this module.
Followable(f) ==
    \A b \in DeepOf(f) :
        /\ data[b] \in {LinkBlock, Zeros}
        /\ \A g \in Sharing(f) : b \notin Range(file[g].links)

\* Into a file with links a kill left it, growing may fail: Links has what becomes
\* of it.
MayStoreIn(f, size) ==
    /\ f \in torn => CanGrow(f, file[f].leaves + CountBlocks(size))
    /\ f \in half => Followable(f)

Store(c, target, source) ==
    /\ op = Idle
    /\ ~TooBig(CountBlocks(c.size))
    /\ free # {}
    /\ MayStoreIn(target, c.size)
    /\ CallCheck(CountBlocks(c.size), Cardinality(free))
    /\ op' = [Idle EXCEPT !.cmd = IF source = 0 THEN "incp" ELSE "cp", !.at = "check",
                          !.target = target, !.source = source, !.content = c]
    /\ mixed' = (mixed \/ target \in half \/ source \in half)
    /\ UNCHANGED <<diskVars, stored, begun, torn, half, out, kills>>

\* incp, to a new file or over a file.
StartIncp ==
    /\ version < MaxVersions
    /\ version' = version + 1
    /\ \E f \in Files, size \in HostSizes, zero \in HostZeros :
         /\ zero <= size
         /\ file[f].exists => file[f].named
         /\ Store([version |-> version', size |-> size, zero |-> zero], f, 0)

\* cp to a new file.  What is copied is as many blocks as the size tells.
StartCp ==
    /\ \E f, g \in Files :
         /\ file[f].named /\ f # g /\ ~file[g].exists
         /\ Store([stored[f] EXCEPT !.size = file[f].size], g, f)
    /\ UNCHANGED version

Checks ==
    /\ op.at = "check"
    /\ CheckNext
    /\ UNCHANGED <<diskVars, historyVars, op, out, version, kills>>

Refuses ==
    /\ op.at = "check" /\ loop = "done" /\ ~answer
    /\ NoCheck /\ op' = Idle
    /\ UNCHANGED <<diskVars, historyVars, out, version, kills>>

\* create_inode_file() and create_empty_links() of a new file.
Creates ==
    /\ op.at = "check" /\ loop = "done" /\ answer
    /\ ~file[op.target].exists
    /\ CanGrow(op.target, CountBlocks(op.content.size))
    /\ NoCheck
    /\ Grow(op.target, CountBlocks(op.content.size))
    /\ op' = [op EXCEPT !.at = "record", !.clean = op.source \notin torn]
    /\ begun' = [begun EXCEPT ![op.target] =
                    IF op.source = 0 THEN {op.content.version} ELSE begun[op.source]]
    /\ torn' = torn \union {op.target}
    /\ UNCHANGED <<stored, half, mixed, out, version, kills>>

\* add_to_parent()
Records ==
    /\ op.at = "record"
    /\ file' = [file EXCEPT ![op.target].named = TRUE]
    /\ op' = [op EXCEPT !.at = "copy", !.k = 1]
    /\ UNCHANGED <<checkVars, free, data, historyVars, out, version, kills>>

\* cp cannot add the record: the inode is freed.
RecordFails ==
    /\ op.at = "record" /\ op.cmd = "cp"
    /\ Discard(op.target)
    /\ op' = Idle
    /\ UNCHANGED <<checkVars, out, version, kills>>

\* incp finds no parent, or cannot add the record: the inode stays as it is, for
\* free_inode_directory() refuses a file.
ParentMissing ==
    /\ op.at = "record" /\ op.cmd = "incp"
    /\ op' = Idle
    /\ UNCHANGED <<checkVars, diskVars, historyVars, out, version, kills>>

\* The leaves left once free_amount_of_links() has freed 'count' of them.
Remaining(f, count) == IF file[f].leaves > count THEN file[f].leaves - count ELSE 0

\* incp over a file: missing links are created, links too many freed, counted
\* by its recorded size.
Resizes ==
    /\ op.at = "check" /\ loop = "done" /\ answer
    /\ file[op.target].exists
    /\ NoCheck
    /\ LET f == op.target
           wanted == CountBlocks(op.content.size)
           existing == CountBlocks(file[f].size)
           links == file[f].leaves
       IN  \/ /\ wanted > existing
              /\ CanGrow(f, links + wanted - existing)
              /\ Grow(f, links + wanted - existing)
           \/ /\ wanted < existing
              /\ Shrink(f, Remaining(f, existing - wanted))
           \/ /\ wanted = existing
              /\ UNCHANGED diskVars
    /\ op' = [op EXCEPT !.at = "over", !.k = 1, !.clean = op.target \notin torn]
    /\ stored' = [stored EXCEPT ![op.target] = Nothing]
    /\ begun' = [begun EXCEPT ![op.target] = @ \union {op.content.version}]
    /\ torn' = torn \union {op.target} \union Sharing(op.target)
    /\ half' = half \union Sharing(op.target)
    /\ UNCHANGED <<mixed, out, version, kills>>

------------------------------------------------------------------------------
(* Copying blocks                                                          *)

\* The block copied to, and the one cp reads.
To(k) == Leaf(op.target, k)
From(k) == Leaf(op.source, k)

\* incp_data_inplace(): what was read goes to the block, the rest stays.
CopiesInPlace ==
    /\ op.at = "copy" /\ op.cmd = "incp"
    /\ op.k <= CountBlocks(op.content.size)
    /\ Put(To(op.k), Overwritten(data[To(op.k)], Read(op.content, op.k)))
    /\ op' = [op EXCEPT !.k = @ + 1]
    /\ UNCHANGED <<checkVars, free, file, historyVars, out, version, kills>>

\* Faulty: the last block is not padded.
NotPadded(bytes, block) == Overwritten(block, bytes)

\* memset() of the part of a block that was not read.
Padded(bytes, block) == Overwritten(Zeros, bytes)

\* "in case last block of data has smaller amount, fill rest with zeros"
PadsLast ==
    /\ op.at = "copy" /\ op.cmd = "incp"
    /\ op.k > CountBlocks(op.content.size)
    /\ IF op.content.size % BlockSize # 0
       THEN Put(To(op.k - 1), Padded(Read(op.content, op.k - 1), data[To(op.k - 1)]))
       ELSE UNCHANGED data
    /\ op' = [op EXCEPT !.at = "size"]
    /\ UNCHANGED <<checkVars, free, file, historyVars, out, version, kills>>

\* incp_data(): a short read is padded, and ends the iteration; so does the end
\* of the links.
CopiesOver ==
    /\ op.at = "over"
    /\ IF op.k <= file[op.target].leaves
       THEN LET read == Read(op.content, op.k)
            IN  /\ Put(To(op.k), IF Len(read) < BlockSize
                                     THEN Padded(read, data[To(op.k)]) ELSE read)
                /\ op' = IF Len(read) < BlockSize THEN [op EXCEPT !.at = "size"]
                                                  ELSE [op EXCEPT !.k = @ + 1]
       ELSE op' = [op EXCEPT !.at = "size"] /\ UNCHANGED data
    /\ UNCHANGED <<checkVars, free, file, historyVars, out, version, kills>>

\* copy_data(): the next block of the source.
CopiesBlock ==
    /\ op.at = "copy" /\ op.cmd = "cp"
    /\ op.k <= CountBlocks(op.content.size)
    /\ op.k <= file[op.source].leaves
    /\ Put(To(op.k), data[From(op.k)])
    /\ op' = IF op.k = CountBlocks(op.content.size)
             THEN [op EXCEPT !.at = "size"] ELSE [op EXCEPT !.k = @ + 1]
    /\ UNCHANGED <<checkVars, free, file, historyVars, out, version, kills>>

\* iterate_links() comes to the end of the source before all is copied (how many
\* links a half freed file has left is not known), or there was nothing to copy.
CopyEndsEarly ==
    \/ CountBlocks(op.content.size) = 0
    \/ op.k > file[op.source].leaves
    \/ op.source \in half

\* ... and the new file is freed.
CopyFails ==
    /\ op.at = "copy" /\ op.cmd = "cp"
    /\ CopyEndsEarly
    /\ Discard(op.target)
    /\ op' = Idle
    /\ UNCHANGED <<checkVars, out, version, kills>>

\* update_size()
SetsSize ==
    /\ op.at = "size"
    /\ file' = [file EXCEPT ![op.target].size = op.content.size]
    /\ op' = Idle
    /\ IF op.clean
       THEN /\ stored' = [stored EXCEPT ![op.target] = op.content]
            /\ torn' = torn \ {op.target}
       ELSE UNCHANGED <<stored, torn>>
    /\ UNCHANGED <<checkVars, free, data, begun, half, mixed, out, version, kills>>

------------------------------------------------------------------------------
(* Reading, removing, and what goes wrong                                  *)

StartOutcp ==
    /\ op = Idle
    /\ \E f \in Files :
         /\ file[f].named
         /\ op' = [Idle EXCEPT !.cmd = "outcp", !.at = "out", !.source = f,
                               !.k = 1, !.left = file[f].size]
    /\ UNCHANGED <<checkVars, diskVars, historyVars, out, version, kills>>

\* to_write
ToWrite(left) == IF left > BlockSize THEN BlockSize ELSE left

\* outcp_data() has written data_count bytes, or there are no more links.
AllOut == op.left = 0 \/ op.k > file[op.source].leaves

\* outcp_data()
WritesOut ==
    /\ op.at = "out" /\ ~AllOut
    /\ out' = out \o SubSeq(data[From(op.k)], 1, ToWrite(op.left))
    /\ op' = [op EXCEPT !.k = @ + 1,
                        !.left = IF @ > BlockSize THEN @ - BlockSize ELSE 0]
    /\ UNCHANGED <<checkVars, diskVars, historyVars, version, kills>>

OutcpDone ==
    /\ op.at = "out" /\ AllOut
    /\ op' = Idle /\ out' = <<>>
    /\ UNCHANGED <<checkVars, diskVars, historyVars, version, kills>>

\* What cat_data() prints of a block, and of a file: all its links.
Printed(block) ==
    LET ends == {p \in 1 .. BlockSize : block[p] = Zero}
    IN  SubSeq(block, 1, IF ends = {} THEN BlockSize ELSE Min(ends) - 1)
Cat(f) == FlattenSeq([x \in 1 .. file[f].leaves |-> Printed(data[Leaf(f, x)])])

\* rm
Removes ==
    /\ op = Idle
    /\ \E f \in Files :
         /\ file[f].named
         /\ f \in half => Followable(f)
         /\ Discard(f)
    /\ UNCHANGED <<checkVars, op, out, version, kills>>

\* fsck gives a file without a record one, a half freed file too.
FsckRescues ==
    /\ op = Idle
    /\ \E f \in Files :
         /\ file[f].exists /\ ~file[f].named
         /\ file' = [file EXCEPT ![f].named = TRUE]
    /\ UNCHANGED <<checkVars, free, data, historyVars, op, out, version, kills>>

------------------------------------------------------------------------------
(* Kills                                                                    *)

Killed ==
    /\ kills < MaxKills
    /\ kills' = kills + 1
    /\ op' = Idle /\ out' = <<>>
    /\ NoCheck

\* SIGINT between two writes.
Kill ==
    /\ op # Idle
    /\ Killed
    /\ UNCHANGED <<diskVars, historyVars, version>>

\* SIGINT while links are created: the inode is written last, so a leaf is only
\* linked when a link block the file had was written; the rest of the blocks taken
\* by then nothing links.
KilledGrowing ==
    /\ op.at = "check" /\ loop = "done" /\ answer
    /\ LET f == op.target
           m == file[f].leaves
           goal == m + CountBlocks(op.content.size) - CountBlocks(file[f].size)
       IN  /\ goal > m /\ CanGrow(f, goal)
           /\ \E n \in m .. Min({goal, Reached(m)}) :
              \E count \in TakenFor(m, n) .. TakenFor(m, goal) :
                 GrowTaking(f, goal, n, count)
    /\ torn' = torn \union {op.target}
    /\ Killed
    /\ UNCHANGED <<stored, begun, half, mixed, version>>

\* SIGINT after f's blocks in 'wiped' were cleared, and before the inode is written:
\* it still leads to them, free as they are.  One may not be free yet.
KilledFreeing(f, wiped) ==
    /\ \E opened \in {wiped} \union {wiped \ {b} : b \in wiped} : GivesBack(wiped, opened)
    /\ torn' = torn \union {f} \union Sharing(f)
    /\ half' = half \union {f} \union Sharing(f)
    /\ Killed
    /\ UNCHANGED <<stored, begun, mixed, version>>

\* free_all_links() comes to the leaves in order, and to a link block after what is
\* below it.
KilledDiscarding(f) ==
    \E n \in 1 .. file[f].leaves :
    \E deep \in SUBSET (DeepOf(f) \intersect Range(SubSeq(file[f].links, 1, TakenFor(0, n)))) :
        KilledFreeing(f, {Leaf(f, x) : x \in 1 .. n} \union deep)

\* rm has deleted the record before.
KilledRemoving ==
    /\ op = Idle
    /\ \E f \in Files :
         /\ file[f].named
         /\ f \in half => Followable(f)
         /\ file' = [file EXCEPT ![f].named = FALSE]
         /\ \/ KilledDiscarding(f)
            \/ Killed /\ UNCHANGED <<free, data, historyVars, version>>

\* cp takes the file back that it was making.
KilledGivingUp ==
    /\ op.cmd = "cp"
    /\ op.at = "record" \/ (op.at = "copy" /\ CopyEndsEarly)
    /\ KilledDiscarding(op.target)
    /\ UNCHANGED file

\* incp over a longer file: the blocks are freed in the reverse of the order they
\* were taken in.
KilledShortening ==
    /\ op.at = "check" /\ loop = "done" /\ answer
    /\ LET f == op.target
           shorter == CountBlocks(file[f].size) - CountBlocks(op.content.size)
       IN  /\ shorter > 0
           /\ \E x \in TakenFor(0, Remaining(f, shorter)) + 1 .. Len(file[f].links) :
                 KilledFreeing(f, Range(SubSeq(file[f].links, x, Len(file[f].links))))
    /\ UNCHANGED file

Next ==
    \/ StartIncp \/ StartCp \/ Checks \/ Refuses \/ Creates \/ Records
    \/ RecordFails \/ ParentMissing \/ Resizes \/ CopiesInPlace \/ PadsLast
    \/ CopiesOver \/ CopiesBlock \/ CopyFails \/ SetsSize
    \/ StartOutcp \/ WritesOut \/ OutcpDone \/ Removes \/ FsckRescues
    \/ Kill \/ KilledGrowing \/ KilledRemoving \/ KilledGivingUp \/ KilledShortening

Spec == Init /\ [][Next]_vars

------------------------------------------------------------------------------
\* What was copied in, once or over other contents, or copied inside, comes out
\* of outcp byte by byte, unless its copying or its removal was broken off, or it
\* got blocks of a file half freed by a kill and that file was used again.  A kill
\* in the middle of freeing, however many blocks are free by then and whoever
\* takes them, harms no other file by itself.
RoundTrip ==
    op.at = "out" /\ AllOut /\ op.source \notin torn =>
        out = Content(stored[op.source])

\* cat, which prints every block up to its first zero byte and does not look at
\* the size, prints the same of a file in which no byte is zero: "so there are no
\* leftover data".
CatAgrees ==
    \A f \in Files : file[f].named /\ f \notin torn /\ stored[f].zero = 0 =>
        Cat(f) = Content(stored[f])

\* Whatever was broken off and tried again, neither outcp nor cat, which goes through
\* all links whatever the size, gives out bytes of a file that had the blocks before,
\* or of link blocks; but for files half freed, and as long as none of those was
\* written to or copied.
NothingForeign ==
    ~mixed => \A f \in Files \ half :
        /\ op.at = "out" /\ op.source = f =>
             \A p \in DOMAIN out : out[p] = Zero \/ out[p][1] \in begun[f]
        /\ file[f].named =>
             \A x \in 1 .. file[f].leaves :
             \A byte \in Range(Printed(data[Leaf(f, x)])) : byte[1] \in begun[f]
=============================================================================
