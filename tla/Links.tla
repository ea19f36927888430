-------------------------------- MODULE Links --------------------------------
(***************************************************************************)
(* The link tree of an inode and the data bitmap: src/fsop/fs_links_op.c,  *)
(* the allocation half of fs_bitmap.c, fs_inode_op.c, and the order in     *)
(* which cp, incp, mkdir, mv, rm and rmdir call them.  The process may be  *)
(* killed (SIGINT) between any two writes to the filesystem file.          *)
(* Which directory a record is written to is left open here, but it is one *)
(* in use: records that lead to free inodes are a matter of Namespace.     *)
(*                                                                         *)
(* The places a block number can be written in, from an inode, are the     *)
(* slots 0 .. SlotCount-1, numbered in the order create_empty_links()      *)
(* fills them: the direct links, the single indirect link followed by the  *)
(* links of its block, the double indirect link followed, for each link of *)
(* its block, by that link and the links of its block.  A slot above other *)
(* slots is deep (its block holds links), the others are leaves (data).    *)
(***************************************************************************)
EXTENDS SpaceOps

CONSTANTS BlockCount,   \* sb.block_count, data blocks
          InodeCount,   \* inodes (a bound: the format makes as many as blocks)
          MaxCrashes,   \* bound on the number of kills
          StackWords    \* blocks a word read past 'inode_tmp' may happen to name

ASSUME LinksAssumption ==
    /\ BlockCount \in Nat \ {0}
    /\ InodeCount \in Nat \ {0}
    /\ MaxCrashes \in Nat
    /\ StackWords \subseteq 1 .. BlockCount

Blocks == 1 .. BlockCount
Inodes == 1 .. InodeCount
FreeLink == 0
RootId == 1
Links == Blocks \union {FreeLink}
ItemTypes == {"free", "file", "dirc"}

------------------------------------------------------------------------------
(* The shape of an inode.                                                   *)

Direct == 0 .. CountDirect - 1
Single == CountDirect
Double == Single + CountLinks + 1
Sub(k) == Double + 1 + k * (CountLinks + 1)
Subs == {Sub(k) : k \in 0 .. CountLinks - 1}
SlotCount == Sub(CountLinks)
Slots == 0 .. SlotCount - 1
Deep == {Single, Double} \union Subs
Leaves == Slots \ Deep

\* Last slot under a deep slot; the slots below d are d+1 .. LastBelow(d).
LastBelow(d) == IF d = Double THEN SlotCount - 1 ELSE d + CountLinks
Below(d) == d + 1 .. LastBelow(d)

NoLinks == [s \in Slots |-> FreeLink]
UsedSlots(t) == {s \in Slots : t[s] # FreeLink}
UsedLeaves(t) == UsedSlots(t) \ Deep

\* The slot the nested loops of create_empty_links() reach next.
IsNextSlot(t, s) ==
    /\ t[s] = FreeLink
    /\ \A u \in Slots : u < s => t[u] # FreeLink

------------------------------------------------------------------------------
VARIABLES
    bm,       \* data bitmap: TRUE is a free block
    ibm,      \* inode bitmap: TRUE is a free inode
    disk,     \* links of each inode as reachable in the filesystem file
    itype,    \* inode_type of each inode in the file
    size,     \* file_size of each inode in the file, in blocks
    tmp,      \* links of the inode being worked on, as the process sees them
    op,       \* the command in progress
    crashes,  \* kills so far
    torn,     \* history: some kill hit a removal or a shortening
    rolled    \* history: some create_empty_links() failed part way

vars == <<bm, ibm, disk, itype, size, tmp, op, crashes, torn, rolled>>

Commands == {"none", "cp", "incp", "over", "mkdir", "mv", "rm"}
Places == {"idle", "newfile", "newdir", "dirblock", "create", "attach", "shrink",
           "size", "free", "clear"}

\* at: where the process is; ino: the inode it works on; child: the inode
\* the command is creating; todo and done: links asked for and handled;
\* want: the size, in blocks, the command writes at its end.
Ops == [at : Places, cmd : Commands, ino : Inodes \union {0},
        child : Inodes \union {0}, todo : Nat, done : Nat, want : Nat]

Begin(at, cmd, ino, child, todo, want) ==
    [at |-> at, cmd |-> cmd, ino |-> ino, child |-> child,
     todo |-> todo, done |-> 0, want |-> want]

Idle == Begin("idle", "none", 0, 0, 0, 0)

TypeOK ==
    /\ bm \in [Blocks -> BOOLEAN]
    /\ ibm \in [Inodes -> BOOLEAN]
    /\ disk \in [Inodes -> [Slots -> Links]]
    /\ itype \in [Inodes -> ItemTypes]
    /\ size \in [Inodes -> Nat]
    /\ tmp \in [Slots -> Links]
    /\ op \in Ops
    /\ crashes \in Nat
    /\ torn \in BOOLEAN
    /\ rolled \in BOOLEAN

\* A formatted filesystem: the root directory holds the first inode and block.
Init ==
    /\ bm = [b \in Blocks |-> b # 1]
    /\ ibm = [i \in Inodes |-> i # RootId]
    /\ disk = [i \in Inodes |->
                 IF i = RootId THEN [NoLinks EXCEPT ![0] = 1] ELSE NoLinks]
    /\ itype = [i \in Inodes |-> IF i = RootId THEN "dirc" ELSE "free"]
    /\ size = [i \in Inodes |-> IF i = RootId THEN 1 ELSE 0]
    /\ tmp = NoLinks
    /\ op = Idle
    /\ crashes = 0
    /\ torn = FALSE
    /\ rolled = FALSE

history == <<crashes, torn, rolled>>

\* Faulty: the search stops at the first field after the used ones, free or not.
FirstFreeOrNot(map, x) == \A y \in DOMAIN map : y < x => ~map[y]

\* get_empty_bitmap_field(): the first free field.
FirstFree(map, x) == map[x] /\ \A y \in DOMAIN map : y < x => ~map[y]

EmptyAmount == Cardinality({b \in Blocks : bm[b]})

\* Faulty: the check leaves the link blocks out.
FitsData(n) == EmptyAmount # 0 /\ n <= EmptyAmount

\* The check cp and incp make before they create anything.
Fits(n) == EmptyAmount # 0 /\ IsEnoughSpace(n, EmptyAmount)

------------------------------------------------------------------------------
(* Commands that create a file.                                             *)

\* cp of a file of n blocks, or incp of n blocks under a new name: the checks,
\* then allocate_bitmap_field_inode() takes an inode.  (With no inode left the
\* commands go on with inode number 0; that case is not in this module.)
StartFile(cmd, n) ==
    /\ op.at = "idle"
    /\ Fits(n)
    /\ \E i \in Inodes :
         /\ FirstFree(ibm, i)
         /\ ibm' = [ibm EXCEPT ![i] = FALSE]
         /\ op' = Begin("newfile", cmd, i, i, n, n)
    /\ UNCHANGED <<bm, disk, itype, size, tmp, history>>

StartCopy == \E src \in Inodes : itype[src] = "file" /\ StartFile("cp", size[src])

StartIncp == \E n \in 0 .. Capacity : n < BlockCount /\ StartFile("incp", n)

\* create_inode_file() reads the free inode, changes its type and writes it.
WriteNewFile ==
    /\ op.at = "newfile"
    /\ itype' = [itype EXCEPT ![op.ino] = "file"]
    /\ tmp' = disk[op.ino]
    /\ op' = [op EXCEPT !.at = "create"]
    /\ UNCHANGED <<bm, ibm, disk, size, history>>

\* Faulty: the two differences are taken the wrong way round.
OverwriteSwapped ==
    /\ op.at = "idle"
    /\ \E i \in Inodes, n \in 0 .. Capacity :
         /\ itype[i] = "file"
         /\ n < BlockCount
         /\ Fits(n)
         /\ op' = Begin("create", "over", i, 0, size[i] - n, n)
         /\ tmp' = disk[i]
    /\ UNCHANGED <<bm, ibm, disk, itype, size, history>>

\* incp over an existing file: create what is missing or free what is too
\* much, judged by the recorded size.
StartOverwrite ==
    /\ op.at = "idle"
    /\ \E i \in Inodes, n \in 0 .. Capacity :
         /\ itype[i] = "file"
         /\ n < BlockCount
         /\ Fits(n)
         /\ \/ /\ n > size[i] /\ tmp' = disk[i]
               /\ op' = Begin("create", "over", i, 0, n - size[i], n)
            \/ /\ n < size[i] /\ tmp' = disk[i]
               /\ op' = Begin("shrink", "over", i, 0, size[i] - n, n)
            \/ /\ n = size[i] /\ UNCHANGED tmp
               /\ op' = Begin("size", "over", i, 0, 0, n)
    /\ UNCHANGED <<bm, ibm, disk, itype, size, history>>

------------------------------------------------------------------------------
(* Commands that create a directory or move a record.                       *)

\* create_inode_directory() takes an inode and a block, or gives back the one
\* it got.  mkdir tests for RETURN_FAILURE, not for the 0 that means neither,
\* and goes on to add a record of inode 0 to the parent.
StartMkdir ==
    /\ op.at = "idle"
    /\ \/ \E i \in Inodes :
            /\ FirstFree(ibm, i)
            /\ ibm' = [ibm EXCEPT ![i] = FALSE]
            /\ op' = Begin("newdir", "mkdir", i, 0, 0, 0)
       \/ /\ \A i \in Inodes : ~ibm[i]
          /\ op' = Begin("newdir", "mkdir", 0, 0, 0, 0)
          /\ UNCHANGED ibm
    /\ UNCHANGED <<bm, disk, itype, size, tmp, history>>

TakeDirBlock ==
    /\ op.at = "newdir"
    /\ \/ \E b \in Blocks :
            /\ FirstFree(bm, b)
            /\ bm' = [bm EXCEPT ![b] = FALSE]
            /\ tmp' = [tmp EXCEPT ![0] = b]
       \/ (\A b \in Blocks : ~bm[b]) /\ UNCHANGED <<bm, tmp>>
    /\ op' = [op EXCEPT !.at = "dirblock"]
    /\ UNCHANGED <<ibm, disk, itype, size, history>>

WriteNewDir ==
    /\ op.at = "dirblock"
    /\ op.ino # 0 /\ tmp[0] # FreeLink
    /\ disk' = [disk EXCEPT ![op.ino][0] = tmp[0]]
    /\ itype' = [itype EXCEPT ![op.ino] = "dirc"]
    /\ size' = [size EXCEPT ![op.ino] = 1]
    /\ tmp' = NoLinks
    /\ op' = [op EXCEPT !.at = "attach", !.child = op.ino]
    /\ UNCHANGED <<bm, ibm, history>>

GiveBackDir ==
    /\ op.at = "dirblock"
    /\ op.ino = 0 \/ tmp[0] = FreeLink
    /\ ibm' = [i \in Inodes |-> ibm[i] \/ i = op.ino]
    /\ bm' = [b \in Blocks |-> bm[b] \/ b = tmp[0]]
    /\ tmp' = NoLinks
    /\ op' = [op EXCEPT !.at = "attach", !.ino = 0]
    /\ UNCHANGED <<disk, itype, size, history>>

\* mv adds a record to the destination directory before it deletes the old one.
StartMove ==
    /\ op.at = "idle"
    /\ op' = Begin("attach", "mv", 0, 0, 0, 0)
    /\ UNCHANGED <<bm, ibm, disk, itype, size, tmp, history>>

\* Where the command goes once add_to_parent() has returned.  'd' are the
\* links in the file at that moment.
Leave == op' = Idle /\ tmp' = NoLinks

FreeChild(d) ==
    /\ op' = [op EXCEPT !.at = "free", !.ino = op.child]
    /\ tmp' = d[op.child]

\* The file cp copies: one of the size it asked for.
CopySource(i) == itype[i] = "file" /\ size[i] = op.want
HasLeaves(i) == Cardinality(UsedLeaves(disk[i])) >= op.want

Attached(d) ==
    \/ op.cmd \in {"mkdir", "mv"} /\ Leave
    \/ /\ \/ op.cmd = "incp"
          \/ op.cmd = "cp" /\ op.want > 0 /\ \E i \in Inodes : CopySource(i) /\ HasLeaves(i)
       /\ op' = [op EXCEPT !.at = "size", !.ino = op.child]
       /\ tmp' = NoLinks
    \* copy_data() of no block, or of a file with fewer leaves than its size
    \* tells, reports failure: cp takes the new file back
    \/ /\ op.cmd = "cp"
       /\ op.want = 0 \/ \E i \in Inodes : CopySource(i) /\ ~HasLeaves(i)
       /\ FreeChild(d)

NotAttached(d) ==
    \/ op.cmd \in {"mkdir", "cp"} /\ op.child # 0 /\ FreeChild(d)
    \* incp calls free_inode_directory() on its file inode, which refuses; mv,
    \* and mkdir without an inode, have nothing to free
    \/ (op.cmd \in {"incp", "mv"} \/ op.child = 0) /\ Leave

\* add_to_parent() finds an empty record in a block the parent has.
AttachInPlace ==
    /\ op.at = "attach"
    /\ Attached(disk)
    /\ UNCHANGED <<bm, ibm, disk, itype, size, history>>

\* add_to_parent() finds the blocks of parent p full and asks for one more.
\* mkdir and incp do not check that p is a directory.
AttachGrow(p) ==
    /\ op.at = "attach"
    /\ p # op.child
    /\ itype[p] = "dirc" \/ (itype[p] = "file" /\ op.cmd \in {"mkdir", "incp"})
    /\ op' = [op EXCEPT !.at = "create", !.ino = p, !.todo = 1, !.done = 0]
    /\ tmp' = disk[p]
    /\ UNCHANGED <<bm, ibm, disk, itype, size, history>>

\* incp looks the parent up after the file is made, and may not find it.
AttachNoParent ==
    /\ op.at = "attach"
    /\ op.cmd = "incp"
    /\ Leave
    /\ UNCHANGED <<bm, ibm, disk, itype, size, history>>

------------------------------------------------------------------------------
(* Writing link blocks back.                                                *)

\* A link block the inode in the file already reaches and whose links in
\* memory differ from those in the file.
Dirty(d) ==
    /\ tmp[d] # FreeLink
    /\ disk[op.ino][d] = tmp[d]
    /\ \E s \in Below(d) : tmp[s] # disk[op.ino][s]

\* The loops are past block d, or have stopped.
Passed(d) ==
    \/ op.done >= op.todo
    \/ op.at = "create" /\ \A u \in 0 .. LastBelow(d) : tmp[u] # FreeLink
    \/ op.at = "shrink" /\ UsedLeaves(tmp) = {}

FlushDue == {d \in Deep : Dirty(d) /\ Passed(d)}

\* Faulty: shortening starts at the front.
FirstUsed(s) == s \in UsedSlots(tmp) /\ \A u \in UsedSlots(tmp) : s <= u

LastUsed(s) == s \in UsedSlots(tmp) /\ \A u \in UsedSlots(tmp) : u <= s

\* Faulty: one leaf too many.
CanFreeOneMore(s) ==
    /\ op.at = "shrink"
    /\ LastUsed(s)
    /\ s \in Deep \/ op.done <= op.todo

\* Shortening still has a leaf to free, or a link block it just emptied.
CanFree(s) ==
    /\ op.at = "shrink"
    /\ LastUsed(s)
    /\ s \in Deep \/ op.done < op.todo

\* fs_write_link(): the inner block first, then the one that points to it.
FlushLinks ==
    /\ op.at \in {"create", "shrink"}
    /\ \A s \in Slots : ~CanFree(s)
    /\ \E d \in FlushDue :
         /\ \A e \in FlushDue : e <= d
         /\ disk' = [disk EXCEPT ![op.ino] =
                       [s \in Slots |-> IF s \in Below(d) THEN tmp[s]
                                        ELSE disk[op.ino][s]]]
    /\ UNCHANGED <<bm, ibm, itype, size, tmp, op, history>>

------------------------------------------------------------------------------
(* create_empty_links(): create_direct_links(), create_indirect_links_1()   *)
(* and create_indirect_links_2() with the functions they call.              *)

\* One block for the next slot.  Only leaves count as created.
AllocLink ==
    /\ op.at = "create"
    /\ op.done < op.todo
    /\ FlushDue = {}
    /\ \E s \in Slots, b \in Blocks :
         /\ IsNextSlot(tmp, s)
         /\ FirstFree(bm, b)
         /\ bm' = [bm EXCEPT ![b] = FALSE]
         /\ tmp' = [tmp EXCEPT ![s] = b]
         /\ op' = [op EXCEPT !.done = IF s \in Deep THEN @ ELSE @ + 1]
    /\ UNCHANGED <<ibm, disk, itype, size, history>>

\* The inode is written; a directory grows by what was created.
CreateDone ==
    /\ op.at = "create"
    /\ op.done = op.todo
    /\ FlushDue = {}
    /\ disk' = [disk EXCEPT ![op.ino] = tmp]
    /\ size' = [size EXCEPT ![op.ino] =
                  IF itype[op.ino] = "dirc" THEN @ + op.todo ELSE @]
    /\ \/ op.ino = op.child /\ op' = [op EXCEPT !.at = "attach"] /\ tmp' = NoLinks
       \/ op.cmd = "over" /\ op' = [op EXCEPT !.at = "size"] /\ tmp' = NoLinks
       \/ op.ino # op.child /\ op.cmd # "over" /\ Attached(disk')
    /\ UNCHANGED <<bm, ibm, itype, history>>

\* Faulty: the link block is kept when its first leaf cannot be had.
PendingKept == {}

\* Link blocks taken for a leaf that could not be had are given back.
Pending ==
    {d \in Deep : /\ tmp[d] # FreeLink
                  /\ disk[op.ino][d] = FreeLink
                  /\ \A s \in Below(d) \ Deep : tmp[s] = FreeLink}

\* Faulty: every link is freed, whether this call created it or not.
AnyTop(s) == tmp[s] # FreeLink

\* reset_created_links() on the links of the inode itself: those that differ
\* from the source are freed.  For the direct links it is handed their count
\* again at every position, so from position i it also frees what follows:
\* the rest of the direct links, the indirect links, the words after the inode.
NewTop(s) == tmp[s] # disk[op.ino][s] /\ s \notin Pending

WordsFrom(i) == i .. i + CountDirect - 1

ResetSlots ==
    {s \in {Single, Double} : NewTop(s)}
    \union {s \in Direct : \E i \in Direct : NewTop(i) /\ s \in WordsFrom(i)}
    \union {s \in {Single, Double} :
              /\ disk[op.ino][s] # FreeLink
              /\ \E i \in Direct :
                   /\ NewTop(i)
                   /\ (IF s = Single THEN CountDirect ELSE CountDirect + 1)
                         \in WordsFrom(i)}

ReadsPastInode ==
    \E i \in Direct : NewTop(i) /\ CountDirect + 2 \in WordsFrom(i)

\* No block is left, or no slot.  Leaves below the freed link blocks and
\* leaves that were not written back are not freed.
CreateFail ==
    /\ op.at = "create"
    /\ op.done < op.todo
    /\ FlushDue = {}
    /\ \/ \A b \in Blocks : ~bm[b]
       \/ \A s \in Slots : tmp[s] # FreeLink
    /\ \E stray \in SUBSET StackWords :
         /\ stray # {} => ReadsPastInode
         /\ bm' = [b \in Blocks |->
                     \/ bm[b]
                     \/ b \in stray
                     \/ \E s \in Pending \union ResetSlots : tmp[s] = b]
    /\ rolled' = (rolled \/ op.done > 0)
    /\ \/ op.ino = op.child /\ FreeChild(disk)
       \/ op.cmd = "over" /\ op' = [op EXCEPT !.at = "size"] /\ tmp' = NoLinks
       \/ op.ino # op.child /\ op.cmd # "over" /\ NotAttached(disk)
    /\ UNCHANGED <<ibm, disk, itype, size, crashes, torn>>

\* update_size().
SetSize ==
    /\ op.at = "size"
    /\ size' = [size EXCEPT ![op.ino] = op.want]
    /\ op' = Idle
    /\ UNCHANGED <<bm, ibm, disk, itype, tmp, history>>

------------------------------------------------------------------------------
(* free_amount_of_links() and free_inode().                                 *)

\* free_link_() zeroes the block, so what it linked is gone from the file.
Zeroed(s) ==
    [disk EXCEPT ![op.ino] =
       [u \in Slots |-> IF s \in Deep /\ u \in Below(s) THEN FreeLink
                        ELSE disk[op.ino][u]]]

\* Faulty: the link is not cleared in memory.
FreeSlotKeepsLink(s) ==
    /\ bm' = [bm EXCEPT ![tmp[s]] = TRUE]
    /\ UNCHANGED tmp
    /\ disk' = Zeroed(s)

FreeSlot(s) ==
    /\ bm' = [bm EXCEPT ![tmp[s]] = TRUE]
    /\ tmp' = [tmp EXCEPT ![s] = FreeLink]
    /\ disk' = Zeroed(s)

\* From the end of the inode; a link block goes with its last link.
FreeLast(s) ==
    /\ CanFree(s)
    /\ FreeSlot(s)
    /\ op' = [op EXCEPT !.done = IF s \in Deep THEN @ ELSE @ + 1]
    /\ UNCHANGED <<ibm, itype, size, history>>

ShrinkDone ==
    /\ op.at = "shrink"
    /\ FlushDue = {}
    /\ \A s \in Slots : ~CanFree(s)
    /\ disk' = [disk EXCEPT ![op.ino] = tmp]
    /\ op' = [op EXCEPT !.at = "size"]
    /\ tmp' = NoLinks
    /\ UNCHANGED <<bm, ibm, itype, size, history>>

\* rm or rmdir of an inode other than the root, once its record is deleted.
StartRemove ==
    /\ op.at = "idle"
    /\ \E i \in Inodes \ {RootId} :
         /\ itype[i] # "free"
         /\ op' = Begin("free", "rm", i, 0, 0, 0)
         /\ tmp' = disk[i]
    /\ UNCHANGED <<bm, ibm, disk, itype, size, history>>

\* free_all_links(): what a link block links goes before the block itself.
NothingBelow(s) == s \in Deep => \A u \in Below(s) : tmp[u] = FreeLink

FreeNext(s) ==
    /\ op.at = "free"
    /\ s \in UsedSlots(tmp) /\ NothingBelow(s)
    /\ \A u \in UsedSlots(tmp) : NothingBelow(u) => s <= u
    /\ FreeSlot(s)
    /\ UNCHANGED <<ibm, itype, size, op, history>>

\* Faulty: the inode's bit stays off.
FreeBitForgotten ==
    /\ op.at = "free"
    /\ UsedSlots(tmp) = {}
    /\ op' = [op EXCEPT !.at = "clear"]
    /\ UNCHANGED <<bm, ibm, disk, itype, size, tmp, history>>

\* The inode's bit is turned on before the inode is written.
FreeBit ==
    /\ op.at = "free"
    /\ UsedSlots(tmp) = {}
    /\ ibm' = [ibm EXCEPT ![op.ino] = TRUE]
    /\ op' = [op EXCEPT !.at = "clear"]
    /\ UNCHANGED <<bm, disk, itype, size, tmp, history>>

\* Faulty: the inode is written with the links it had.
ClearKeepsLinks ==
    /\ op.at = "clear"
    /\ itype' = [itype EXCEPT ![op.ino] = "free"]
    /\ size' = [size EXCEPT ![op.ino] = 0]
    /\ Leave
    /\ UNCHANGED <<bm, ibm, disk, history>>

ClearInode ==
    /\ op.at = "clear"
    /\ disk' = [disk EXCEPT ![op.ino] = NoLinks]
    /\ itype' = [itype EXCEPT ![op.ino] = "free"]
    /\ size' = [size EXCEPT ![op.ino] = 0]
    /\ Leave
    /\ UNCHANGED <<bm, ibm, history>>

------------------------------------------------------------------------------
\* signal_handler(): the process exits, the file stays as it is, and the next
\* run of the program starts from it.
Crash ==
    /\ crashes < MaxCrashes
    /\ op.at # "idle"
    /\ crashes' = crashes + 1
    /\ torn' = \/ torn
               \/ op.at \in {"shrink", "free", "clear"}
               \/ op.at = "size" /\ op.want < size[op.ino]
    /\ Leave
    /\ UNCHANGED <<bm, ibm, disk, itype, size, rolled>>

Start == \/ StartCopy \/ StartIncp \/ StartOverwrite \/ StartMkdir
         \/ StartMove \/ StartRemove

Work ==
    \/ WriteNewFile \/ TakeDirBlock \/ WriteNewDir \/ GiveBackDir
    \/ AttachInPlace \/ AttachNoParent \/ \E p \in Inodes : AttachGrow(p)
    \/ AllocLink \/ FlushLinks \/ CreateDone \/ CreateFail
    \/ \E s \in Slots : FreeLast(s) \/ FreeNext(s)
    \/ ShrinkDone \/ FreeBit \/ ClearInode
    \/ SetSize

Next == Start \/ Work \/ Crash

Spec == Init /\ [][Next]_vars

\* A command, once started, is carried on by the process running it.
FairSpec == Spec /\ WF_vars(Work)

------------------------------------------------------------------------------
(* Properties.                                                              *)

\* The links of inode i as the running process sees them.
InHand == op.at \in {"newdir", "dirblock", "create", "shrink", "free", "clear"}

View(i) == IF InHand /\ op.ino = i THEN tmp ELSE disk[i]

Refs == {r \in Inodes \X Slots : View(r[1])[r[2]] # FreeLink}

\* As long as no kill hit a removal or a shortening, a block some inode links
\* is off in the data bitmap: free_link_() is never applied to a block that
\* stays linked, whatever sequence of creations, failures and kills came first.
LinkedIsAllocated ==
    ~torn => \A r \in Refs : ~bm[View(r[1])[r[2]]]

\* ... and no block is linked from two places: no two inodes share data, and
\* no link block is also a data block.
LinkedOnce ==
    ~torn => \A r, q \in Refs :
                View(r[1])[r[2]] = View(q[1])[q[2]] => r = q

\* Between commands, when none was killed or failed part way, every block that
\* is off in the bitmap is linked: no command leaks a block.
NoLeak ==
    crashes = 0 /\ ~rolled /\ op.at = "idle" =>
        \A b \in Blocks : bm[b] \/ \E r \in Refs : View(r[1])[r[2]] = b

\* The links of an inode have no hole in allocation order, so the i-th block
\* of a file is where outcp, cat and copy_data() look for it.
Contiguous ==
    ~torn => \A i \in Inodes : op.at = "idle" =>
        \A s \in UsedSlots(disk[i]) : \A u \in 0 .. s : disk[i][u] # FreeLink

\* Between commands a file has a leaf for every block its size claims, unless
\* a create_empty_links() failed part way.
SizeBacked ==
    ~torn /\ ~rolled /\ op.at = "idle" =>
        \A i \in Inodes : size[i] <= Cardinality(UsedLeaves(disk[i]))

\* The space check of cp and incp is enough for an inode whose size tells how
\* many leaves it has: blocks never run out under a create_empty_links() that
\* has already created something, and reset_created_links() finds nothing.
ExhaustionFindsNothing ==
    /\ ~torn /\ op.at = "create" /\ op.done < op.todo
    /\ \A b \in Blocks : ~bm[b]
    /\ Cardinality(UsedLeaves(tmp)) = size[op.ino] + op.done
    => op.done = 0

\* The inode bitmap and the inode types agree between commands.
InodeBitsAgree ==
    crashes = 0 /\ op.at = "idle" =>
        \A i \in Inodes : ibm[i] <=> itype[i] = "free"

\* A free inode links nothing, so a new file does not inherit blocks.
FreeInodeLinksNothing ==
    ~torn => \A i \in Inodes : itype[i] = "free" => UsedSlots(disk[i]) = {}

\* Every command, once started, comes to an end: the loops of creating, freeing
\* and shortening all stop.
CommandsEnd == op.at # "idle" ~> op.at = "idle"

------------------------------------------------------------------------------
(* What a comment of the source says, and the code does not keep.           *)

\* fs_links_op.c:438-440: the created links are put into the inode, "else the
\* links are freed".
FailedCreateFreesLinks ==
    crashes = 0 /\ op.at = "idle" =>
        \A b \in Blocks : bm[b] \/ \E r \in Refs : View(r[1])[r[2]] = b
==============================================================================
