---------------------------- MODULE LinksSafety ----------------------------
(***************************************************************************)
(* What holds of Links for every size of the filesystem and every number   *)
(* of kills: its types; and, while no kill hit a removal and the words     *)
(* behind 'inode_tmp' name no block, that no block is linked twice or      *)
(* while it is free, and that no inode has a hole.  The second half is     *)
(* about how many: a file has a leaf for each block its size claims, and   *)
(* the space check of cp and incp is enough for what                       *)
(* create_empty_links() takes.                                             *)
(***************************************************************************)
EXTENDS Links, Numbers, FiniteSetTheorems, TLAPS

LEMMA Shape ==
    /\ SlotCount \in Nat /\ 0 \in Slots /\ Slots \subseteq Nat
    /\ Single \in Slots /\ Double \in Slots
    /\ Direct \subseteq Slots
    /\ \A i \in Direct : i < Single /\ i < Double
  <1>1. /\ CountDirect \in Nat /\ CountDirect > 0
        /\ CountLinks \in Nat /\ CountLinks > 0
    BY SpaceAssumption
  <1>2. CountLinks * (CountLinks + 1) \in Nat
    BY <1>1
  <1>3. /\ SlotCount \in Nat /\ Double \in Nat /\ Single \in Nat
        /\ SlotCount > Double /\ Double > Single
    BY <1>1, <1>2 DEF SlotCount, Sub, Double, Single
  <1> QED
    BY <1>1, <1>3 DEF Slots, Direct, Single

LEMMA Constants ==
    /\ Capacity \in Nat
    /\ BlockCount \in Nat \ {0} /\ InodeCount \in Nat \ {0}
    /\ FreeLink \notin Blocks
  <1>1. CountDirect \in Nat /\ CountLinks \in Nat /\ CountLinks * CountLinks \in Nat
    BY SpaceAssumption
  <1> QED
    BY <1>1, LinksAssumption DEF Capacity, FreeLink, Blocks

------------------------------------------------------------------------------
(* Types.                                                                   *)

\* The inode a place works on exists, a command that will have to free the
\* inode it creates has one, and no links are held between places.
OpOK ==
    /\ op.at \in {"newfile", "create", "shrink", "size", "free", "clear"}
         => op.ino # 0
    /\ op.at = "newfile" => op.child = op.ino /\ op.cmd \in {"cp", "incp"}
    /\ op.at \in {"attach", "create"} /\ op.cmd \in {"cp", "incp"}
         => op.child # 0
    /\ op.at \in {"newdir", "dirblock"} => op.cmd = "mkdir"
    /\ op.cmd = "over" => op.child = 0
    /\ op.at = "attach" => op.cmd \in {"cp", "incp", "mkdir", "mv"}
    /\ op.at = "create" => op.cmd \in {"cp", "incp", "mkdir", "mv", "over"}
    /\ ~InHand \/ op.at = "newdir" => tmp = NoLinks
    /\ op.at = "dirblock" => \A s \in Slots : s # 0 => tmp[s] = FreeLink

Typed == TypeOK /\ OpOK

LEMMA NoLinksType == NoLinks \in [Slots -> Links]
  BY DEF NoLinks, Links

LEMMA BeginType ==
    ASSUME NEW at \in Places, NEW cmd \in Commands,
           NEW ino \in Inodes \union {0}, NEW child \in Inodes \union {0},
           NEW todo \in Nat, NEW want \in Nat
    PROVE  Begin(at, cmd, ino, child, todo, want) \in Ops
  BY DEF Begin, Ops

LEMMA IdleType == Idle \in Ops
  BY BeginType DEF Idle, Places, Commands

LEMMA DoneType ==
    ASSUME NEW o \in Ops, NEW n \in Nat
    PROVE  LET q == [o EXCEPT !.done = n]
           IN  /\ q \in Ops /\ q.at = o.at /\ q.cmd = o.cmd /\ q.ino = o.ino
               /\ q.child = o.child /\ q.todo = o.todo /\ q.want = o.want
  BY DEF Ops

LEMMA CountedType ==
    ASSUME NEW o \in Ops, NEW s \in Slots
    PROVE  LET q == [o EXCEPT !.done = IF s \in Deep THEN @ ELSE @ + 1]
           IN  /\ q \in Ops /\ q.at = o.at /\ q.cmd = o.cmd /\ q.ino = o.ino
               /\ q.child = o.child /\ q.todo = o.todo /\ q.want = o.want
  <1>1. o.done \in Nat
    BY DEF Ops
  <1>2. (IF s \in Deep THEN o.done ELSE o.done + 1) \in Nat
    BY <1>1
  <1> QED
    BY <1>2, DoneType

LEMMA InitTyped == Init => Typed
  <1> SUFFICES ASSUME Init PROVE Typed
    OBVIOUS
  <1>1. 1 \in Blocks /\ 1 \in Links
    BY Constants DEF Blocks, Links
  <1>2. disk \in [Inodes -> [Slots -> Links]]
    BY <1>1, NoLinksType, Shape DEF Init
  <1>3. TypeOK
    BY <1>2, NoLinksType, IdleType DEF Init, TypeOK, ItemTypes
  <1>4. OpOK
    BY DEF Init, OpOK, Idle, Begin, InHand
  <1> QED
    BY <1>3, <1>4 DEF Typed

\* Where a command may go after add_to_parent().
LEMMA AttachedTyped ==
    ASSUME Typed, NEW d \in [Inodes -> [Slots -> Links]],
           op.at \in {"attach", "create"},
           op.cmd \in {"cp", "incp", "mkdir", "mv"},
           Attached(d) \/ NotAttached(d)
    PROVE  op' \in Ops /\ tmp' \in [Slots -> Links] /\ OpOK'
  <1> USE DEF Typed
  <1>1. op \in Ops
    BY DEF TypeOK
  <1>2. CASE Leave
    BY <1>2, IdleType, NoLinksType DEF Leave, OpOK, Idle, Begin, InHand
  <1>3. CASE op.child # 0 /\ FreeChild(d)
    BY <1>1, <1>3 DEF FreeChild, Ops, Places, OpOK, InHand
  <1>4. CASE /\ op.cmd \in {"cp", "incp"}
             /\ op' = [op EXCEPT !.at = "size", !.ino = op.child]
             /\ tmp' = NoLinks
    BY <1>1, <1>4, NoLinksType DEF Ops, Places, OpOK, InHand
  <1> QED
    BY <1>2, <1>3, <1>4 DEF Attached, NotAttached, OpOK

LEMMA NextTyped == Typed /\ [Next]_vars => Typed'
  <1> SUFFICES ASSUME Typed, [Next]_vars PROVE Typed'
    OBVIOUS
  <1> USE DEF Typed
  <1>1. /\ op \in Ops /\ tmp \in [Slots -> Links]
        /\ disk \in [Inodes -> [Slots -> Links]] /\ size \in [Inodes -> Nat]
        /\ bm \in [Blocks -> BOOLEAN] /\ ibm \in [Inodes -> BOOLEAN]
        /\ itype \in [Inodes -> ItemTypes]
    BY DEF TypeOK
  <1>2. ASSUME NEW cmd \in {"cp", "incp"}, NEW n \in Nat, StartFile(cmd, n)
        PROVE  Typed'
    <2> PICK i \in Inodes :
          /\ ibm' = [ibm EXCEPT ![i] = FALSE]
          /\ op' = Begin("newfile", cmd, i, i, n, n)
      BY <1>2 DEF StartFile
    <2>1. op' \in Ops
      BY BeginType DEF Places, Commands
    <2>2. TypeOK'
      BY <1>1, <1>2, <2>1 DEF StartFile, TypeOK, history
    <2>3. OpOK'
      <3>1. /\ op'.at = "newfile" /\ op'.child = i /\ op'.ino = i /\ op'.cmd = cmd
            /\ i # 0
        BY DEF Begin, Inodes
      <3>2. tmp' = NoLinks
        BY <1>2 DEF StartFile, OpOK, InHand
      <3> QED
        BY <3>1, <3>2 DEF OpOK, InHand
    <2> QED
      BY <2>2, <2>3
  <1>3. CASE StartCopy
    BY <1>1, <1>2, <1>3 DEF StartCopy
  <1>4. CASE StartIncp
    BY <1>2, <1>4, Constants DEF StartIncp
  <1>5. CASE StartOverwrite
    <2>1. PICK i \in Inodes, n \in 0 .. Capacity :
            \/ /\ op' = Begin("create", "over", i, 0, n - size[i], n)
               /\ n > size[i] /\ tmp' = disk[i]
            \/ /\ op' = Begin("shrink", "over", i, 0, size[i] - n, n)
               /\ n < size[i] /\ tmp' = disk[i]
            \/ /\ op' = Begin("size", "over", i, 0, 0, n)
               /\ UNCHANGED tmp
      BY <1>5 DEF StartOverwrite
    <2>2. n \in Nat /\ size[i] \in Nat
      BY <1>1, Constants
    <2>3. op' \in Ops /\ tmp' \in [Slots -> Links]
      <3>1. n > size[i] => n - size[i] \in Nat
        BY <2>2
      <3>2. n < size[i] => size[i] - n \in Nat
        BY <2>2
      <3>3. tmp' \in [Slots -> Links]
        BY <1>1, <2>1
      <3>4. ASSUME NEW at \in {"create", "shrink", "size"}, NEW m \in Nat,
                   op' = Begin(at, "over", i, 0, m, n)
            PROVE  op' \in Ops
        <4>1. at \in Places /\ "over" \in Commands
          BY <3>4 DEF Places, Commands
        <4>2. i \in Inodes \union {0} /\ 0 \in Inodes \union {0}
          OBVIOUS
        <4> QED
          BY <2>2, <3>4, <4>1, <4>2, BeginType
      <3> QED
        BY <2>1, <3>1, <3>2, <3>3, <3>4
    <2>4. TypeOK'
      BY <1>1, <1>5, <2>3 DEF StartOverwrite, TypeOK, history
    <2>5. OpOK'
      BY <1>5, <2>1 DEF StartOverwrite, OpOK, Idle, Begin, InHand, Inodes
    <2> QED
      BY <2>4, <2>5
  <1>6. CASE StartMkdir
    <2>1. \/ \E i \in Inodes :
               /\ ibm' = [ibm EXCEPT ![i] = FALSE]
               /\ op' = Begin("newdir", "mkdir", i, 0, 0, 0)
          \/ /\ op' = Begin("newdir", "mkdir", 0, 0, 0, 0)
             /\ ibm' = ibm
      BY <1>6 DEF StartMkdir
    <2>2. op' \in Ops /\ op'.at = "newdir" /\ op'.cmd = "mkdir"
      <3>1. CASE op' = Begin("newdir", "mkdir", 0, 0, 0, 0)
        BY <3>1, BeginType DEF Begin, Places, Commands
      <3>2. ASSUME NEW i \in Inodes, op' = Begin("newdir", "mkdir", i, 0, 0, 0)
            PROVE  op' \in Ops /\ op'.at = "newdir" /\ op'.cmd = "mkdir"
        BY <3>2, BeginType DEF Begin, Places, Commands
      <3> QED
        BY <2>1, <3>1, <3>2
    <2>3. TypeOK'
      BY <1>1, <1>6, <2>1, <2>2 DEF StartMkdir, TypeOK, history
    <2>4. OpOK'
      BY <1>6, <2>2 DEF StartMkdir, OpOK, InHand
    <2> QED
      BY <2>3, <2>4
  <1>7. CASE StartMove
    <2>1. op' \in Ops
      BY <1>7, BeginType DEF StartMove, Places, Commands
    <2>2. TypeOK'
      BY <1>1, <1>7, <2>1 DEF StartMove, TypeOK, history
    <2>3. OpOK'
      BY <1>7 DEF StartMove, OpOK, Idle, Begin, InHand
    <2> QED
      BY <2>2, <2>3
  <1>8. CASE StartRemove
    <2>1. PICK i \in Inodes :
            /\ op' = Begin("free", "rm", i, 0, 0, 0)
            /\ tmp' = disk[i]
      BY <1>8 DEF StartRemove
    <2>2. op' \in Ops
      BY <2>1, BeginType DEF Places, Commands
    <2>3. TypeOK'
      BY <1>1, <1>8, <2>1, <2>2 DEF StartRemove, TypeOK, history
    <2>4. OpOK'
      BY <2>1 DEF OpOK, Idle, Begin, InHand, Inodes
    <2> QED
      BY <2>3, <2>4
  <1>9. CASE WriteNewFile
    <2>1. op' \in Ops /\ op.ino \in Inodes
      BY <1>1, <1>9 DEF WriteNewFile, Ops, Places, OpOK
    <2>2. TypeOK'
      BY <1>1, <1>9, <2>1 DEF WriteNewFile, TypeOK, history, ItemTypes
    <2>3. OpOK'
      BY <1>1, <1>9 DEF WriteNewFile, OpOK, Ops, InHand
    <2> QED
      BY <2>2, <2>3
  <1>10. CASE TakeDirBlock
    <2>1. op' \in Ops
      BY <1>1, <1>10 DEF TakeDirBlock, Ops, Places
    <2>2. \/ \E b \in Blocks : /\ bm' = [bm EXCEPT ![b] = FALSE]
                             /\ tmp' = [tmp EXCEPT ![0] = b]
          \/ UNCHANGED <<bm, tmp>>
      BY <1>10 DEF TakeDirBlock
    <2>3. TypeOK'
      <3>1. bm' \in [Blocks -> BOOLEAN] /\ tmp' \in [Slots -> Links]
        BY <1>1, <2>2, Shape DEF Links
      <3> QED
        BY <1>1, <1>10, <2>1, <3>1 DEF TakeDirBlock, TypeOK, history
    <2>4. OpOK'
      BY <1>1, <1>10, <2>2 DEF TakeDirBlock, OpOK, Ops, InHand, NoLinks
    <2> QED
      BY <2>3, <2>4
  <1>11. CASE WriteNewDir
    <2>1. op' \in Ops /\ op.ino \in Inodes
      BY <1>1, <1>11 DEF WriteNewDir, Ops, Places
    <2>2. disk' \in [Inodes -> [Slots -> Links]]
      BY <1>1, <1>11, Shape DEF WriteNewDir
    <2>3. TypeOK'
      BY <1>1, <1>11, <2>1, <2>2, NoLinksType
         DEF WriteNewDir, TypeOK, history, ItemTypes
    <2>4. OpOK'
      BY <1>1, <1>11 DEF WriteNewDir, OpOK, Ops, InHand
    <2> QED
      BY <2>3, <2>4
  <1>12. CASE GiveBackDir
    <2>1. op' \in Ops
      BY <1>1, <1>12 DEF GiveBackDir, Ops, Places
    <2>2. ibm' \in [Inodes -> BOOLEAN] /\ bm' \in [Blocks -> BOOLEAN]
      BY <1>1, <1>12 DEF GiveBackDir
    <2>3. TypeOK'
      BY <1>1, <1>12, <2>1, <2>2, NoLinksType DEF GiveBackDir, TypeOK, history
    <2>4. OpOK'
      BY <1>1, <1>12 DEF GiveBackDir, OpOK, Ops, InHand
    <2> QED
      BY <2>3, <2>4
  <1>13. CASE AttachInPlace
    <2>1. op' \in Ops /\ tmp' \in [Slots -> Links] /\ OpOK'
      BY <1>1, <1>13, AttachedTyped DEF AttachInPlace, OpOK
    <2> QED
      BY <1>1, <1>13, <2>1 DEF AttachInPlace, TypeOK, history
  <1>14. CASE AttachNoParent
    BY <1>1, <1>14, NoLinksType, IdleType
       DEF AttachNoParent, Leave, TypeOK, history, OpOK, Idle, Begin, InHand
  <1>15. ASSUME NEW p \in Inodes, AttachGrow(p)
         PROVE  Typed'
    <2>1. op' \in Ops
      BY <1>1, <1>15 DEF AttachGrow, Ops, Places
    <2>2. TypeOK'
      BY <1>1, <1>15, <2>1 DEF AttachGrow, TypeOK, history
    <2>3. OpOK'
      BY <1>1, <1>15 DEF AttachGrow, OpOK, Ops, InHand, Inodes
    <2> QED
      BY <2>2, <2>3
  <1>16. CASE AllocLink
    <2>1. PICK s \in Slots, b \in Blocks :
            /\ bm' = [bm EXCEPT ![b] = FALSE]
            /\ tmp' = [tmp EXCEPT ![s] = b]
            /\ op' = [op EXCEPT !.done = IF s \in Deep THEN @ ELSE @ + 1]
      BY <1>16 DEF AllocLink
    <2>2. op' \in Ops
      BY <1>1, <2>1, CountedType
    <2>3. bm' \in [Blocks -> BOOLEAN] /\ tmp' \in [Slots -> Links]
      BY <1>1, <2>1 DEF Links
    <2>4. TypeOK'
      BY <1>1, <1>16, <2>2, <2>3 DEF AllocLink, TypeOK, history
    <2>5. OpOK'
      BY <1>1, <1>16, <2>1 DEF AllocLink, OpOK, Ops, InHand
    <2> QED
      BY <2>4, <2>5
  <1>17. CASE FlushLinks
    <2>1. op.ino \in Inodes
      BY <1>1, <1>17 DEF FlushLinks, OpOK, Ops
    <2>2. PICK d \in FlushDue :
            disk' = [disk EXCEPT ![op.ino] =
                       [s \in Slots |-> IF s \in Below(d) THEN tmp[s]
                                        ELSE disk[op.ino][s]]]
      BY <1>17 DEF FlushLinks
    <2>3. disk' \in [Inodes -> [Slots -> Links]]
      BY <1>1, <2>1, <2>2
    <2>4. TypeOK'
      BY <1>1, <1>17, <2>3 DEF FlushLinks, TypeOK, history
    <2>5. OpOK'
      BY <1>17 DEF FlushLinks, OpOK, InHand
    <2> QED
      BY <2>4, <2>5
  <1>18. CASE CreateDone
    <2>1. op.ino \in Inodes
      BY <1>1, <1>18 DEF CreateDone, OpOK, Ops
    <2>2. /\ disk' \in [Inodes -> [Slots -> Links]]
          /\ size' \in [Inodes -> Nat]
      BY <1>1, <1>18, <2>1 DEF CreateDone, Ops
    <2>3. op' \in Ops /\ tmp' \in [Slots -> Links] /\ OpOK'
      <3>1. CASE op' = [op EXCEPT !.at = "attach"] /\ op.ino = op.child /\ tmp' = NoLinks
        BY <1>1, <1>18, <3>1, NoLinksType DEF CreateDone, OpOK, Ops, Places, InHand
      <3>2. CASE op' = [op EXCEPT !.at = "size"] /\ tmp' = NoLinks
        BY <1>1, <1>18, <3>2, NoLinksType DEF CreateDone, OpOK, Ops, Places, InHand
      <3>3. CASE op.cmd # "over" /\ Attached(disk')
        BY <1>18, <2>2, <3>3, AttachedTyped DEF CreateDone, OpOK
      <3> QED
        BY <1>18, <3>1, <3>2, <3>3 DEF CreateDone
    <2>4. TypeOK'
      BY <1>1, <1>18, <2>2, <2>3 DEF CreateDone, TypeOK, history
    <2> QED
      BY <2>3, <2>4
  <1>19. CASE CreateFail
    <2>1. op.ino \in Inodes
      BY <1>1, <1>19 DEF CreateFail, OpOK, Ops
    <2>2. bm' \in [Blocks -> BOOLEAN] /\ rolled' \in BOOLEAN
      BY <1>1, <1>19 DEF CreateFail, TypeOK
    <2>3. op' \in Ops /\ tmp' \in [Slots -> Links] /\ OpOK'
      <3>1. CASE op.ino = op.child /\ FreeChild(disk)
        BY <1>1, <1>19, <2>1, <3>1
           DEF CreateFail, FreeChild, OpOK, Ops, Places, InHand, Inodes
      <3>2. CASE op' = [op EXCEPT !.at = "size"] /\ tmp' = NoLinks
        BY <1>1, <1>19, <3>2, NoLinksType DEF CreateFail, OpOK, Ops, Places, InHand
      <3>3. CASE op.cmd # "over" /\ NotAttached(disk)
        BY <1>1, <1>19, <3>3, AttachedTyped DEF CreateFail, OpOK
      <3> QED
        BY <1>19, <3>1, <3>2, <3>3 DEF CreateFail
    <2>4. TypeOK'
      BY <1>1, <1>19, <2>2, <2>3 DEF CreateFail, TypeOK
    <2> QED
      BY <2>3, <2>4
  <1>20. ASSUME NEW s \in Slots, FreeSlot(s), tmp[s] # FreeLink, op.ino \in Inodes
         PROVE  /\ bm' \in [Blocks -> BOOLEAN] /\ tmp' \in [Slots -> Links]
                /\ disk' \in [Inodes -> [Slots -> Links]]
    BY <1>1, <1>20 DEF FreeSlot, Zeroed, Links
  <1>21. ASSUME NEW s \in Slots, FreeLast(s) \/ FreeNext(s)
         PROVE  Typed'
    <2>1. op.at \in {"shrink", "free"} /\ FreeSlot(s) /\ tmp[s] # FreeLink
      BY <1>21 DEF FreeLast, FreeNext, CanFree, LastUsed, UsedSlots
    <2>2. op.ino \in Inodes
      BY <1>1, <2>1 DEF OpOK, Ops
    <2>3. /\ bm' \in [Blocks -> BOOLEAN] /\ tmp' \in [Slots -> Links]
          /\ disk' \in [Inodes -> [Slots -> Links]]
      BY <1>20, <2>1, <2>2
    <2>4. /\ op' \in Ops /\ op'.at = op.at /\ op'.ino = op.ino
          /\ op'.cmd = op.cmd /\ op'.child = op.child
      <3>1. CASE FreeNext(s)
        BY <1>1, <3>1 DEF FreeNext
      <3>2. CASE FreeLast(s)
        BY <1>1, <3>2, CountedType DEF FreeLast
      <3> QED
        BY <1>21, <3>1, <3>2
    <2>5. TypeOK'
      BY <1>1, <1>21, <2>3, <2>4 DEF FreeLast, FreeNext, TypeOK, history
    <2>6. OpOK'
      BY <2>1, <2>4 DEF OpOK, InHand
    <2> QED
      BY <2>5, <2>6
  <1>22. CASE ShrinkDone
    <2>1. op.ino \in Inodes /\ op' \in Ops
      BY <1>1, <1>22 DEF ShrinkDone, OpOK, Ops, Places
    <2>2. TypeOK'
      BY <1>1, <1>22, <2>1, NoLinksType DEF ShrinkDone, TypeOK, history
    <2>3. OpOK'
      BY <1>1, <1>22 DEF ShrinkDone, OpOK, Ops, InHand
    <2> QED
      BY <2>2, <2>3
  <1>23. CASE FreeBit
    <2>1. op' \in Ops
      BY <1>1, <1>23 DEF FreeBit, Ops, Places
    <2>2. TypeOK'
      BY <1>1, <1>23, <2>1 DEF FreeBit, TypeOK, history
    <2>3. OpOK'
      BY <1>1, <1>23 DEF FreeBit, OpOK, Ops, InHand
    <2> QED
      BY <2>2, <2>3
  <1>24. CASE ClearInode
    <2>1. TypeOK'
      BY <1>1, <1>24, NoLinksType, IdleType
         DEF ClearInode, Leave, TypeOK, history, ItemTypes
    <2>2. OpOK'
      BY <1>24 DEF ClearInode, Leave, OpOK, Idle, Begin, InHand
    <2> QED
      BY <2>1, <2>2
  <1>25. CASE SetSize
    <2>1. TypeOK'
      BY <1>1, <1>25, IdleType DEF SetSize, TypeOK, history, Ops
    <2>2. OpOK'
      BY <1>25 DEF SetSize, OpOK, Idle, Begin, InHand
    <2> QED
      BY <2>1, <2>2
  <1>26. CASE Crash
    <2>1. torn' \in BOOLEAN /\ crashes' \in Nat
      BY <1>26 DEF Crash, TypeOK
    <2>2. TypeOK'
      BY <1>1, <1>26, <2>1, NoLinksType, IdleType DEF Crash, Leave, TypeOK
    <2>3. OpOK'
      BY <1>26 DEF Crash, Leave, OpOK, Idle, Begin, InHand
    <2> QED
      BY <2>2, <2>3
  <1>27. CASE UNCHANGED vars
    BY <1>27 DEF vars, TypeOK, OpOK, InHand
  <1> QED
    BY <1>3, <1>4, <1>5, <1>6, <1>7, <1>8, <1>9, <1>10, <1>11, <1>12, <1>13,
       <1>14, <1>15, <1>16, <1>17, <1>18, <1>19, <1>21, <1>22, <1>23, <1>24,
       <1>25, <1>26, <1>27 DEF Next, Start, Work

\* The variables keep their types, whatever commands, failures and kills occur;
\* in particular a command never works on, or frees, an inode it does not have.
THEOREM LinksTypes == Spec => []TypeOK
  <1>1. Typed => TypeOK
    BY DEF Typed
  <1> QED
    BY InitTyped, NextTyped, <1>1, PTL DEF Spec

----------------------------------------------------------------------------

\* The inodes, and 0 for what the process holds for an inode it did not get.
Holders == Inodes \union {0}

Held == [h \in Holders |-> IF InHand /\ op.ino = h THEN tmp
                           ELSE IF h = 0 THEN NoLinks ELSE disk[h]]

\* The links of every holder are taken in the bitmap, and no two are the same.
Exclusive(H, map) ==
    /\ \A h \in Holders, s \in Slots : H[h][s] # FreeLink => ~map[H[h][s]]
    /\ \A h, g \in Holders : \A s, u \in Slots :
         H[h][s] # FreeLink /\ H[h][s] = H[g][u] => h = g /\ s = u

\* Links are taken in slot order.
Filled(t) == \A s, u \in Slots : u < s /\ t[s] # FreeLink => t[u] # FreeLink

\* The links of t are among those of w.
Within(t, w) == \A s \in Slots : t[s] # FreeLink => t[s] = w[s]

\* No holder but the one being freed has a hole.
NoHoles == \A h \in Holders : Filled(Held[h]) \/ (op.at = "free" /\ op.ino = h)

\* A kill while links are being created leaves links the process has, and no
\* hole; one while a directory is made leaves a free inode.
KillLeaves ==
    /\ op.at = "create" => Within(disk[op.ino], tmp) /\ Filled(disk[op.ino])
    /\ op.at \in {"newdir", "dirblock"} /\ op.ino # 0
         => disk[op.ino] = NoLinks /\ itype[op.ino] = "free"

\* An inode that is free in the bitmap holds nothing, is of no type and is not
\* being made; one that is of no type links nothing.
FreeInodes ==
    /\ \A i \in Inodes : ibm[i] =>
         /\ Held[i] = NoLinks
         /\ itype[i] = "free" \/ (op.at = "clear" /\ op.ino = i)
         /\ op.at \in {"newfile", "newdir", "dirblock", "create"} => op.ino # i
    /\ \A i \in Inodes : itype[i] = "free" => disk[i] = NoLinks
    /\ op.at \in {"create", "shrink"} => itype[op.ino] # "free"

Safe == Exclusive(Held, bm) /\ NoHoles /\ KillLeaves /\ FreeInodes

IInv == Typed /\ (~torn => Safe)

------------------------------------------------------------------------------
(* Links taken and given back.                                              *)

LinksOf == [Holders -> [Slots -> Links]]
Maps == [Blocks -> BOOLEAN]

\* Giving links back, and clearing no bit of a link that stays, is safe.
LEMMA FewerLinks ==
    ASSUME NEW H \in LinksOf, NEW G \in LinksOf, NEW m \in Maps, NEW n \in Maps,
           Exclusive(H, m),
           \A h \in Holders : Within(G[h], H[h]),
           \A h \in Holders, s \in Slots :
               G[h][s] # FreeLink /\ n[G[h][s]] => m[G[h][s]]
    PROVE  Exclusive(G, n)
  BY DEF Exclusive, Within

\* Taking a free block for a slot is safe.
LEMMA OneMoreLink ==
    ASSUME NEW H \in LinksOf, NEW m \in Maps,
           NEW f \in Holders, NEW t \in Slots, NEW b \in Blocks,
           Exclusive(H, m), m[b]
    PROVE  Exclusive([H EXCEPT ![f][t] = b], [m EXCEPT ![b] = FALSE])
  <1> DEFINE G == [H EXCEPT ![f][t] = b]
             n == [m EXCEPT ![b] = FALSE]
  <1>1. ASSUME NEW h \in Holders, NEW s \in Slots, H[h][s] # FreeLink
        PROVE  H[h][s] \in Blocks /\ H[h][s] # b /\ ~m[H[h][s]]
    <2>1. H[h][s] \in Links
      BY DEF LinksOf
    <2> QED
      BY <1>1, <2>1 DEF Exclusive, Links
  <1>2. \A h \in Holders, s \in Slots :
          G[h][s] = IF h = f /\ s = t THEN b ELSE H[h][s]
    BY DEF LinksOf
  <1>3. \A c \in Blocks : n[c] => m[c] /\ c # b
    BY DEF Maps
  <1> HIDE DEF G, n
  <1>4. \A h \in Holders, s \in Slots : G[h][s] # FreeLink => ~n[G[h][s]]
    BY <1>1, <1>2, <1>3
  <1>5. b # FreeLink
    BY Constants
  <1>6. \A h, g \in Holders : \A s, u \in Slots :
          G[h][s] # FreeLink /\ G[h][s] = G[g][u] => h = g /\ s = u
    BY <1>1, <1>2, <1>5 DEF Exclusive
  <1>7. Exclusive(G, n)
    BY <1>4, <1>6 DEF Exclusive
  <1> QED
    BY <1>7 DEF G, n

LEMMA HeldType ==
    ASSUME Typed, Typed'
    PROVE  Held \in LinksOf /\ Held' \in LinksOf /\ bm \in Maps /\ bm' \in Maps
  <1>1. Held \in LinksOf /\ bm \in Maps
    BY NoLinksType DEF Typed, TypeOK, Held, LinksOf, Holders, Maps
  <1>2. Held' \in LinksOf /\ bm' \in Maps
    BY NoLinksType DEF Typed, TypeOK, Held, LinksOf, Holders, Maps
  <1> QED
    BY <1>1, <1>2

LEMMA NoLinksFilled == Filled(NoLinks)
  BY DEF Filled, NoLinks

LEMMA InitSafe == Init => Safe
  <1> SUFFICES ASSUME Init PROVE Safe
    OBVIOUS
  <1>1. \A h \in Holders, s \in Slots :
          Held[h][s] = IF h = RootId /\ s = 0 THEN 1 ELSE FreeLink
    BY Shape DEF Init, Held, Holders, Inodes, InHand, Idle, Begin, NoLinks, RootId
  <1>2. Exclusive(Held, bm)
    <2>1. \A h \in Holders, s \in Slots :
            Held[h][s] # FreeLink => Held[h][s] = 1 /\ h = RootId /\ s = 0
      BY <1>1
    <2>2. 1 \in Blocks
      BY Constants DEF Blocks
    <2>3. ~bm[1]
      BY <2>2 DEF Init
    <2> QED
      BY <2>1, <2>3 DEF Exclusive
  <1>3. NoHoles
    BY <1>1, Shape DEF NoHoles, Filled, FreeLink
  <1>4. KillLeaves
    BY DEF Init, KillLeaves, Idle, Begin
  <1>5. \A i \in Inodes : i # RootId => Held[i] = NoLinks
    BY DEF Init, Held, Holders, InHand, Idle, Begin, Inodes
  <1>6. FreeInodes
    BY <1>5 DEF Init, FreeInodes, Idle, Begin
  <1> QED
    BY <1>2, <1>3, <1>4, <1>6 DEF Safe

------------------------------------------------------------------------------
(* Steps that leave what is held as it is.                                  *)

\* An inode is only named by a command that has it.
LEMMA Working ==
    ASSUME Typed
    PROVE  /\ op \in Ops /\ tmp \in [Slots -> Links]
           /\ disk \in [Inodes -> [Slots -> Links]]
           /\ bm \in Maps /\ ibm \in [Inodes -> BOOLEAN]
           /\ itype \in [Inodes -> ItemTypes] /\ size \in [Inodes -> Nat]
           /\ op.ino \in Holders /\ op.child \in Holders
           /\ op.at \in {"newfile", "create", "shrink", "size", "free", "clear"}
                => op.ino \in Inodes
           /\ ~InHand \/ op.at = "newdir" => tmp = NoLinks
           /\ 0 \notin Inodes
  BY DEF Typed, TypeOK, OpOK, Ops, Maps, Holders, Inodes

\* A command takes up an inode as it is in the file, or none.
LEMMA TakenUp ==
    ASSUME Typed, Typed', Safe, ~InHand, UNCHANGED <<bm, ibm, disk, itype>>,
           op'.at \notin {"newfile", "newdir", "dirblock", "clear"},
           InHand' => op'.ino \in Inodes /\ tmp' = disk[op'.ino],
           op'.at \in {"create", "shrink"} => itype[op'.ino] # "free"
    PROVE  Safe'
  <1>1. \A h \in Holders : Held'[h] = Held[h]
    BY Working DEF Held, Holders
  <1>2. Held' = Held
    BY <1>1 DEF Held
  <1>3. Exclusive(Held, bm)'
    BY <1>2 DEF Safe, Exclusive
  <1>4. \A h \in Holders : Filled(Held[h])
    BY DEF Safe, NoHoles, InHand
  <1>5. NoHoles'
    BY <1>2, <1>4 DEF NoHoles
  <1>6. KillLeaves'
    <2> SUFFICES ASSUME op'.at = "create" PROVE Within(disk[op'.ino], tmp')
                                               /\ Filled(disk[op'.ino])
      BY DEF KillLeaves
    <2>1. op'.ino \in Inodes /\ tmp' = disk[op'.ino]
      BY DEF InHand
    <2>2. Held[op'.ino] = disk[op'.ino]
      BY <2>1, Working DEF Held, Holders
    <2> QED
      BY <1>4, <2>1, <2>2 DEF Within, Holders
  <1>7. FreeInodes'
    <2>1. \A i \in Inodes : ibm[i] => itype[i] = "free"
      BY DEF Safe, FreeInodes, InHand
    <2> QED
      BY <1>2, <2>1 DEF Safe, FreeInodes
  <1> QED
    BY <1>3, <1>5, <1>6, <1>7 DEF Safe

LEMMA StartSafe ==
    ASSUME Typed, Typed', Safe, Start
    PROVE  Safe'
  <1>1. op.at = "idle" /\ ~InHand /\ UNCHANGED <<bm, disk, itype>>
    BY DEF Start, StartCopy, StartIncp, StartFile, StartOverwrite, StartMkdir,
           StartMove, StartRemove, InHand
  <1>2. ASSUME NEW i \in Inodes, ibm[i], NEW at \in {"newfile", "newdir"},
               ibm' = [ibm EXCEPT ![i] = FALSE],
               op'.at = at, op'.ino = i, tmp' = tmp
        PROVE  Safe'
    <2>1. Held[i] = NoLinks /\ disk[i] = NoLinks /\ itype[i] = "free"
      BY <1>1, <1>2, Working DEF Safe, FreeInodes, Held, Holders
    <2>2. \A h \in Holders : Held'[h] = Held[h]
      BY <1>1, <1>2, <2>1, Working DEF Held, Holders
    <2>3. Held' = Held
      BY <2>2 DEF Held
    <2>4. Exclusive(Held, bm)' /\ NoHoles'
      BY <1>1, <1>2, <2>3 DEF Safe, Exclusive, NoHoles
    <2>5. KillLeaves'
      BY <1>1, <1>2, <2>1 DEF KillLeaves
    <2>6. FreeInodes'
      BY <1>1, <1>2, <2>3, Working DEF Safe, FreeInodes
    <2> QED
      BY <2>4, <2>5, <2>6 DEF Safe
  <1>3. ASSUME NEW cmd, NEW n, StartFile(cmd, n) PROVE Safe'
    <2>1. PICK i \in Inodes :
            /\ ibm[i] /\ ibm' = [ibm EXCEPT ![i] = FALSE]
            /\ op' = Begin("newfile", cmd, i, i, n, n)
      BY <1>3 DEF StartFile, FirstFree
    <2>2. op'.at = "newfile" /\ op'.ino = i /\ tmp' = tmp
      BY <1>3, <2>1 DEF StartFile, Begin
    <2> QED
      BY <1>2, <2>1, <2>2
  <1>4. CASE StartMkdir
    <2>1. CASE op' = Begin("newdir", "mkdir", 0, 0, 0, 0) /\ ibm' = ibm
      <3>1. op'.at = "newdir" /\ op'.ino = 0 /\ tmp' = tmp
        BY <1>4, <2>1 DEF StartMkdir, Begin
      <3>2. \A h \in Holders : Held'[h] = Held[h]
        BY <1>1, <3>1, Working DEF Held, Holders
      <3>3. Held' = Held
        BY <3>2 DEF Held
      <3>4. Exclusive(Held, bm)' /\ NoHoles'
        BY <1>1, <3>1, <3>3 DEF Safe, Exclusive, NoHoles
      <3>5. KillLeaves'
        BY <3>1 DEF KillLeaves
      <3>6. FreeInodes'
        BY <1>1, <2>1, <3>1, <3>3, Working DEF Safe, FreeInodes
      <3> QED
        BY <3>4, <3>5, <3>6 DEF Safe
    <2> QED
      BY <1>2, <1>4, <2>1 DEF StartMkdir, FirstFree, Begin
  <1>5. CASE StartOverwrite
    <2>1. PICK i \in Inodes :
            /\ itype[i] = "file" /\ op'.ino = i
            /\ \/ op'.at \in {"create", "shrink"} /\ tmp' = disk[i]
               \/ op'.at = "size"
      BY <1>5 DEF StartOverwrite, Begin
    <2> QED
      BY <1>1, <1>5, <2>1, TakenUp DEF StartOverwrite, InHand
  <1>6. CASE StartMove
    BY <1>1, <1>6, TakenUp DEF StartMove, Begin, InHand
  <1>7. CASE StartRemove
    <2>1. PICK i \in Inodes : op' = Begin("free", "rm", i, 0, 0, 0) /\ tmp' = disk[i]
      BY <1>7 DEF StartRemove
    <2> QED
      BY <1>1, <1>7, <2>1, TakenUp DEF StartRemove, Begin, InHand
  <1> QED
    BY <1>3, <1>4, <1>5, <1>6, <1>7 DEF Start, StartCopy, StartIncp

LEMMA AttachSafe ==
    ASSUME Typed, Typed', Safe,
           AttachInPlace \/ AttachNoParent \/ \E p \in Inodes : AttachGrow(p)
    PROVE  Safe'
  <1>1. op.at = "attach" /\ ~InHand /\ UNCHANGED <<bm, ibm, disk, itype>>
    BY DEF AttachInPlace, AttachNoParent, AttachGrow, InHand
  <1>2. CASE Leave
    BY <1>1, <1>2, TakenUp DEF Leave, Idle, Begin, InHand
  <1>3. CASE AttachInPlace
    <2>1. op.cmd = "cp" => op.child \in Inodes
      BY <1>1, Working DEF Typed, OpOK, Holders
    <2>2. \/ Leave
          \/ op' = [op EXCEPT !.at = "size", !.ino = op.child]
          \/ /\ op.cmd = "cp" /\ tmp' = disk[op.child]
             /\ op' = [op EXCEPT !.at = "free", !.ino = op.child]
      BY <1>3 DEF AttachInPlace, Attached, FreeChild
    <2>3. CASE op' = [op EXCEPT !.at = "size", !.ino = op.child]
      <3>1. op'.at = "size"
        BY <2>3, Working DEF Ops
      <3> QED
        BY <1>1, <3>1, TakenUp DEF InHand
    <2>4. CASE /\ op.cmd = "cp" /\ tmp' = disk[op.child]
               /\ op' = [op EXCEPT !.at = "free", !.ino = op.child]
      <3>1. op'.at = "free" /\ op'.ino = op.child
        BY <2>4, Working DEF Ops
      <3> QED
        BY <1>1, <2>1, <2>4, <3>1, TakenUp
    <2> QED
      BY <1>2, <2>2, <2>3, <2>4
  <1>4. ASSUME NEW p \in Inodes, AttachGrow(p) PROVE Safe'
    <2>1. op'.at = "create" /\ op'.ino = p /\ tmp' = disk[p] /\ itype[p] # "free"
      BY <1>4, Working DEF AttachGrow, Ops
    <2> QED
      BY <1>1, <2>1, TakenUp
  <1> QED
    BY <1>2, <1>3, <1>4 DEF AttachNoParent

\* The size is written last, and changes no link.
LEMMA SizeSafe ==
    ASSUME Typed, Typed', Safe, SetSize
    PROVE  Safe'
  BY TakenUp DEF SetSize, Idle, Begin, InHand

LEMMA NewFileSafe ==
    ASSUME Typed, Typed', Safe, WriteNewFile
    PROVE  Safe'
  <1>1. /\ op.at = "newfile" /\ op.ino \in Inodes /\ ~ibm[op.ino]
        /\ op'.at = "create" /\ op'.ino = op.ino /\ tmp' = disk[op.ino]
        /\ itype' = [itype EXCEPT ![op.ino] = "file"]
        /\ UNCHANGED <<bm, ibm, disk>>
    BY Working DEF WriteNewFile, Ops, Safe, FreeInodes
  <1>2. \A h \in Holders : Held'[h] = Held[h]
    BY <1>1, Working DEF Held, Holders, InHand
  <1>3. Held' = Held /\ Held[op.ino] = disk[op.ino]
    BY <1>1, <1>2, Working DEF Held, Holders, InHand
  <1>4. Exclusive(Held, bm)' /\ NoHoles'
    BY <1>1, <1>3 DEF Safe, Exclusive, NoHoles
  <1>5. KillLeaves'
    BY <1>1, <1>3 DEF Safe, NoHoles, KillLeaves, Within, Holders
  <1>6. FreeInodes'
    BY <1>1, <1>3, Working DEF Safe, FreeInodes
  <1> QED
    BY <1>4, <1>5, <1>6 DEF Safe

------------------------------------------------------------------------------
(* Making a directory.                                                      *)

\* What the process holds while it makes a directory, and for which inode.
LEMMA Making ==
    ASSUME Typed, Safe, op.at \in {"newdir", "dirblock"}
    PROVE  /\ Held[op.ino] = tmp
           /\ \A s \in Slots : s # 0 => tmp[s] = FreeLink
           /\ op.ino # 0 => /\ op.ino \in Inodes /\ disk[op.ino] = NoLinks
                            /\ itype[op.ino] = "free" /\ ~ibm[op.ino]
           /\ \A h \in Holders : h # op.ino =>
                Held[h] = IF h = 0 THEN NoLinks ELSE disk[h]
  <1>1. Held[op.ino] = tmp
    BY Working DEF Held, InHand
  <1>2. \A s \in Slots : s # 0 => tmp[s] = FreeLink
    BY DEF Typed, OpOK, NoLinks
  <1>3. op.ino # 0 => /\ op.ino \in Inodes /\ disk[op.ino] = NoLinks
                      /\ itype[op.ino] = "free" /\ ~ibm[op.ino]
    BY Working DEF Safe, KillLeaves, FreeInodes, Holders
  <1> QED
    BY <1>1, <1>2, <1>3 DEF Held

LEMMA TakeDirBlockSafe ==
    ASSUME Typed, Typed', Safe, TakeDirBlock
    PROVE  Safe'
  <1>1. /\ op.at = "newdir" /\ op'.at = "dirblock" /\ op'.ino = op.ino
        /\ UNCHANGED <<ibm, disk, itype>>
    BY Working DEF TakeDirBlock, Ops
  <1>2. KillLeaves'
    BY <1>1 DEF Safe, KillLeaves
  <1>3. \A h \in Holders : h # op.ino => Held'[h] = Held[h]
    BY <1>1 DEF Held, InHand
  <1>4. FreeInodes'
    BY <1>1, <1>3, Making, Working DEF Safe, FreeInodes, Holders
  <1>5. NoHoles'
    <2>1. Filled(tmp')
      BY <1>1, Shape DEF Typed, OpOK, Filled, Slots
    <2>2. Held'[op.ino] = tmp'
      BY <1>1, Working DEF Held, InHand
    <2> QED
      BY <1>1, <1>3, <2>1, <2>2 DEF Safe, NoHoles
  <1>6. Exclusive(Held', bm')
    <2>1. CASE UNCHANGED <<bm, tmp>>
      <3>1. \A h \in Holders : Held'[h] = Held[h]
        BY <1>1, <1>3, <2>1, Working DEF Held, InHand
      <3> QED
        BY <2>1, <3>1 DEF Safe, Exclusive
    <2>2. ASSUME NEW b \in Blocks, bm[b], bm' = [bm EXCEPT ![b] = FALSE],
                 tmp' = [tmp EXCEPT ![0] = b]
          PROVE  Exclusive(Held', bm')
      <3>1. /\ Held \in LinksOf /\ bm \in Maps /\ Exclusive(Held, bm)
            /\ op.ino \in Holders /\ 0 \in Slots
        BY HeldType, Shape, Working DEF Safe
      <3>2. Held' = [Held EXCEPT ![op.ino][0] = b]
        <4>1. \A h \in Holders :
                Held'[h] = IF h = op.ino THEN [Held[h] EXCEPT ![0] = b] ELSE Held[h]
          BY <1>1, <1>3, <2>2, Making DEF Held, InHand
        <4>2. \A h \in Holders : Held'[h] = [Held EXCEPT ![op.ino][0] = b][h]
          BY <3>1, <4>1 DEF LinksOf
        <4>3. Held' = [h \in Holders |-> Held'[h]]
          BY DEF Held
        <4> QED
          BY <3>1, <4>2, <4>3 DEF LinksOf
      <3>3. Exclusive([Held EXCEPT ![op.ino][0] = b], [bm EXCEPT ![b] = FALSE])
        BY <2>2, <3>1, OneMoreLink
      <3> QED
        BY <2>2, <3>2, <3>3
    <2> QED
      BY <2>1, <2>2 DEF TakeDirBlock, FirstFree
  <1> QED
    BY <1>2, <1>4, <1>5, <1>6 DEF Safe, Exclusive

LEMMA NewDirSafe ==
    ASSUME Typed, Typed', Safe, WriteNewDir
    PROVE  Safe'
  <1>1. /\ op.at = "dirblock" /\ op'.at = "attach" /\ op.ino \in Inodes
        /\ disk' = [disk EXCEPT ![op.ino][0] = tmp[0]]
        /\ itype' = [itype EXCEPT ![op.ino] = "dirc"]
        /\ UNCHANGED <<bm, ibm>>
    BY Working DEF WriteNewDir, Ops, Holders
  <1>2. disk'[op.ino] = tmp
    <2>1. disk'[op.ino] = [NoLinks EXCEPT ![0] = tmp[0]]
      BY <1>1, Making, Working
    <2>2. \A s \in Slots : disk'[op.ino][s] = tmp[s]
      BY <2>1, <1>1, Making, Shape DEF NoLinks
    <2> QED
      BY <2>1, <2>2, Working DEF NoLinks
  <1>3. \A h \in Holders : Held'[h] = Held[h]
    BY <1>1, <1>2, Making, Working DEF Held, InHand, Holders
  <1>4. Held' = Held
    BY <1>3 DEF Held
  <1>5. Exclusive(Held, bm)' /\ NoHoles' /\ KillLeaves'
    BY <1>1, <1>4 DEF Safe, Exclusive, NoHoles, KillLeaves
  <1>6. FreeInodes'
    BY <1>1, <1>4, Making, Working DEF Safe, FreeInodes
  <1> QED
    BY <1>5, <1>6 DEF Safe

LEMMA GiveBackSafe ==
    ASSUME Typed, Typed', Safe, GiveBackDir
    PROVE  Safe'
  <1>1. /\ op.at = "dirblock" /\ op'.at = "attach"
        /\ ibm' = [i \in Inodes |-> ibm[i] \/ i = op.ino]
        /\ bm' = [b \in Blocks |-> bm[b] \/ b = tmp[0]]
        /\ op.ino = 0 \/ tmp[0] = FreeLink
        /\ UNCHANGED <<disk, itype>>
    BY Working DEF GiveBackDir, Ops
  <1>2. \A h \in Holders :
          Held'[h] = IF h = op.ino THEN NoLinks ELSE Held[h]
    BY <1>1, Making, Working DEF Held, InHand, Holders
  <1>3. Exclusive(Held', bm')
    <2>1. Held \in LinksOf /\ Held' \in LinksOf /\ bm \in Maps /\ bm' \in Maps
      BY HeldType
    <2>2. \A h \in Holders : Within(Held'[h], Held[h])
      BY <1>2 DEF Within, NoLinks
    <2>3. ASSUME NEW h \in Holders, NEW s \in Slots,
                 Held'[h][s] # FreeLink, bm'[Held'[h][s]]
          PROVE  bm[Held'[h][s]]
      <3>1. h # op.ino /\ Held'[h][s] = Held[h][s]
        BY <1>2, <2>3 DEF NoLinks
      <3>2. Held[h][s] \in Blocks
        BY <2>1, <2>3, <3>1 DEF LinksOf, Links
      <3>3. Held[h][s] # tmp[0]
        BY <1>1, <2>3, <3>1, Making, Shape, Working DEF Safe, Exclusive
      <3> QED
        BY <1>1, <2>3, <3>1, <3>2, <3>3
    <2> QED
      BY <2>1, <2>2, <2>3, FewerLinks DEF Safe
  <1>4. NoHoles'
    BY <1>1, <1>2, NoLinksFilled DEF Safe, NoHoles
  <1>5. KillLeaves'
    BY <1>1 DEF KillLeaves
  <1>6. FreeInodes'
    BY <1>1, <1>2, Making, Working DEF Safe, FreeInodes, Holders
  <1> QED
    BY <1>3, <1>4, <1>5, <1>6 DEF Safe, Exclusive

------------------------------------------------------------------------------
(* Creating links.                                                          *)

\* Every deep slot is a slot, and what is below it follows it.
LEMMA DeepShape ==
    /\ Deep \subseteq Slots
    /\ \A d \in Deep, u, v \in Slots :
         u < v /\ v \in Below(d) /\ u \notin Below(d) => u <= d
  <1>1. CountLinks \in Nat /\ CountLinks > 0 /\ CountDirect \in Nat
    BY SpaceAssumption
  <1>2. ASSUME NEW k \in 0 .. CountLinks - 1
        PROVE  Sub(k) \in Nat /\ Sub(k) < SlotCount
    <2>1. k \in Nat /\ k + 1 <= CountLinks
      BY <1>1
    <2>2. PICK c \in Nat : c = CountLinks + 1
      BY <1>1
    <2>3. k * c \in Nat /\ CountLinks * c \in Nat /\ k * c <= CountLinks * c
          /\ (k + 1) * c = k * c + c /\ (k + 1) * c <= CountLinks * c
      BY <1>1, <2>1, <2>2
    <2>4. Double \in Nat
      BY <1>1 DEF Double, Single
    <2> QED
      BY <1>1, <2>2, <2>3, <2>4 DEF Sub, SlotCount
  <1>3. Subs \subseteq Slots
    BY <1>2, Shape DEF Subs, Slots
  <1>4. Deep \subseteq Slots
    BY <1>3, Shape DEF Deep
  <1>5. \A d \in Deep : d \in Nat /\ LastBelow(d) \in Int
    BY <1>1, <1>4, Shape DEF LastBelow, Slots
  <1> QED
    BY <1>4, <1>5, Shape DEF Below

LEMMA Creating ==
    ASSUME Typed, Safe, op.at = "create"
    PROVE  /\ op.ino \in Inodes /\ op.ino \in Holders /\ op.ino # 0
           /\ Held[op.ino] = tmp /\ Filled(tmp)
           /\ \A h \in Holders : h # op.ino =>
                Held[h] = IF h = 0 THEN NoLinks ELSE disk[h]
           /\ Within(disk[op.ino], tmp) /\ Filled(disk[op.ino])
           /\ ~ibm[op.ino] /\ itype[op.ino] # "free"
           /\ \A i \in Inodes : ibm[i] => itype[i] = "free"
  <1>1. op.ino \in Inodes /\ op.ino \in Holders /\ op.ino # 0
    BY Working DEF Holders
  <1>2. Held[op.ino] = tmp /\ Filled(tmp)
    BY <1>1 DEF Held, InHand, Safe, NoHoles
  <1> QED
    BY <1>1, <1>2 DEF Held, Safe, KillLeaves, FreeInodes

LEMMA AllocSafe ==
    ASSUME Typed, Typed', Safe, AllocLink
    PROVE  Safe'
  <1>1. /\ op.at = "create" /\ op'.at = "create" /\ op'.ino = op.ino
        /\ UNCHANGED <<ibm, disk, itype>>
    BY Working, CountedType DEF AllocLink, Ops
  <1>2. PICK s \in Slots, b \in Blocks :
          /\ IsNextSlot(tmp, s) /\ bm[b]
          /\ bm' = [bm EXCEPT ![b] = FALSE] /\ tmp' = [tmp EXCEPT ![s] = b]
    BY DEF AllocLink, FirstFree
  <1>3. tmp[s] = FreeLink /\ \A u \in Slots : u < s => tmp[u] # FreeLink
    BY <1>2 DEF IsNextSlot
  <1>4. /\ b # FreeLink
        /\ \A u \in Slots : tmp'[u] = IF u = s THEN b ELSE tmp[u]
    BY <1>2, Constants, Working
  <1>5. \A h \in Holders :
          Held'[h] = IF h = op.ino THEN [Held[h] EXCEPT ![s] = b] ELSE Held[h]
    BY <1>1, <1>2, Creating DEF Held, InHand
  <1>6. Exclusive(Held', bm')
    <2>1. Held \in LinksOf /\ bm \in Maps /\ Exclusive(Held, bm) /\ op.ino \in Holders
      BY <1>1, HeldType, Creating DEF Safe
    <2>2. Held' = [Held EXCEPT ![op.ino][s] = b]
      <3>1. \A h \in Holders : Held'[h] = [Held EXCEPT ![op.ino][s] = b][h]
        BY <1>5, <2>1 DEF LinksOf
      <3>2. Held' = [h \in Holders |-> Held'[h]]
        BY DEF Held
      <3> QED
        BY <2>1, <3>1, <3>2 DEF LinksOf
    <2>3. Exclusive([Held EXCEPT ![op.ino][s] = b], [bm EXCEPT ![b] = FALSE])
      BY <1>2, <2>1, OneMoreLink
    <2> QED
      BY <1>2, <2>2, <2>3
  <1>7. NoHoles'
    <2>1. Filled(tmp')
      BY <1>1, <1>3, <1>4, Creating DEF Filled
    <2>2. Held'[op.ino] = tmp'
      BY <1>1, Creating DEF Held, InHand
    <2> QED
      BY <1>1, <1>5, <2>1, <2>2 DEF Safe, NoHoles
  <1>8. KillLeaves'
    <2>1. Within(disk[op.ino], tmp')
      BY <1>1, <1>3, <1>4, Creating DEF Within
    <2> QED
      BY <1>1, <2>1, Creating DEF KillLeaves
  <1>9. FreeInodes'
    BY <1>1, <1>5, Creating DEF Safe, FreeInodes, Holders
  <1> QED
    BY <1>6, <1>7, <1>8, <1>9 DEF Safe, Exclusive

LEMMA FlushSafe ==
    ASSUME Typed, Typed', Safe, FlushLinks
    PROVE  Safe'
  <1>1. /\ op.at \in {"create", "shrink"} /\ op.ino \in Inodes
        /\ UNCHANGED <<bm, ibm, itype, tmp, op>>
    BY Working DEF FlushLinks
  <1>2. PICK d \in Deep :
          /\ tmp[d] # FreeLink /\ disk[op.ino][d] = tmp[d]
          /\ disk' = [disk EXCEPT ![op.ino] =
                        [s \in Slots |-> IF s \in Below(d) THEN tmp[s]
                                         ELSE disk[op.ino][s]]]
    BY DEF FlushLinks, FlushDue, Dirty
  <1>3. \A h \in Holders : Held'[h] = Held[h]
    BY <1>1, <1>2, Working DEF Held, InHand, Holders
  <1>4. Held' = Held
    BY <1>3 DEF Held
  <1>5. KillLeaves'
    <2> SUFFICES ASSUME op.at = "create"
                 PROVE  Within(disk'[op.ino], tmp) /\ Filled(disk'[op.ino])
      BY <1>1 DEF KillLeaves
    <2>1. \A s \in Slots :
            disk'[op.ino][s] = IF s \in Below(d) THEN tmp[s] ELSE disk[op.ino][s]
      BY <1>1, <1>2, Working
    <2>2. Within(disk[op.ino], tmp) /\ Filled(disk[op.ino]) /\ Filled(tmp)
      BY Creating
    <2>3. Within(disk'[op.ino], tmp)
      BY <2>1, <2>2 DEF Within
    <2>4. ASSUME NEW s \in Slots, NEW u \in Slots, u < s,
                 disk'[op.ino][s] # FreeLink
          PROVE  disk'[op.ino][u] # FreeLink
      <3>1. tmp[u] # FreeLink
        BY <2>2, <2>3, <2>4 DEF Within, Filled
      <3>2. CASE u \in Below(d)
        BY <2>1, <3>1, <3>2
      <3>3. CASE u \notin Below(d) /\ s \notin Below(d)
        BY <2>1, <2>2, <2>4, <3>3 DEF Filled
      <3>4. CASE u \notin Below(d) /\ s \in Below(d)
        <4>1. u <= d /\ d \in Slots
          BY <2>4, <3>4, DeepShape
        <4>2. disk[op.ino][u] # FreeLink
          BY <1>2, <2>2, <4>1, Shape DEF Filled
        <4> QED
          BY <2>1, <3>4, <4>2
      <3> QED
        BY <3>2, <3>3, <3>4
    <2> QED
      BY <2>3, <2>4 DEF Filled
  <1>6. Exclusive(Held, bm)' /\ NoHoles'
    BY <1>1, <1>4 DEF Safe, Exclusive, NoHoles
  <1>7. FreeInodes'
    BY <1>1, <1>2, <1>4, Working DEF Safe, FreeInodes
  <1> QED
    BY <1>5, <1>6, <1>7 DEF Safe

LEMMA CreateDoneSafe ==
    ASSUME Typed, Typed', Safe, CreateDone
    PROVE  Safe'
  <1>1. op.at = "create" /\ disk' = [disk EXCEPT ![op.ino] = tmp]
        /\ UNCHANGED <<bm, ibm, itype>>
    BY DEF CreateDone
  <1>2. \/ op'.at \in {"attach", "size", "idle"}
        \/ /\ op'.at = "free" /\ op'.ino = op.child /\ op.child # op.ino
           /\ op.child \in Inodes /\ tmp' = disk'[op.child]
    <2>1. op.cmd = "cp" => op.child \in Inodes
      BY <1>1, Working DEF Typed, OpOK, Holders
    <2>2. \/ op' \in {Idle, [op EXCEPT !.at = "attach"], [op EXCEPT !.at = "size"],
                    [op EXCEPT !.at = "size", !.ino = op.child]}
          \/ /\ op.cmd = "cp" /\ op.ino # op.child /\ tmp' = disk'[op.child]
             /\ op' = [op EXCEPT !.at = "free", !.ino = op.child]
      BY DEF CreateDone, Attached, Leave, FreeChild
    <2>3. op' = Idle => op'.at = "idle"
      BY DEF Idle, Begin
    <2> QED
      BY <2>1, <2>2, <2>3, Working DEF Ops
  <1>3. \A h \in Holders : Held'[h] = Held[h]
    BY <1>1, <1>2, Creating, Working DEF Held, InHand, Holders
  <1>4. Held' = Held
    BY <1>3 DEF Held
  <1>5. Exclusive(Held, bm)' /\ NoHoles'
    BY <1>1, <1>4 DEF Safe, Exclusive, NoHoles
  <1>6. KillLeaves'
    BY <1>2 DEF KillLeaves
  <1>7. FreeInodes'
    BY <1>1, <1>2, <1>4, Creating, Working DEF Safe, FreeInodes
  <1> QED
    BY <1>5, <1>6, <1>7 DEF Safe

\* What a failed creation frees, the inode in the file does not link: as links
\* have no hole, no direct link that is new comes before one that is not.
LEMMA FreedIsNew ==
    ASSUME Typed, Safe, op.at = "create",
           NEW s \in Pending \union ResetSlots
    PROVE  s \in Slots /\ disk[op.ino][s] = FreeLink
  <1>1. /\ Within(disk[op.ino], tmp) /\ Filled(disk[op.ino])
    BY Creating
  <1>2. ASSUME NEW u \in Slots, NewTop(u)
        PROVE  disk[op.ino][u] = FreeLink
    BY <1>1, <1>2 DEF Within, NewTop
  <1>3. ASSUME NEW i \in Direct, NewTop(i), NEW u \in Slots, i <= u
        PROVE  disk[op.ino][u] = FreeLink
    BY <1>1, <1>2, <1>3, Shape DEF Filled
  <1>4. \A i \in Direct : \A u \in WordsFrom(i) : i <= u
    BY DEF WordsFrom
  <1>5. CASE s \in Pending
    BY <1>5, DeepShape DEF Pending
  <1>6. CASE s \in {Single, Double} /\ NewTop(s)
    BY <1>2, <1>6, Shape
  <1>7. CASE s \in Direct /\ \E i \in Direct : NewTop(i) /\ s \in WordsFrom(i)
    BY <1>3, <1>4, <1>7, Shape
  <1>8. CASE s \in {Single, Double} /\ \E i \in Direct : NewTop(i)
    BY <1>3, <1>8, Shape
  <1> QED
    BY <1>5, <1>6, <1>7, <1>8 DEF ResetSlots

LEMMA CreateFailSafe ==
    ASSUME Typed, Typed', Safe, CreateFail, StackWords = {}
    PROVE  Safe'
  <1>1. op.at = "create" /\ UNCHANGED <<ibm, disk, itype>>
    BY DEF CreateFail
  <1>2. ASSUME NEW b \in Blocks, bm'[b]
        PROVE  bm[b] \/ \E s \in Pending \union ResetSlots : tmp[s] = b
    BY <1>2 DEF CreateFail
  <1>3. \/ op'.at \in {"size", "idle"}
        \/ /\ op'.at = "free" /\ op'.ino = op.child
           /\ op.child \in Inodes /\ tmp' = disk[op.child]
    <2>1. \/ op' \in {Idle, [op EXCEPT !.at = "size"]}
          \/ /\ op.child \in Inodes /\ tmp' = disk[op.child]
             /\ op' = [op EXCEPT !.at = "free", !.ino = op.child]
      <3>1. CASE op.ino = op.child /\ FreeChild(disk)
        BY <1>1, <3>1, Creating DEF FreeChild
      <3>2. CASE op' = [op EXCEPT !.at = "size"]
        BY <3>2
      <3>3. CASE NotAttached(disk)
        BY <3>3, Working DEF NotAttached, Leave, FreeChild, Holders
      <3> QED
        BY <3>1, <3>2, <3>3 DEF CreateFail
    <2>2. op' = Idle => op'.at = "idle"
      BY DEF Idle, Begin
    <2> QED
      BY <2>1, <2>2, Working DEF Ops
  <1>4. \A h \in Holders :
          Held'[h] = IF h = op.ino THEN disk[op.ino] ELSE Held[h]
    BY <1>1, <1>3, Creating, Working DEF Held, InHand, Holders
  <1>5. \A h \in Holders : Within(Held'[h], Held[h])
    BY <1>1, <1>4, Creating DEF Within
  <1>6. Exclusive(Held', bm')
    <2>1. ASSUME NEW h \in Holders, NEW s \in Slots,
                 Held'[h][s] # FreeLink, bm'[Held'[h][s]]
          PROVE  bm[Held'[h][s]]
      <3>1. Held'[h][s] = Held[h][s] /\ Held[h][s] \in Blocks
        BY <1>5, <2>1, HeldType DEF Within, LinksOf, Links
      <3>2. ASSUME NEW u \in Pending \union ResetSlots, tmp[u] = Held[h][s]
            PROVE  FALSE
        <4>1. u \in Slots /\ disk[op.ino][u] = FreeLink
          BY <1>1, FreedIsNew
        <4>2. h = op.ino /\ s = u
          BY <1>1, <2>1, <3>1, <3>2, <4>1, Creating DEF Safe, Exclusive
        <4> QED
          BY <1>4, <2>1, <4>1, <4>2
      <3> QED
        BY <1>2, <2>1, <3>1, <3>2
    <2> QED
      BY <1>5, <2>1, HeldType, FewerLinks DEF Safe
  <1>7. NoHoles'
    BY <1>1, <1>4, Creating DEF Safe, NoHoles
  <1>8. KillLeaves'
    BY <1>3 DEF KillLeaves
  <1>9. FreeInodes'
    BY <1>1, <1>3, <1>4, Creating DEF Safe, FreeInodes, Holders
  <1> QED
    BY <1>6, <1>7, <1>8, <1>9 DEF Safe, Exclusive

------------------------------------------------------------------------------
(* Freeing links and inodes.                                                *)

LEMMA FreeSlotSafe ==
    ASSUME Typed, Typed', Safe, NEW s \in Slots, FreeLast(s) \/ FreeNext(s)
    PROVE  Safe'
  <1>1. /\ op.at \in {"shrink", "free"} /\ op.ino \in Inodes
        /\ FreeSlot(s) /\ tmp[s] # FreeLink
        /\ op.at = "shrink" => LastUsed(s)
        /\ UNCHANGED <<ibm, itype>>
    BY Working DEF FreeLast, FreeNext, CanFree, LastUsed, UsedSlots
  <1>2. op'.at = op.at /\ op'.ino = op.ino
    BY Working, CountedType DEF FreeLast, FreeNext
  <1>3. \A u \in Slots : tmp'[u] = IF u = s THEN FreeLink ELSE tmp[u]
    BY <1>1, Working DEF FreeSlot
  <1>4. \A i \in Inodes : i # op.ino => disk'[i] = disk[i]
    BY <1>1, Working DEF FreeSlot, Zeroed
  <1>5. \A h \in Holders : Held'[h] = IF h = op.ino THEN tmp' ELSE Held[h]
    BY <1>1, <1>2, <1>4, Working DEF Held, InHand, Holders
  <1>6. Held[op.ino] = tmp
    BY <1>1 DEF Held, InHand, Holders
  <1>7. \A h \in Holders : Within(Held'[h], Held[h])
    BY <1>3, <1>5, <1>6 DEF Within
  <1>8. Exclusive(Held', bm')
    <2>1. ASSUME NEW h \in Holders, NEW u \in Slots,
                 Held'[h][u] # FreeLink, bm'[Held'[h][u]]
          PROVE  bm[Held'[h][u]]
      <3>1. Held'[h][u] = Held[h][u] /\ Held[h][u] \in Blocks
        BY <1>7, <2>1, HeldType DEF Within, LinksOf, Links
      <3>2. ~(h = op.ino /\ u = s)
        BY <1>3, <1>5, <2>1
      <3>3. Held[h][u] # tmp[s]
        BY <1>1, <1>6, <2>1, <3>1, <3>2, Working DEF Safe, Exclusive, Holders
      <3> QED
        BY <1>1, <2>1, <3>1, <3>3, Working DEF FreeSlot, Maps
    <2> QED
      BY <1>7, <2>1, HeldType, FewerLinks DEF Safe
  <1>9. NoHoles'
    <2>1. op.at = "shrink" => Filled(tmp')
      <3> SUFFICES ASSUME op.at = "shrink", NEW v \in Slots, NEW u \in Slots,
                          u < v, tmp'[v] # FreeLink
                   PROVE  tmp'[u] # FreeLink
        BY DEF Filled
      <3>1. v # s /\ tmp[v] # FreeLink
        BY <1>3
      <3>2. v <= s
        BY <1>1, <3>1 DEF LastUsed, UsedSlots
      <3>3. u # s
        BY <3>1, <3>2, Shape
      <3>4. Filled(tmp)
        BY <1>1, <1>6 DEF Safe, NoHoles, Holders
      <3> QED
        BY <1>3, <3>1, <3>3, <3>4 DEF Filled
    <2> QED
      BY <1>1, <1>2, <1>5, <2>1 DEF Safe, NoHoles
  <1>10. KillLeaves'
    BY <1>1, <1>2 DEF KillLeaves
  <1>11. FreeInodes'
    <2>1. disk[op.ino] = NoLinks => disk'[op.ino] = NoLinks
      BY <1>1, Working DEF FreeSlot, Zeroed, NoLinks
    <2>2. ~ibm[op.ino]
      BY <1>1, <1>6 DEF Safe, FreeInodes, NoLinks
    <2> QED
      BY <1>1, <1>2, <1>4, <1>5, <2>1, <2>2 DEF Safe, FreeInodes, Holders
  <1> QED
    BY <1>8, <1>9, <1>10, <1>11 DEF Safe, Exclusive

LEMMA ShrinkDoneSafe ==
    ASSUME Typed, Typed', Safe, ShrinkDone
    PROVE  Safe'
  <1>1. /\ op.at = "shrink" /\ op.ino \in Inodes /\ op'.at = "size"
        /\ disk' = [disk EXCEPT ![op.ino] = tmp]
        /\ UNCHANGED <<bm, ibm, itype>>
    BY Working DEF ShrinkDone, Ops
  <1>2. \A h \in Holders : Held'[h] = Held[h]
    BY <1>1, Working DEF Held, InHand, Holders
  <1>3. Held' = Held
    BY <1>2 DEF Held
  <1>4. Exclusive(Held, bm)' /\ NoHoles'
    BY <1>1, <1>3 DEF Safe, Exclusive, NoHoles
  <1>5. KillLeaves'
    BY <1>1 DEF KillLeaves
  <1>6. FreeInodes'
    BY <1>1, <1>3, Working DEF Safe, FreeInodes
  <1> QED
    BY <1>4, <1>5, <1>6 DEF Safe

LEMMA FreeBitSafe ==
    ASSUME Typed, Typed', Safe, FreeBit
    PROVE  Safe'
  <1>1. /\ op.at = "free" /\ op.ino \in Inodes
        /\ op'.at = "clear" /\ op'.ino = op.ino
        /\ ibm' = [ibm EXCEPT ![op.ino] = TRUE]
        /\ UNCHANGED <<bm, disk, itype, tmp>>
    BY Working DEF FreeBit, Ops
  <1>2. \A h \in Holders : Held'[h] = Held[h]
    BY <1>1 DEF Held, InHand
  <1>3. Held' = Held
    BY <1>2 DEF Held
  <1>4. Held[op.ino] = NoLinks
    <2>1. \A s \in Slots : tmp[s] = FreeLink
      BY DEF FreeBit, UsedSlots
    <2>2. tmp = NoLinks
      BY <2>1, Working DEF NoLinks
    <2> QED
      BY <1>1, <2>2 DEF Held, InHand, Holders
  <1>5. Exclusive(Held, bm)' /\ NoHoles'
    BY <1>1, <1>3, <1>4, NoLinksFilled DEF Safe, Exclusive, NoHoles
  <1>6. KillLeaves'
    BY <1>1 DEF KillLeaves
  <1>7. FreeInodes'
    BY <1>1, <1>3, <1>4, Working DEF Safe, FreeInodes
  <1> QED
    BY <1>5, <1>6, <1>7 DEF Safe

LEMMA ClearSafe ==
    ASSUME Typed, Typed', Safe, ClearInode
    PROVE  Safe'
  <1>1. /\ op.at = "clear" /\ op.ino \in Inodes /\ op'.at = "idle"
        /\ disk' = [disk EXCEPT ![op.ino] = NoLinks]
        /\ itype' = [itype EXCEPT ![op.ino] = "free"]
        /\ UNCHANGED <<bm, ibm>>
    BY Working DEF ClearInode, Leave, Idle, Begin
  <1>2. \A h \in Holders :
          Held'[h] = IF h = op.ino THEN NoLinks ELSE Held[h]
    BY <1>1, Working DEF Held, InHand, Holders
  <1>3. Exclusive(Held', bm')
    <2>1. \A h \in Holders : Within(Held'[h], Held[h])
      BY <1>2 DEF Within, NoLinks
    <2> QED
      BY <1>1, <2>1, HeldType, FewerLinks DEF Safe
  <1>4. NoHoles'
    BY <1>1, <1>2, NoLinksFilled DEF Safe, NoHoles
  <1>5. KillLeaves'
    BY <1>1 DEF KillLeaves
  <1>6. FreeInodes'
    BY <1>1, <1>2, Working DEF Safe, FreeInodes, Holders
  <1> QED
    BY <1>3, <1>4, <1>5, <1>6 DEF Safe, Exclusive

------------------------------------------------------------------------------
(* Kills.                                                                   *)

LEMMA CrashSafe ==
    ASSUME Typed, Typed', Safe, Crash, ~torn'
    PROVE  Safe'
  <1>1. /\ op.at \notin {"shrink", "free", "clear"}
        /\ op'.at = "idle" /\ UNCHANGED <<bm, ibm, disk, itype>>
    BY DEF Crash, Leave, Idle, Begin
  <1>2. \A h \in Holders : Held'[h] = IF h = 0 THEN NoLinks ELSE disk[h]
    BY <1>1 DEF Held, InHand
  <1>3. ASSUME NEW h \in Holders
        PROVE  Within(Held'[h], Held[h]) /\ Filled(Held'[h])
    <2>1. CASE InHand /\ op.ino = h /\ op.at = "create"
      BY <1>2, <2>1, Creating
    <2>2. CASE InHand /\ op.ino = h /\ op.at # "create"
      <3>1. Held'[h] = NoLinks
        BY <1>1, <1>2, <2>2 DEF InHand, Safe, KillLeaves
      <3> QED
        BY <3>1, NoLinksFilled DEF Within, NoLinks
    <2>3. CASE ~(InHand /\ op.ino = h)
      <3>1. Held'[h] = Held[h]
        BY <1>2, <2>3 DEF Held
      <3> QED
        BY <1>1, <3>1 DEF Within, Safe, NoHoles
    <2> QED
      BY <2>1, <2>2, <2>3
  <1>4. Exclusive(Held', bm')
    <2>1. \A h \in Holders : Within(Held'[h], Held[h])
      BY <1>3
    <2> QED
      BY <1>1, <2>1, HeldType, FewerLinks DEF Safe
  <1>5. NoHoles'
    BY <1>3 DEF NoHoles
  <1>6. KillLeaves'
    BY <1>1 DEF KillLeaves
  <1>7. FreeInodes'
    <2>1. ASSUME NEW i \in Inodes, ibm[i] PROVE itype[i] = "free"
      BY <1>1, <2>1 DEF Safe, FreeInodes
    <2>2. \A i \in Inodes : Held'[i] = disk[i]
      BY <1>2, Working DEF Holders
    <2> QED
      BY <1>1, <2>1, <2>2 DEF Safe, FreeInodes
  <1> QED
    BY <1>4, <1>5, <1>6, <1>7 DEF Safe, Exclusive

------------------------------------------------------------------------------
(* The invariant and what follows from it.                                  *)

\* A kill that hit a removal is not forgotten.
LEMMA TornStays == ASSUME Next, torn PROVE torn'
  BY DEF Next, Start, StartCopy, StartIncp, StartFile, StartOverwrite,
         StartMkdir, StartMove, StartRemove, Work, WriteNewFile, TakeDirBlock,
         WriteNewDir, GiveBackDir, AttachInPlace, AttachNoParent, AttachGrow,
         AllocLink, FlushLinks, CreateDone, CreateFail, FreeLast, FreeNext,
         ShrinkDone, FreeBit, ClearInode, SetSize, Crash, history

LEMMA NextSafe ==
    ASSUME StackWords = {}, IInv, [Next]_vars
    PROVE  IInv'
  <1>1. Typed /\ Typed'
    BY NextTyped DEF IInv
  <1>2. CASE UNCHANGED vars
    BY <1>1, <1>2 DEF vars, IInv, Safe, Exclusive, NoHoles, KillLeaves, FreeInodes,
                     Held, InHand
  <1>3. CASE Next
    <2> SUFFICES ASSUME ~torn' PROVE Safe'
      BY <1>1 DEF IInv
    <2>1. ~torn
      BY <1>3, TornStays
    <2>2. Safe
      BY <2>1 DEF IInv
    <2>3. CASE Start
      BY <1>1, <2>2, <2>3, StartSafe
    <2>4. CASE Crash
      BY <1>1, <2>2, <2>4, CrashSafe
    <2>5. CASE Work
      BY <1>1, <2>2, <2>5, NewFileSafe, TakeDirBlockSafe, NewDirSafe, GiveBackSafe,
         AttachSafe, AllocSafe, FlushSafe, CreateDoneSafe, CreateFailSafe,
         FreeSlotSafe, ShrinkDoneSafe, FreeBitSafe, ClearSafe, SizeSafe DEF Work
    <2> QED
      BY <1>3, <2>3, <2>4, <2>5 DEF Next
  <1> QED
    BY <1>2, <1>3

LEMMA SafeGives ==
    ASSUME IInv
    PROVE  LinkedIsAllocated /\ LinkedOnce /\ Contiguous /\ FreeInodeLinksNothing
  <1>1. \A i \in Inodes : View(i) = Held[i] /\ i \in Holders
    BY Working DEF IInv, View, Held, Holders
  <1>2. LinkedIsAllocated /\ LinkedOnce
    BY <1>1 DEF IInv, Safe, Exclusive, LinkedIsAllocated, LinkedOnce, Refs
  <1>3. Contiguous
    <2> SUFFICES ASSUME ~torn, NEW i \in Inodes, op.at = "idle",
                        NEW s \in Slots, disk[i][s] # FreeLink, NEW u \in 0 .. s
                 PROVE  disk[i][u] # FreeLink
      BY DEF Contiguous, UsedSlots
    <2>1. Held[i] = disk[i] /\ Filled(Held[i])
      BY <1>1 DEF IInv, Safe, NoHoles, View, InHand
    <2>2. u \in Slots /\ (u < s \/ u = s)
      BY Shape DEF Slots
    <2> QED
      BY <2>1, <2>2 DEF Filled
  <1>4. FreeInodeLinksNothing
    BY DEF IInv, Safe, FreeInodes, FreeInodeLinksNothing, UsedSlots, NoLinks
  <1> QED
    BY <1>2, <1>3, <1>4

LEMMA AlwaysIInv == ASSUME StackWords = {} PROVE Spec => []IInv
  <1>1. Init => IInv
    BY InitTyped, InitSafe DEF IInv
  <1>2. IInv /\ [Next]_vars => IInv'
    BY NextSafe
  <1> QED
    BY <1>1, <1>2, PTL DEF Spec

\* While no kill has hit a removal, no block that an inode links is free: what
\* free_link_() turns on in the bitmap is linked from nowhere else, in every
\* order of creations, failures, rollbacks and kills.
THEOREM LinkedStaysAllocated ==
    ASSUME StackWords = {} PROVE Spec => []LinkedIsAllocated
  <1>1. IInv => LinkedIsAllocated
    BY SafeGives
  <1> QED
    BY AlwaysIInv, <1>1, PTL

\* ... no block is linked from two places: files share no data, and no link
\* block is a data block.
THEOREM NeverLinkedTwice ==
    ASSUME StackWords = {} PROVE Spec => []LinkedOnce
  <1>1. IInv => LinkedOnce
    BY SafeGives
  <1> QED
    BY AlwaysIInv, <1>1, PTL

\* ... the links of an inode have no hole, however often it grew and shrank.
THEOREM NeverAHole ==
    ASSUME StackWords = {} PROVE Spec => []Contiguous
  <1>1. IInv => Contiguous
    BY SafeGives
  <1> QED
    BY AlwaysIInv, <1>1, PTL

\* ... and a free inode links nothing that a new file would inherit.
THEOREM FreeInodesAreEmpty ==
    ASSUME StackWords = {} PROVE Spec => []FreeInodeLinksNothing
  <1>1. IInv => FreeInodeLinksNothing
    BY SafeGives
  <1> QED
    BY AlwaysIInv, <1>1, PTL

------------------------------------------------------------------------------
(* Where the leaves are                                                     *)

\* The slot of leaf j, counted from 0 in the order the leaves are created.
LeafSlot(j) ==
    LET rest == j - CountDirect - CountLinks
    IN  IF j < CountDirect THEN j
        ELSE IF rest < 0 THEN j + 1
        ELSE Sub(rest \div CountLinks) + 1 + (rest % CountLinks)

\* The slots and link blocks n leaves take, in an inode without links.
Need(n) == n + DeepNeeded(n)

LEMMA Numbered ==
    /\ CountDirect \in Nat /\ CountDirect > 0
    /\ CountLinks \in Nat /\ CountLinks > 0
    /\ CountLinks * CountLinks \in Nat
    /\ Capacity = CountDirect + CountLinks + CountLinks * CountLinks
    /\ \A k \in Nat :
         /\ k * CountLinks \in Nat
         /\ Sub(k) = CountDirect + CountLinks + 2 + k * CountLinks + k
  <1>1. /\ CountDirect \in Nat /\ CountDirect > 0
        /\ CountLinks \in Nat /\ CountLinks > 0
        /\ CountLinks * CountLinks \in Nat
    BY SpaceAssumption
  <1>2. ASSUME NEW k \in Nat
        PROVE  /\ k * CountLinks \in Nat
               /\ Sub(k) = CountDirect + CountLinks + 2 + k * CountLinks + k
    <2>1. k * CountLinks \in Nat /\ k * (CountLinks + 1) = k * CountLinks + k
      BY <1>1
    <2> QED
      BY <1>1, <2>1 DEF Sub, Double, Single
  <1> QED
    BY <1>1, <1>2 DEF Capacity

LEMMA SubsGrow ==
    ASSUME NEW k \in Nat, NEW m \in Nat, k < m
    PROVE  Sub(k) + CountLinks + 1 <= Sub(m)
  <1>1. (k + 1) * CountLinks <= m * CountLinks
    BY Numbered, MulMonotone
  <1>2. (k + 1) * CountLinks = k * CountLinks + CountLinks
    BY Numbered
  <1>3. /\ k * CountLinks \in Nat /\ m * CountLinks \in Nat
        /\ CountDirect \in Nat /\ CountLinks \in Nat
        /\ Sub(k) = CountDirect + CountLinks + 2 + k * CountLinks + k
        /\ Sub(m) = CountDirect + CountLinks + 2 + m * CountLinks + m
    BY Numbered
  <1> QED
    BY <1>1, <1>2, <1>3

\* A leaf is a direct link, a link of the single indirect block, or link r of
\* block q below the double indirect block.
IsDirect(j, s) == j < CountDirect /\ s = j

IsSingle(j, s) == CountDirect <= j /\ j < CountDirect + CountLinks /\ s = j + 1

IsDouble(j, s, q, r) ==
    /\ q \in 0 .. CountLinks - 1 /\ r \in 0 .. CountLinks - 1
    /\ j = CountDirect + CountLinks + q * CountLinks + r
    /\ s = Sub(q) + 1 + r

LEMMA LeafCases ==
    ASSUME NEW j \in 0 .. Capacity - 1
    PROVE  \/ IsDirect(j, LeafSlot(j))
           \/ IsSingle(j, LeafSlot(j))
           \/ \E q, r \in Nat : IsDouble(j, LeafSlot(j), q, r)
  <1> DEFINE rest == j - CountDirect - CountLinks
  <1>1. j \in Nat /\ j < Capacity
    BY Numbered
  <1>2. CASE j < CountDirect
    BY <1>2 DEF LeafSlot, IsDirect
  <1>3. CASE CountDirect <= j /\ rest < 0
    BY <1>1, <1>3, Numbered DEF LeafSlot, IsSingle
  <1>4. CASE CountDirect <= j /\ rest >= 0
    <2> DEFINE q == rest \div CountLinks
               r == rest % CountLinks
    <2>1. rest \in Nat /\ rest < CountLinks * CountLinks
      BY <1>1, <1>4, Numbered
    <2>2. q \in Int /\ r \in 0 .. CountLinks - 1 /\ rest = CountLinks * q + r
      BY <2>1, Numbered, DivMod
    <2>3. LeafSlot(j) = Sub(q) + 1 + r
      BY <1>1, <1>4, Numbered DEF LeafSlot
    <2> HIDE DEF q, r, rest
    <2>4. q >= 0
      <3> SUFFICES ASSUME q + 1 <= 0 PROVE FALSE
        BY <2>2
      <3>1. CountLinks * q <= -CountLinks
        BY <2>2, Numbered, SMT
      <3> QED
        BY <2>1, <2>2, <3>1, Numbered
    <2>5. q < CountLinks
      <3> SUFFICES ASSUME CountLinks <= q PROVE FALSE
        BY <2>2, Numbered
      <3>1. CountLinks * CountLinks <= q * CountLinks
        BY <2>2, <2>4, Numbered, MulMonotone
      <3>2. q * CountLinks = CountLinks * q /\ q * CountLinks \in Nat
        BY <2>2, <2>4, Numbered
      <3> QED
        BY <2>1, <2>2, <3>1, <3>2, Numbered
    <2>6. q * CountLinks = CountLinks * q /\ q \in Nat /\ r \in Nat
      BY <2>2, <2>4, Numbered
    <2>7. j = CountDirect + CountLinks + q * CountLinks + r
      <3>1. j = CountDirect + CountLinks + rest
        BY <1>1, Numbered DEF rest
      <3>2. CountLinks * q \in Nat
        BY <2>6, Numbered
      <3> QED
        BY <2>2, <2>6, <3>1, <3>2, Numbered
    <2>8. IsDouble(j, LeafSlot(j), q, r)
      BY <2>2, <2>3, <2>4, <2>5, <2>7, Numbered DEF IsDouble
    <2> QED
      BY <2>6, <2>8
  <1> QED
    BY <1>1, <1>2, <1>3, <1>4, Numbered

\* Later leaves have later slots.
LEMMA LeafSlotsGrow ==
    ASSUME NEW i \in 0 .. Capacity - 1, NEW j \in 0 .. Capacity - 1, i < j
    PROVE  LeafSlot(i) < LeafSlot(j)
  <1>1. i \in Nat /\ j \in Nat
    BY Numbered
  <1>2. CASE IsDirect(i, LeafSlot(i)) \/ IsSingle(i, LeafSlot(i))
    <2>1. LeafSlot(i) <= i + 1 /\ LeafSlot(i) \in Nat
          /\ (i < CountDirect => LeafSlot(i) = i)
      BY <1>1, <1>2, Numbered DEF IsDirect, IsSingle
    <2>2. CASE IsDirect(j, LeafSlot(j)) \/ IsSingle(j, LeafSlot(j))
      BY <1>1, <2>1, <2>2, Numbered DEF IsDirect, IsSingle
    <2>3. ASSUME NEW q \in Nat, NEW r \in Nat, IsDouble(j, LeafSlot(j), q, r)
          PROVE  LeafSlot(i) < LeafSlot(j)
      <3>1. /\ j = CountDirect + CountLinks + q * CountLinks + r
            /\ LeafSlot(j) = CountDirect + CountLinks + 2 + q * CountLinks + q + 1 + r
            /\ q * CountLinks \in Nat /\ CountDirect \in Nat /\ CountLinks \in Nat
        BY <2>3, Numbered DEF IsDouble
      <3> QED
        BY <1>1, <2>1, <3>1
    <2> QED
      BY <2>2, <2>3, LeafCases
  <1>3. ASSUME NEW q \in Nat, NEW r \in Nat, IsDouble(i, LeafSlot(i), q, r)
        PROVE  LeafSlot(i) < LeafSlot(j)
    <2>1. /\ i = CountDirect + CountLinks + q * CountLinks + r
          /\ LeafSlot(i) = Sub(q) + 1 + r
          /\ r < CountLinks
          /\ q * CountLinks \in Nat /\ CountDirect \in Nat /\ CountLinks \in Nat
          /\ Sub(q) = CountDirect + CountLinks + 2 + q * CountLinks + q
      BY <1>3, Numbered DEF IsDouble
    <2>2. ~IsDirect(j, LeafSlot(j)) /\ ~IsSingle(j, LeafSlot(j))
      BY <1>1, <2>1 DEF IsDirect, IsSingle
    <2>3. PICK p \in Nat, o \in Nat : IsDouble(j, LeafSlot(j), p, o)
      BY <2>2, LeafCases
    <2>4. /\ j = CountDirect + CountLinks + p * CountLinks + o
          /\ LeafSlot(j) = Sub(p) + 1 + o
          /\ o < CountLinks
          /\ p * CountLinks \in Nat
          /\ Sub(p) = CountDirect + CountLinks + 2 + p * CountLinks + p
      BY <2>3, Numbered DEF IsDouble
    <2>5. CASE q = p
      BY <1>1, <2>1, <2>4, <2>5
    <2>6. CASE q < p
      <3>1. Sub(q) + CountLinks + 1 <= Sub(p)
        BY <2>6, SubsGrow
      <3> QED
        BY <2>1, <2>4, <3>1
    <2>7. CASE p < q
      <3>1. (p + 1) * CountLinks <= q * CountLinks
        BY <2>1, <2>7, MulMonotone
      <3>2. (p + 1) * CountLinks = p * CountLinks + CountLinks
        BY <2>1
      <3> QED
        BY <1>1, <2>1, <2>4, <3>1, <3>2
    <2> QED
      BY <2>5, <2>6, <2>7
  <1> QED
    BY <1>2, <1>3, LeafCases

LEMMA LeafSlotIsLeaf ==
    ASSUME NEW j \in 0 .. Capacity - 1
    PROVE  LeafSlot(j) \in Slots \ Deep
  <1> DEFINE s == LeafSlot(j)
  <1>1. /\ j \in Nat /\ SlotCount = Sub(CountLinks)
        /\ CountDirect \in Nat /\ CountLinks \in Nat /\ CountDirect > 0 /\ CountLinks > 0
        /\ Single = CountDirect /\ Double = CountDirect + CountLinks + 1
        /\ \A k \in Nat : Sub(k) \in Nat /\ Sub(k) > Double
    <2>1. ASSUME NEW k \in Nat PROVE Sub(k) \in Nat /\ Sub(k) > Double
      <3>1. /\ k * CountLinks \in Nat
            /\ Sub(k) = CountDirect + CountLinks + 2 + k * CountLinks + k
            /\ CountDirect \in Nat /\ CountLinks \in Nat
        BY Numbered
      <3> QED
        BY <3>1 DEF Double, Single
    <2> QED
      BY <2>1, Numbered DEF SlotCount, Double, Single
  <1>2. \A d \in Deep : d = Single \/ d = Double \/ \E k \in 0 .. CountLinks - 1 : d = Sub(k)
    BY DEF Deep, Subs
  <1>3. CASE IsDirect(j, s) \/ IsSingle(j, s)
    <2>1. s \in Nat /\ s # Single /\ s < Double
      BY <1>1, <1>3 DEF IsDirect, IsSingle
    <2>2. s < SlotCount
      BY <1>1, <2>1
    <2> QED
      BY <1>1, <1>2, <2>1, <2>2 DEF Slots
  <1>4. ASSUME NEW q \in Nat, NEW r \in Nat, IsDouble(j, s, q, r)
        PROVE  s \in Slots \ Deep
    <2>1. /\ q < CountLinks /\ r < CountLinks /\ s = Sub(q) + 1 + r
          /\ s \in Nat /\ s > Double /\ Double > Single
      BY <1>1, <1>4 DEF IsDouble
    <2>2. s < SlotCount
      <3>1. Sub(q) + CountLinks + 1 <= Sub(CountLinks)
        BY <1>1, <2>1, SubsGrow
      <3> QED
        BY <1>1, <2>1, <3>1
    <2>3. ASSUME NEW k \in 0 .. CountLinks - 1, s = Sub(k) PROVE FALSE
      <3>1. k \in Nat /\ Sub(k) \in Nat /\ Sub(q) \in Nat
        BY <1>1
      <3>2. CASE k < q
        <4>1. Sub(k) + CountLinks + 1 <= Sub(q)
          BY <3>1, <3>2, SubsGrow
        <4> QED
          BY <1>1, <2>1, <2>3, <3>1, <4>1
      <3>3. CASE q < k
        <4>1. Sub(q) + CountLinks + 1 <= Sub(k)
          BY <3>1, <3>3, SubsGrow
        <4> QED
          BY <1>1, <2>1, <2>3, <3>1, <4>1
      <3>4. CASE k = q
        BY <2>1, <2>3, <3>1, <3>4
      <3> QED
        BY <3>1, <3>2, <3>3, <3>4
    <2> QED
      BY <1>2, <2>1, <2>2, <2>3, <1>1 DEF Slots
  <1> QED
    BY <1>3, <1>4, LeafCases

------------------------------------------------------------------------------
(* What n leaves take                                                       *)

LEMMA SubsNeededType ==
    ASSUME NEW n \in Nat
    PROVE  /\ IsFiniteSet(SubsNeeded(n)) /\ Cardinality(SubsNeeded(n)) \in Nat
           /\ DeepNeeded(n) \in Nat /\ Need(n) \in Nat
  <1>1. IsFiniteSet(SubsNeeded(n))
    <2>1. IsFiniteSet(0 .. CountLinks - 1)
      BY Numbered, FS_Interval
    <2>2. SubsNeeded(n) \subseteq 0 .. CountLinks - 1
      BY DEF SubsNeeded
    <2> QED
      BY <2>1, <2>2, FS_Subset
  <1>2. Cardinality(SubsNeeded(n)) \in Nat
    BY <1>1, FS_CardinalityType
  <1> QED
    BY <1>1, <1>2 DEF DeepNeeded, Need

\* The slots up to that of leaf j are needed for j + 1 leaves.
LEMMA LeafSlotNeeds ==
    ASSUME NEW j \in 0 .. Capacity - 1
    PROVE  LeafSlot(j) + 1 <= Need(j + 1)
  <1> DEFINE n == j + 1
  <1>1. j \in Nat /\ n \in Nat /\ CountDirect \in Nat /\ CountLinks \in Nat
    BY Numbered
  <1>2. /\ IsFiniteSet(SubsNeeded(n)) /\ Cardinality(SubsNeeded(n)) \in Nat
        /\ DeepNeeded(n) \in Nat
    BY <1>1, SubsNeededType
  <1>3. CASE IsDirect(j, LeafSlot(j))
    BY <1>1, <1>2, <1>3 DEF IsDirect, Need
  <1>4. CASE IsSingle(j, LeafSlot(j))
    <2>1. DeepNeeded(n) >= 1
      BY <1>1, <1>2, <1>4 DEF IsSingle, DeepNeeded
    <2> QED
      BY <1>1, <1>2, <1>4, <2>1 DEF IsSingle, Need
  <1>5. ASSUME NEW q \in Nat, NEW r \in Nat, IsDouble(j, LeafSlot(j), q, r)
        PROVE  LeafSlot(j) + 1 <= Need(n)
    <2>1. /\ j = CountDirect + CountLinks + q * CountLinks + r
          /\ LeafSlot(j) = CountDirect + CountLinks + 2 + q * CountLinks + q + 1 + r
          /\ q * CountLinks \in Nat /\ q < CountLinks
      BY <1>1, <1>5, Numbered DEF IsDouble
    <2>2. 0 .. q \subseteq SubsNeeded(n)
      <3> SUFFICES ASSUME NEW k \in 0 .. q
                   PROVE  CountDirect + CountLinks + k * CountLinks < n
        BY <1>1, <2>1 DEF SubsNeeded
      <3>1. k * CountLinks <= q * CountLinks /\ k * CountLinks \in Nat
        BY <1>1, MulMonotone
      <3> QED
        BY <1>1, <2>1, <3>1
    <2>3. Cardinality(0 .. q) = q + 1
      BY FS_Interval
    <2>4. Cardinality(SubsNeeded(n)) >= q + 1
      BY <1>2, <2>2, <2>3, FS_Subset
    <2>5. DeepNeeded(n) >= 2 + q + 1
      <3>1. n > CountDirect /\ n > CountDirect + CountLinks
        BY <1>1, <2>1
      <3> QED
        BY <1>2, <2>4, <3>1 DEF DeepNeeded
    <2> QED
      BY <1>1, <1>2, <2>1, <2>5 DEF Need
  <1> QED
    BY <1>3, <1>4, <1>5, LeafCases

\* What is_enough_space() charges covers what is needed: the counter only
\* wraps around once every leaf is placed.
LEMMA FitsNeed ==
    ASSUME NEW n \in 0 .. Capacity, Fits(n), EmptyAmount \in Nat
    PROVE  Need(n) <= EmptyAmount
  <1>1. /\ n \in Nat /\ CountDirect \in Nat /\ CountLinks \in Nat /\ CountLinks > 0
        /\ WordMod \in Nat /\ Capacity < WordMod
        /\ Capacity = CountDirect + CountLinks + CountLinks * CountLinks
        /\ CountLinks * CountLinks \in Nat
    BY Numbered, SpaceAssumption DEF Capacity
  <1>2. IsFiniteSet(SubsCharged(n))
    <2>1. IsFiniteSet(0 .. CountLinks - 1)
      BY <1>1, FS_Interval
    <2>2. SubsCharged(n) \subseteq 0 .. CountLinks - 1
      BY DEF SubsCharged
    <2> QED
      BY <2>1, <2>2, FS_Subset
  <1>3. Cardinality(SubsCharged(n)) \in Nat
    BY <1>2, FS_CardinalityType
  <1>4. n > CountDirect => AfterDirect(n) = n - CountDirect
    BY <1>1 DEF AfterDirect
  <1>5. n > CountDirect + CountLinks =>
          AfterSingle(n) = n - CountDirect - CountLinks /\ AfterSingle(n) > 0
    <2> SUFFICES ASSUME n > CountDirect + CountLinks
                 PROVE  AfterSingle(n) = n - CountDirect - CountLinks
                        /\ n - CountDirect - CountLinks > 0
      OBVIOUS
    <2>1. AfterDirect(n) > 0 /\ AfterDirect(n) - CountLinks = n - CountDirect - CountLinks
      BY <1>1, <1>4
    <2>2. n - CountDirect - CountLinks \in Nat /\ n - CountDirect - CountLinks < WordMod
      BY <1>1
    <2>3. (n - CountDirect - CountLinks) % WordMod = n - CountDirect - CountLinks
      BY <1>1, <2>2, ModSmall
    <2> QED
      BY <1>1, <2>1, <2>3 DEF AfterSingle
  <1>6. SubsNeeded(n) \subseteq SubsCharged(n)
    <2> SUFFICES ASSUME NEW m \in SubsNeeded(n), NEW k \in 0 .. m
                 PROVE  (AfterSingle(n) - k * CountLinks) % WordMod > 0
      BY DEF SubsNeeded, SubsCharged
    <2>1. m \in Nat /\ k \in Nat /\ CountDirect + CountLinks + m * CountLinks < n
      BY <1>1 DEF SubsNeeded
    <2>2. k * CountLinks <= m * CountLinks /\ k * CountLinks \in Nat /\ m * CountLinks \in Nat
      BY <1>1, <2>1, MulMonotone
    <2>3. AfterSingle(n) = n - CountDirect - CountLinks
      BY <1>1, <1>5, <2>1, <2>2
    <2>4. /\ AfterSingle(n) - k * CountLinks \in Nat
          /\ AfterSingle(n) - k * CountLinks > 0
          /\ AfterSingle(n) - k * CountLinks < WordMod
      BY <1>1, <2>1, <2>2, <2>3
    <2> QED
      BY <1>1, <2>4, ModSmall
  <1>7. Cardinality(SubsNeeded(n)) <= Cardinality(SubsCharged(n))
    BY <1>2, <1>6, FS_Subset
  <1>8. DeepNeeded(n) <= Addition(n) /\ DeepNeeded(n) \in Nat /\ Addition(n) \in Nat
    <2>1. Cardinality(SubsNeeded(n)) \in Nat
      BY <1>1, SubsNeededType
    <2>2. n > CountDirect => AfterDirect(n) > 0
      BY <1>1, <1>4
    <2> QED
      BY <1>1, <1>3, <1>5, <1>7, <2>1, <2>2 DEF DeepNeeded, Addition
  <1>9. n + Addition(n) <= EmptyAmount
    BY DEF Fits, IsEnoughSpace
  <1> QED
    BY <1>1, <1>8, <1>9 DEF Need

------------------------------------------------------------------------------
(* Counting what an inode uses                                              *)

LeafCount(t) == Cardinality(UsedLeaves(t))
SlotsUsed(t) == Cardinality(UsedSlots(t))

LEMMA CountTypes ==
    ASSUME NEW t
    PROVE  /\ IsFiniteSet(UsedSlots(t)) /\ SlotsUsed(t) \in Nat
           /\ IsFiniteSet(UsedLeaves(t)) /\ LeafCount(t) \in Nat
  <1>1. IsFiniteSet(Slots)
    BY FS_Interval, Shape DEF Slots
  <1>2. IsFiniteSet(UsedSlots(t)) /\ IsFiniteSet(UsedLeaves(t))
    BY <1>1, FS_Subset DEF UsedSlots, UsedLeaves
  <1> QED
    BY <1>2, FS_CardinalityType DEF SlotsUsed, LeafCount

LEMMA EmptyType == IsFiniteSet({b \in Blocks : bm[b]}) /\ EmptyAmount \in Nat
  <1>1. IsFiniteSet(Blocks)
    BY FS_Interval, Constants DEF Blocks
  <1>2. IsFiniteSet({b \in Blocks : bm[b]})
    BY <1>1, FS_Subset
  <1> QED
    BY <1>2, FS_CardinalityType DEF EmptyAmount

\* Links without a hole that reach leaf n - 1 have n leaves ...
LEMMA LeavesUpTo ==
    ASSUME NEW t, Filled(t), NEW n \in 1 .. Capacity, t[LeafSlot(n - 1)] # FreeLink
    PROVE  n <= LeafCount(t)
  <1> DEFINE f == [j \in 0 .. n - 1 |-> LeafSlot(j)]
  <1>1. n - 1 \in 0 .. Capacity - 1 /\ 0 .. n - 1 \subseteq 0 .. Capacity - 1
    BY Constants
  <1>2. ASSUME NEW j \in 0 .. n - 1 PROVE LeafSlot(j) \in UsedLeaves(t)
    <2>1. LeafSlot(j) \in Slots \ Deep /\ LeafSlot(n - 1) \in Slots
      BY <1>1, LeafSlotIsLeaf
    <2>2. CASE j = n - 1
      BY <2>1, <2>2 DEF UsedLeaves, UsedSlots
    <2>3. CASE j < n - 1
      <3>1. LeafSlot(j) < LeafSlot(n - 1)
        BY <1>1, <2>3, LeafSlotsGrow
      <3> QED
        BY <2>1, <3>1 DEF Filled, UsedLeaves, UsedSlots
    <2> QED
      BY <2>2, <2>3
  <1>3. ASSUME NEW i \in 0 .. n - 1, NEW j \in 0 .. n - 1, LeafSlot(i) = LeafSlot(j)
        PROVE  i = j
    <2>1. LeafSlot(i) \in Nat /\ LeafSlot(j) \in Nat
      BY <1>1, LeafSlotIsLeaf, Shape
    <2>2. ~(i < j) /\ ~(j < i)
      BY <1>1, <1>3, <2>1, LeafSlotsGrow
    <2> QED
      BY <2>2
  <1>4. f \in Injection(0 .. n - 1, UsedLeaves(t))
    BY <1>2, <1>3 DEF Injection, IsInjective
  <1>5. Cardinality(0 .. n - 1) <= LeafCount(t)
    BY <1>4, CountTypes, FS_Injection DEF LeafCount
  <1>6. Cardinality(0 .. n - 1) = n
    BY FS_Interval
  <1> QED
    BY <1>5, <1>6

\* ... and so have links without a hole that use as many slots as n leaves need.
LEMMA LeavesFromSlots ==
    ASSUME NEW t, Filled(t), NEW n \in 0 .. Capacity, Need(n) <= SlotsUsed(t)
    PROVE  n <= LeafCount(t)
  <1>1. CASE n = 0
    BY <1>1, CountTypes
  <1>2. CASE n # 0
    <2>1. n - 1 \in 0 .. Capacity - 1 /\ n \in 1 .. Capacity /\ n \in Nat
      BY <1>2, Constants
    <2> DEFINE s == LeafSlot(n - 1)
    <2>2. s \in Slots /\ s \in Nat /\ s + 1 <= Need(n) /\ Need(n) \in Nat
      <3>1. s + 1 <= Need((n - 1) + 1) /\ (n - 1) + 1 = n
        BY <2>1, LeafSlotNeeds
      <3> QED
        BY <2>1, <3>1, LeafSlotIsLeaf, SubsNeededType, Shape
    <2>3. SUFFICES ASSUME t[s] = FreeLink PROVE FALSE
      BY <2>1, LeavesUpTo
    <2> HIDE DEF s
    <2>4. UsedSlots(t) \subseteq 0 .. s - 1
      <3> SUFFICES ASSUME NEW u \in UsedSlots(t) PROVE u \in 0 .. s - 1
        OBVIOUS
      <3>1. u \in Slots /\ u \in Nat /\ t[u] # FreeLink
        BY Shape DEF UsedSlots
      <3>2. ~(s < u) /\ s # u
        BY <2>2, <2>3, <3>1 DEF Filled
      <3> QED
        BY <2>2, <3>1, <3>2
    <2>5. Cardinality(0 .. s - 1) = s /\ IsFiniteSet(0 .. s - 1)
      <3>1. s - 1 \in Int /\ 0 \in Int
        BY <2>2
      <3>2. /\ IsFiniteSet(0 .. s - 1)
            /\ Cardinality(0 .. s - 1) = IF 0 > s - 1 THEN 0 ELSE (s - 1) - 0 + 1
        BY <3>1, FS_Interval
      <3> QED
        BY <2>2, <3>2
    <2>6. SlotsUsed(t) <= s
      BY <2>4, <2>5, FS_Subset DEF SlotsUsed
    <2> QED
      BY <2>2, <2>6, CountTypes
  <1> QED
    BY <1>1, <1>2

------------------------------------------------------------------------------
(* The invariant                                                            *)

\* The links being created are those of a file's blocks, not of a directory
\* that needs one more.
FillsFile == op.ino = op.child \/ op.cmd = "over"

\* What is free has no size, and a file one that an inode can link.
Sizes ==
    /\ \A i \in Inodes : /\ itype[i] = "free" => size[i] = 0
                         /\ itype[i] = "file" => size[i] <= Capacity
    /\ op.want <= Capacity
    /\ op.at = "newfile" => itype[op.ino] = "free"
    /\ op.at = "size" => itype[op.ino] # "free"
    /\ op.at \in {"attach", "create"} /\ op.cmd \in {"cp", "incp"}
         => itype[op.child] # "free"

\* The space check is still good: the slots used and the free blocks together
\* are what the file needs.
Budget ==
    /\ op.at = "newfile" =>
         op.want = op.todo /\ op.done = 0 /\ Need(op.want) <= EmptyAmount
    /\ op.at = "create" =>
         IF FillsFile
         THEN /\ op.want = size[op.ino] + op.todo
              /\ Need(op.want) <= EmptyAmount + SlotsUsed(tmp)
         ELSE op.todo = 1

\* An inode whose blocks are being freed, or were and whose size is yet to be
\* written, may have fewer leaves than its size says.
Excused(i) ==
    /\ op.ino = i
    /\ op.at \in {"shrink", "free", "clear"} \/ (op.at = "size" /\ op.want < size[i])

\* Sizes are backed by leaves, and what the command at work has counted by
\* those it holds.
Backed ==
    /\ \A i \in Inodes : size[i] <= LeafCount(disk[i]) \/ Excused(i)
    /\ op.at = "create" =>
         /\ size[op.ino] + op.done <= LeafCount(tmp)
         /\ op.done = 0 => UsedLeaves(tmp) = UsedLeaves(disk[op.ino])
    /\ op.at = "shrink" =>
         /\ size[op.ino] <= LeafCount(tmp) + op.done
         /\ op.want + op.todo = size[op.ino] /\ op.todo > 0 /\ op.done <= op.todo
    /\ op.at = "size" => op.want <= LeafCount(disk[op.ino])
    /\ op.at = "attach" \/ (op.at = "create" /\ ~FillsFile) =>
         (op.cmd \in {"cp", "incp"} => op.want <= LeafCount(disk[op.child]))

Counted == Sizes /\ Budget /\ (~rolled => Backed)

CountInv == ~torn => Counted

------------------------------------------------------------------------------
(* One link more or less                                                    *)

LEMMA MoreLeaves ==
    ASSUME NEW t, NEW w, UsedLeaves(t) \subseteq UsedLeaves(w)
    PROVE  LeafCount(t) <= LeafCount(w)
  BY CountTypes, FS_Subset DEF LeafCount

LEMMA LinkTaken ==
    ASSUME NEW t, NEW w, NEW s \in Slots, t[s] = FreeLink, w[s] # FreeLink,
           \A u \in Slots : u # s => w[u] = t[u]
    PROVE  /\ SlotsUsed(w) = SlotsUsed(t) + 1
           /\ s \in Deep => UsedLeaves(w) = UsedLeaves(t)
           /\ LeafCount(w) = IF s \in Deep THEN LeafCount(t) ELSE LeafCount(t) + 1
  <1>1. UsedSlots(w) = UsedSlots(t) \union {s} /\ s \notin UsedSlots(t)
    BY DEF UsedSlots
  <1>2. s \in Deep => UsedLeaves(w) = UsedLeaves(t)
    BY <1>1 DEF UsedLeaves
  <1>3. s \notin Deep => UsedLeaves(w) = UsedLeaves(t) \union {s} /\ s \notin UsedLeaves(t)
    BY <1>1 DEF UsedLeaves
  <1>4. SlotsUsed(w) = SlotsUsed(t) + 1
    BY <1>1, CountTypes, FS_AddElement DEF SlotsUsed
  <1>5. s \notin Deep => LeafCount(w) = LeafCount(t) + 1
    BY <1>3, CountTypes, FS_AddElement DEF LeafCount
  <1> QED
    BY <1>2, <1>4, <1>5 DEF LeafCount

LEMMA LinkFreed ==
    ASSUME NEW t \in [Slots -> Links], NEW s \in Slots, t[s] # FreeLink,
           NEW w, w = [t EXCEPT ![s] = FreeLink]
    PROVE  LeafCount(w) = IF s \in Deep THEN LeafCount(t) ELSE LeafCount(t) - 1
  <1>1. UsedSlots(w) = UsedSlots(t) \ {s} /\ s \in UsedSlots(t)
    BY DEF UsedSlots
  <1>2. s \in Deep => UsedLeaves(w) = UsedLeaves(t)
    BY <1>1 DEF UsedLeaves
  <1>3. s \notin Deep => UsedLeaves(w) = UsedLeaves(t) \ {s} /\ s \in UsedLeaves(t)
    BY <1>1 DEF UsedLeaves
  <1>4. s \notin Deep => LeafCount(w) = LeafCount(t) - 1
    BY <1>3, CountTypes, FS_RemoveElement DEF LeafCount
  <1> QED
    BY <1>2, <1>4 DEF LeafCount

LEMMA NoLeaves == LeafCount(NoLinks) = 0
  <1>1. UsedLeaves(NoLinks) = {}
    BY DEF UsedLeaves, UsedSlots, NoLinks
  <1> QED
    BY <1>1, FS_EmptySet DEF LeafCount

\* A file that is not yet as long as wanted finds a block and a slot.
LEMMA RoomLeft ==
    ASSUME Typed, Safe, Sizes, Budget, op.at = "create", FillsFile,
           op.want > LeafCount(tmp)
    PROVE  (\E b \in Blocks : bm[b]) /\ (\E s \in Slots : tmp[s] = FreeLink)
  <1>1. /\ Filled(tmp) /\ op.want \in Nat /\ op.want \in 0 .. Capacity
        /\ Need(op.want) <= EmptyAmount + SlotsUsed(tmp)
        /\ EmptyAmount \in Nat /\ SlotsUsed(tmp) \in Nat /\ LeafCount(tmp) \in Nat
        /\ Need(op.want) \in Nat /\ Capacity \in Nat
    BY Working, Creating, CountTypes, EmptyType, SubsNeededType, Constants
       DEF Ops, Sizes, Budget
  <1>2. ASSUME \A b \in Blocks : ~bm[b] PROVE FALSE
    <2>1. {b \in Blocks : bm[b]} = {}
      BY <1>2
    <2>2. EmptyAmount = 0
      BY <2>1, FS_EmptySet DEF EmptyAmount
    <2>3. Need(op.want) <= SlotsUsed(tmp)
      BY <1>1, <2>2
    <2>4. op.want <= LeafCount(tmp)
      BY <1>1, <2>3, LeavesFromSlots
    <2> QED
      BY <1>1, <2>4
  <1>3. ASSUME \A s \in Slots : tmp[s] # FreeLink PROVE FALSE
    <2>1. op.want \in 1 .. Capacity /\ op.want - 1 \in 0 .. Capacity - 1
      BY <1>1
    <2>2. tmp[LeafSlot(op.want - 1)] # FreeLink
      BY <1>3, <2>1, LeafSlotIsLeaf
    <2>3. op.want <= LeafCount(tmp)
      BY <1>1, <2>1, <2>2, LeavesUpTo
    <2> QED
      BY <1>1, <2>3
  <1> QED
    BY <1>2, <1>3

------------------------------------------------------------------------------
(* Steps that change no size and no links in the file                       *)

\* Nothing counted changes but for what the command goes on to do.
LEMMA GoesOn ==
    ASSUME Typed, Typed', Sizes, rolled' = rolled, UNCHANGED <<disk, size, itype>>,
           op'.want <= Capacity,
           op'.at \in {"newfile", "create", "shrink"} => Budget' /\ (~rolled => Backed'),
           op'.at = "newfile" => itype[op'.ino] = "free",
           op'.at = "size" => itype[op'.ino] # "free",
           op'.at \in {"attach", "create"} /\ op'.cmd \in {"cp", "incp"}
             => itype[op'.child] # "free",
           ~rolled => \A i \in Inodes : size[i] <= LeafCount(disk[i]) \/ Excused(i)',
           ~rolled /\ op'.at = "size" => op'.want <= LeafCount(disk[op'.ino]),
           ~rolled /\ op'.at = "attach" /\ op'.cmd \in {"cp", "incp"}
             => op'.want <= LeafCount(disk[op'.child])
    PROVE  Counted'
  <1>1. Sizes'
    BY DEF Sizes
  <1>2. Budget'
    BY DEF Budget
  <1>3. ~rolled' => Backed'
    BY DEF Backed
  <1> QED
    BY <1>1, <1>2, <1>3 DEF Counted

LEMMA StartFileCounts ==
    ASSUME Typed, Typed', Safe, Counted, NEW cmd \in {"cp", "incp"}, NEW n \in 0 .. Capacity,
           StartFile(cmd, n)
    PROVE  Counted'
  <1>1. PICK i \in Inodes :
          /\ ibm[i] /\ op' = Begin("newfile", cmd, i, i, n, n)
          /\ UNCHANGED <<bm, disk, itype, size, rolled>> /\ op.at = "idle" /\ Fits(n)
    BY DEF StartFile, FirstFree, history
  <1>2. /\ op'.at = "newfile" /\ op'.ino = i /\ op'.todo = n /\ op'.want = n /\ op'.done = 0
        /\ itype[i] = "free"
    BY <1>1 DEF Begin, Safe, FreeInodes
  <1>3. Need(n) <= EmptyAmount /\ EmptyAmount' = EmptyAmount
    BY <1>1, EmptyType, FitsNeed DEF EmptyAmount
  <1>4. Budget'
    BY <1>2, <1>3 DEF Budget
  <1>5. ~rolled => Backed'
    BY <1>1, <1>2 DEF Counted, Backed, Excused
  <1>6. ~rolled => \A j \in Inodes : size[j] <= LeafCount(disk[j]) \/ Excused(j)'
    BY <1>1 DEF Counted, Backed, Excused
  <1>7. n <= Capacity /\ Sizes
    BY Constants DEF Counted
  <1> QED
    BY <1>1, <1>2, <1>4, <1>5, <1>6, <1>7, GoesOn

LEMMA StartOverwriteCounts ==
    ASSUME Typed, Typed', Safe, Counted, StartOverwrite
    PROVE  Counted'
  <1>1. /\ op.at = "idle" /\ UNCHANGED <<bm, disk, itype, size, rolled>>
        /\ EmptyAmount' = EmptyAmount /\ Sizes
        /\ ~rolled => \A j \in Inodes : size[j] <= LeafCount(disk[j])
    BY DEF StartOverwrite, history, Counted, Backed, Excused, EmptyAmount
  <1>2. PICK i \in Inodes, n \in 0 .. Capacity :
          /\ itype[i] = "file" /\ Fits(n)
          /\ \/ /\ n > size[i] /\ tmp' = disk[i]
                /\ op' = Begin("create", "over", i, 0, n - size[i], n)
             \/ /\ n < size[i] /\ tmp' = disk[i]
                /\ op' = Begin("shrink", "over", i, 0, size[i] - n, n)
             \/ n = size[i] /\ op' = Begin("size", "over", i, 0, 0, n)
    BY DEF StartOverwrite
  <1>3. /\ op'.ino = i /\ op'.cmd = "over" /\ op'.want = n /\ op'.done = 0
        /\ size[i] \in Nat /\ n \in Nat /\ n <= Capacity /\ i # 0
    BY <1>2, Working, Constants DEF Begin
  <1>4. LeafCount(disk[i]) \in Nat /\ SlotsUsed(disk[i]) \in Nat /\ EmptyAmount \in Nat
        /\ Need(n) <= EmptyAmount
    BY <1>2, CountTypes, EmptyType, FitsNeed
  <1>5. CASE n > size[i] /\ tmp' = disk[i] /\ op' = Begin("create", "over", i, 0, n - size[i], n)
    <2>1. op'.at = "create" /\ op'.todo = n - size[i]
      BY <1>5 DEF Begin
    <2>2. Need(n) <= EmptyAmount + SlotsUsed(disk[i])
      BY <1>3, <1>4, SubsNeededType
    <2>3. Budget'
      BY <1>1, <1>3, <1>5, <2>1, <2>2 DEF Budget, FillsFile
    <2>4. ~rolled => Backed'
      <3> SUFFICES ASSUME ~rolled PROVE Backed'
        OBVIOUS
      <3>1. size[i] + 0 <= LeafCount(disk[i])
        BY <1>1, <1>3
      <3> QED
        BY <1>1, <1>3, <1>5, <2>1, <3>1 DEF Backed, FillsFile
    <2> QED
      BY <1>1, <1>3, <2>1, <2>3, <2>4, GoesOn
  <1>6. CASE n < size[i] /\ tmp' = disk[i] /\ op' = Begin("shrink", "over", i, 0, size[i] - n, n)
    <2>1. op'.at = "shrink" /\ op'.todo = size[i] - n
      BY <1>6 DEF Begin
    <2>2. Budget'
      BY <2>1 DEF Budget
    <2>3. ~rolled => Backed'
      <3> SUFFICES ASSUME ~rolled PROVE Backed'
        OBVIOUS
      <3>1. size[i] <= LeafCount(disk[i]) + 0 /\ n + (size[i] - n) = size[i]
            /\ size[i] - n > 0 /\ 0 <= size[i] - n
        BY <1>1, <1>3, <1>4, <1>6
      <3> QED
        BY <1>1, <1>3, <1>6, <2>1, <3>1 DEF Backed
    <2> QED
      BY <1>1, <1>3, <2>1, <2>2, <2>3, GoesOn
  <1>7. CASE n = size[i] /\ op' = Begin("size", "over", i, 0, 0, n)
    <2>1. op'.at = "size" /\ itype[i] # "free"
      BY <1>2, <1>7 DEF Begin
    <2> QED
      BY <1>1, <1>3, <1>7, <2>1, GoesOn
  <1> QED
    BY <1>2, <1>5, <1>6, <1>7

LEMMA StartCounts ==
    ASSUME Typed, Typed', Safe, Counted, Start
    PROVE  Counted'
  <1>1. op.at = "idle" /\ UNCHANGED <<disk, itype, size, rolled>> /\ Sizes
        /\ (~rolled => \A j \in Inodes : size[j] <= LeafCount(disk[j]))
    BY DEF Start, StartCopy, StartIncp, StartFile, StartOverwrite, StartMkdir,
           StartMove, StartRemove, history, Counted, Backed, Excused
  <1>2. CASE StartCopy
    <2>1. PICK src \in Inodes : itype[src] = "file" /\ StartFile("cp", size[src])
      BY <1>2 DEF StartCopy
    <2>2. size[src] \in 0 .. Capacity
      BY <1>1, <2>1, Working, Constants DEF Sizes
    <2> QED
      BY <2>1, <2>2, StartFileCounts
  <1>3. CASE StartIncp
    BY <1>3, StartFileCounts DEF StartIncp
  <1>4. CASE StartOverwrite
    BY <1>4, StartOverwriteCounts
  <1>5. CASE StartMkdir \/ StartMove \/ StartRemove
    <2>1. /\ op'.at \in {"newdir", "attach", "free"} /\ op'.want = 0
          /\ op'.at = "attach" => op'.cmd = "mv"
      BY <1>5 DEF StartMkdir, StartMove, StartRemove, Begin
    <2>2. 0 <= Capacity
      BY Constants
    <2> QED
      BY <1>1, <2>1, <2>2, GoesOn
  <1> QED
    BY <1>2, <1>3, <1>4, <1>5 DEF Start

\* Between the places that hold links, every size is backed.
LEMMA AllBacked ==
    ASSUME Typed, Counted, ~rolled, op.at \notin {"shrink", "free", "clear", "size"}
    PROVE  \A i \in Inodes : size[i] <= LeafCount(disk[i])
  BY DEF Counted, Backed, Excused

LEMMA AttachCounts ==
    ASSUME Typed, Typed', Safe, Counted,
           AttachInPlace \/ AttachNoParent \/ \E p \in Inodes : AttachGrow(p)
    PROVE  Counted'
  <1>1. /\ op.at = "attach" /\ UNCHANGED <<bm, disk, itype, size, rolled>> /\ Sizes
        /\ op.cmd \in {"cp", "incp", "mkdir", "mv"} /\ op \in Ops
        /\ op.want <= Capacity /\ 0 <= Capacity
        /\ (op.cmd \in {"cp", "incp"} => itype[op.child] # "free" /\ op.child \in Inodes)
    <2>1. op.at = "attach" /\ UNCHANGED <<bm, disk, itype, size, rolled>> /\ Sizes
      BY DEF AttachInPlace, AttachNoParent, AttachGrow, history, Counted
    <2>2. /\ op.cmd \in {"cp", "incp", "mkdir", "mv"} /\ op \in Ops
          /\ (op.cmd \in {"cp", "incp"} => op.child \in Inodes)
      BY <2>1, Working DEF Typed, OpOK, Holders
    <2>3. op.want <= Capacity /\ (op.cmd \in {"cp", "incp"} => itype[op.child] # "free")
      BY <2>1 DEF Sizes
    <2> QED
      BY <2>1, <2>2, <2>3, Constants
  <1>2. ~rolled => /\ \A j \in Inodes : size[j] <= LeafCount(disk[j])
                   /\ (op.cmd \in {"cp", "incp"} => op.want <= LeafCount(disk[op.child]))
    BY <1>1, AllBacked DEF Counted, Backed
  <1>3. CASE Leave
    <2>1. op'.at = "idle" /\ op'.want = 0
      BY <1>3 DEF Leave, Idle, Begin
    <2> QED
      BY <1>1, <1>2, <2>1, GoesOn
  <1>4. CASE /\ op' = [op EXCEPT !.at = "size", !.ino = op.child]
             /\ op.cmd \in {"cp", "incp"}
    <2>1. op'.at = "size" /\ op'.ino = op.child /\ op'.want = op.want
      BY <1>1, <1>4 DEF Ops
    <2> QED
      BY <1>1, <1>2, <1>4, <2>1, GoesOn
  <1>5. CASE op' = [op EXCEPT !.at = "free", !.ino = op.child]
    <2>1. op'.at = "free" /\ op'.want = op.want
      BY <1>1, <1>5 DEF Ops
    <2> QED
      BY <1>1, <1>2, <2>1, GoesOn
  <1>6. ASSUME NEW p \in Inodes, AttachGrow(p) PROVE Counted'
    <2>1. /\ op'.at = "create" /\ op'.ino = p /\ op'.todo = 1 /\ op'.done = 0
          /\ op'.cmd = op.cmd /\ op'.child = op.child /\ op'.want = op.want
          /\ tmp' = disk[p] /\ p # op.child
      BY <1>1, <1>6 DEF AttachGrow, Ops
    <2>2. ~FillsFile'
      BY <1>1, <2>1 DEF FillsFile
    <2>3. Budget'
      BY <2>1, <2>2 DEF Budget
    <2>4. size[p] \in Nat /\ size[p] + 0 = size[p]
      BY Working
    <2>5. ~rolled => Backed'
      BY <1>1, <1>2, <2>1, <2>2, <2>4 DEF Backed
    <2> QED
      BY <1>1, <1>2, <2>1, <2>3, <2>5, GoesOn
  <1> QED
    BY <1>1, <1>3, <1>4, <1>5, <1>6 DEF AttachInPlace, AttachNoParent, Attached, FreeChild

\* Taking the block of a directory, or giving it back, and turning the bit of
\* an inode on change no size.
LEMMA AsideCounts ==
    ASSUME Typed, Typed', Safe, Counted, TakeDirBlock \/ GiveBackDir \/ FreeBit
    PROVE  Counted'
  <1>1. /\ op.at \in {"newdir", "dirblock", "free"}
        /\ UNCHANGED <<disk, itype, size, rolled>> /\ Sizes
        /\ op \in Ops /\ op.want <= Capacity
        /\ op.at # "free" => op.cmd = "mkdir"
    BY Working DEF TakeDirBlock, GiveBackDir, FreeBit, history, Counted, Typed, OpOK, Sizes
  <1>2. /\ op'.at \in {"dirblock", "attach", "clear"} /\ op'.want = op.want
        /\ op'.cmd = op.cmd
        /\ op.at = "free" => op'.at = "clear" /\ op'.ino = op.ino
        /\ op'.at = "attach" => op.cmd = "mkdir"
    BY <1>1 DEF TakeDirBlock, GiveBackDir, FreeBit, Ops
  <1>3. ~rolled => \A i \in Inodes : size[i] <= LeafCount(disk[i]) \/ Excused(i)'
    BY <1>1, <1>2 DEF Counted, Backed, Excused
  <1> QED
    BY <1>1, <1>2, <1>3, GoesOn

LEMMA CrashCounts ==
    ASSUME Typed, Typed', Safe, Counted, Crash, ~torn'
    PROVE  Counted'
  <1>1. /\ UNCHANGED <<disk, itype, size, rolled>> /\ Sizes
        /\ op.at \notin {"shrink", "free", "clear"}
        /\ ~(op.at = "size" /\ op.want < size[op.ino])
        /\ op'.at = "idle" /\ op'.want = 0 /\ 0 <= Capacity
    BY Constants DEF Crash, Leave, Idle, Begin, Counted
  <1>2. ~rolled => \A i \in Inodes : size[i] <= LeafCount(disk[i])
    BY <1>1 DEF Counted, Backed, Excused
  <1> QED
    BY <1>1, <1>2, GoesOn

LEMMA SizeCounts ==
    ASSUME Typed, Typed', Safe, Counted, SetSize
    PROVE  Counted'
  <1>1. /\ op.at = "size" /\ op.ino \in Inodes /\ UNCHANGED <<disk, itype, rolled>>
        /\ size' = [size EXCEPT ![op.ino] = op.want]
        /\ op'.at = "idle" /\ op'.want = 0 /\ 0 <= Capacity
        /\ itype[op.ino] # "free" /\ op.want <= Capacity
    BY Working, Constants DEF SetSize, Idle, Begin, history, Counted, Sizes
  <1>2. \A i \in Inodes : size'[i] = IF i = op.ino THEN op.want ELSE size[i]
    BY <1>1, Working
  <1>3. Sizes'
    BY <1>1, <1>2 DEF Counted, Sizes
  <1>4. Budget'
    BY <1>1 DEF Budget
  <1>5. ~rolled' => Backed'
    BY <1>1, <1>2 DEF Counted, Backed, Excused
  <1> QED
    BY <1>3, <1>4, <1>5 DEF Counted

LEMMA NewFileCounts ==
    ASSUME Typed, Typed', Safe, Counted, WriteNewFile
    PROVE  Counted'
  <1>1. /\ op.at = "newfile" /\ op.ino \in Inodes /\ op.child = op.ino
        /\ itype' = [itype EXCEPT ![op.ino] = "file"] /\ tmp' = disk[op.ino]
        /\ op'.at = "create" /\ op'.ino = op.ino /\ op'.child = op.child
        /\ op'.todo = op.todo /\ op'.want = op.want /\ op'.done = op.done
        /\ op'.cmd = op.cmd
        /\ UNCHANGED <<bm, disk, size, rolled>> /\ EmptyAmount' = EmptyAmount
    BY Working DEF WriteNewFile, Ops, history, Typed, OpOK, EmptyAmount
  <1>2. /\ itype[op.ino] = "free" /\ size[op.ino] = 0 /\ disk[op.ino] = NoLinks
        /\ op.want = op.todo /\ op.done = 0 /\ Need(op.want) <= EmptyAmount
        /\ op.want <= Capacity /\ op.want \in Nat
    BY <1>1, Working DEF Counted, Sizes, Budget, Safe, FreeInodes, Ops
  <1>3. \A i \in Inodes : itype'[i] = IF i = op.ino THEN "file" ELSE itype[i]
    BY <1>1, Working
  <1>4. Sizes'
    BY <1>1, <1>2, <1>3, Constants DEF Counted, Sizes
  <1>5. Need(op.want) <= EmptyAmount + SlotsUsed(disk[op.ino])
    BY <1>2, EmptyType, CountTypes, SubsNeededType
  <1>6. Budget'
    BY <1>1, <1>2, <1>5 DEF Budget, FillsFile
  <1>7. ~rolled' => Backed'
    <2>1. ~rolled => \A i \in Inodes : size[i] <= LeafCount(disk[i])
      BY <1>1, AllBacked
    <2>2. size[op.ino] + op.done <= LeafCount(disk[op.ino])
      BY <1>2, NoLeaves
    <2> QED
      BY <1>1, <1>2, <2>1, <2>2 DEF Backed, FillsFile
  <1> QED
    BY <1>4, <1>6, <1>7 DEF Counted

LEMMA NewDirCounts ==
    ASSUME Typed, Typed', Safe, Counted, WriteNewDir
    PROVE  Counted'
  <1>1. /\ op.at = "dirblock" /\ op.ino \in Inodes /\ tmp[0] # FreeLink
        /\ disk' = [disk EXCEPT ![op.ino][0] = tmp[0]]
        /\ itype' = [itype EXCEPT ![op.ino] = "dirc"]
        /\ size' = [size EXCEPT ![op.ino] = 1]
        /\ op'.at = "attach" /\ op'.cmd = "mkdir" /\ op'.want = op.want
        /\ rolled' = rolled /\ op.want <= Capacity
    BY Working DEF WriteNewDir, Ops, history, Typed, OpOK, Holders, Counted, Sizes
  <1>2. \A i \in Inodes : /\ itype'[i] = IF i = op.ino THEN "dirc" ELSE itype[i]
                          /\ size'[i] = IF i = op.ino THEN 1 ELSE size[i]
                          /\ i # op.ino => disk'[i] = disk[i]
    BY <1>1, Working
  <1>3. Sizes'
    BY <1>1, <1>2 DEF Counted, Sizes
  <1>4. Budget'
    BY <1>1 DEF Budget
  <1>5. LeafCount(disk'[op.ino]) >= 1
    <2>1. 0 \in UsedLeaves(disk'[op.ino])
      <3>1. 0 \in Slots /\ 0 \notin Deep
        <4>1. LeafSlot(0) = 0 /\ 0 \in 0 .. Capacity - 1
          BY Numbered, Constants DEF LeafSlot
        <4> QED
          BY <4>1, LeafSlotIsLeaf
      <3>2. disk'[op.ino][0] = tmp[0]
        BY <1>1, <3>1, Working
      <3> QED
        BY <1>1, <3>1, <3>2 DEF UsedLeaves, UsedSlots
    <2>2. LeafCount(disk'[op.ino]) # 0
      BY <2>1, CountTypes, FS_EmptySet DEF LeafCount
    <2> QED
      BY <2>2, CountTypes
  <1>6. ~rolled' => Backed'
    <2>1. ~rolled => \A i \in Inodes : size[i] <= LeafCount(disk[i])
      BY <1>1, AllBacked
    <2> QED
      BY <1>1, <1>2, <1>5, <2>1 DEF Backed
  <1> QED
    BY <1>3, <1>4, <1>6 DEF Counted

LEMMA ClearCounts ==
    ASSUME Typed, Typed', Safe, Counted, ClearInode
    PROVE  Counted'
  <1>1. /\ op.at = "clear" /\ op.ino \in Inodes /\ rolled' = rolled
        /\ disk' = [disk EXCEPT ![op.ino] = NoLinks]
        /\ itype' = [itype EXCEPT ![op.ino] = "free"]
        /\ size' = [size EXCEPT ![op.ino] = 0]
        /\ op'.at = "idle" /\ op'.want = 0
    BY Working DEF ClearInode, Leave, Idle, Begin, history
  <1>2. \A i \in Inodes : /\ itype'[i] = IF i = op.ino THEN "free" ELSE itype[i]
                          /\ size'[i] = IF i = op.ino THEN 0 ELSE size[i]
                          /\ i # op.ino => disk'[i] = disk[i]
    BY <1>1, Working
  <1>3. Sizes'
    BY <1>1, <1>2, Constants DEF Counted, Sizes
  <1>4. Budget'
    BY <1>1 DEF Budget
  <1>5. ~rolled' => Backed'
    <2> SUFFICES ASSUME ~rolled PROVE Backed'
      BY <1>1
    <2>1. \A i \in Inodes : i # op.ino => size[i] <= LeafCount(disk[i])
      BY DEF Counted, Backed, Excused
    <2>2. 0 <= LeafCount(disk'[op.ino])
      BY CountTypes
    <2> QED
      BY <1>1, <1>2, <2>1, <2>2 DEF Backed
  <1> QED
    BY <1>3, <1>4, <1>5 DEF Counted

------------------------------------------------------------------------------
(* Steps that create, free or write links                                   *)

LEMMA AllocCounts ==
    ASSUME Typed, Typed', Safe, Counted, AllocLink
    PROVE  Counted'
  <1>1. PICK s \in Slots, b \in Blocks :
          /\ tmp[s] = FreeLink /\ bm[b]
          /\ bm' = [bm EXCEPT ![b] = FALSE]
          /\ tmp' = [tmp EXCEPT ![s] = b]
          /\ op' = [op EXCEPT !.done = IF s \in Deep THEN @ ELSE @ + 1]
    BY DEF AllocLink, IsNextSlot, FirstFree
  <1>2. /\ op.at = "create" /\ op'.at = "create" /\ op'.ino = op.ino /\ op'.child = op.child
        /\ op'.cmd = op.cmd /\ op'.todo = op.todo /\ op'.want = op.want
        /\ op'.done = IF s \in Deep THEN op.done ELSE op.done + 1
        /\ op.done \in Nat /\ op.ino \in Inodes
        /\ UNCHANGED <<disk, itype, size, rolled>>
    BY <1>1, Working DEF AllocLink, Ops, history
  <1>3. /\ SlotsUsed(tmp') = SlotsUsed(tmp) + 1
        /\ s \in Deep => UsedLeaves(tmp') = UsedLeaves(tmp)
        /\ LeafCount(tmp') = IF s \in Deep THEN LeafCount(tmp) ELSE LeafCount(tmp) + 1
    <2>1. tmp'[s] = b /\ \A u \in Slots : u # s => tmp'[u] = tmp[u]
      BY <1>1, Working
    <2> QED
      BY <1>1, <2>1, Constants, LinkTaken
  <1>4. EmptyAmount' = EmptyAmount - 1
    <2>1. {c \in Blocks : bm'[c]} = {c \in Blocks : bm[c]} \ {b} /\ b \in {c \in Blocks : bm[c]}
      BY <1>1, Working DEF Maps
    <2> QED
      BY <2>1, EmptyType, FS_RemoveElement DEF EmptyAmount
  <1>5. Sizes'
    BY <1>2 DEF Counted, Sizes
  <1>6. Budget'
    <2>1. EmptyAmount' + SlotsUsed(tmp') = EmptyAmount + SlotsUsed(tmp)
      BY <1>3, <1>4, EmptyType, CountTypes
    <2> QED
      BY <1>2, <2>1 DEF Counted, Budget, FillsFile
  <1>7. ~rolled' => Backed'
    <2> SUFFICES ASSUME ~rolled PROVE Backed'
      BY <1>2
    <2>1. \A i \in Inodes : size[i] <= LeafCount(disk[i])
      BY <1>2, AllBacked
    <2>2. size[op.ino] + op'.done <= LeafCount(tmp')
      <3>1. size[op.ino] + op.done <= LeafCount(tmp) /\ size[op.ino] \in Nat
            /\ LeafCount(tmp) \in Nat
        BY <1>2, Working, CountTypes DEF Counted, Backed
      <3> QED
        BY <1>2, <1>3, <3>1
    <2>3. op'.done = 0 => UsedLeaves(tmp') = UsedLeaves(disk[op.ino])
      BY <1>2, <1>3 DEF Counted, Backed
    <2>4. ~FillsFile => (op.cmd \in {"cp", "incp"} => op.want <= LeafCount(disk[op.child]))
      BY <1>2 DEF Counted, Backed
    <2> QED
      BY <1>2, <2>1, <2>2, <2>3, <2>4 DEF Backed, FillsFile
  <1> QED
    BY <1>5, <1>6, <1>7 DEF Counted

\* A link block that is written back in a creation adds leaves to the file.
LEMMA FlushCounts ==
    ASSUME Typed, Typed', Safe, Counted, FlushLinks
    PROVE  Counted'
  <1>1. PICK d \in Deep :
          disk' = [disk EXCEPT ![op.ino] =
                     [s \in Slots |-> IF s \in Below(d) THEN tmp[s] ELSE disk[op.ino][s]]]
    BY DEF FlushLinks, FlushDue
  <1>2. /\ op.at \in {"create", "shrink"} /\ op.ino \in Inodes
        /\ UNCHANGED <<bm, itype, size, tmp, op, rolled>> /\ EmptyAmount' = EmptyAmount
    BY Working DEF FlushLinks, history, EmptyAmount
  <1>3. /\ \A i \in Inodes : i # op.ino => disk'[i] = disk[i]
        /\ \A s \in Slots : disk'[op.ino][s] = IF s \in Below(d) THEN tmp[s]
                                               ELSE disk[op.ino][s]
    BY <1>1, <1>2, Working
  <1>4. Sizes' /\ Budget'
    BY <1>2 DEF Counted, Sizes, Budget, FillsFile
  <1>5. CASE op.at = "create"
    <2>1. \A s \in Slots : disk[op.ino][s] # FreeLink => disk[op.ino][s] = tmp[s]
      BY <1>5, Creating DEF Within
    <2>2. /\ UsedLeaves(disk[op.ino]) \subseteq UsedLeaves(disk'[op.ino])
          /\ UsedLeaves(disk'[op.ino]) \subseteq UsedLeaves(tmp)
      BY <1>3, <2>1 DEF UsedLeaves, UsedSlots
    <2>3. LeafCount(disk[op.ino]) <= LeafCount(disk'[op.ino])
      BY <2>2, MoreLeaves
    <2>4. ~rolled => \A i \in Inodes : size[i] <= LeafCount(disk'[i])
      <3> SUFFICES ASSUME ~rolled, NEW i \in Inodes PROVE size[i] <= LeafCount(disk'[i])
        OBVIOUS
      <3>1. size[i] <= LeafCount(disk[i]) /\ size[i] \in Nat
        BY <1>5, AllBacked, Working
      <3>2. /\ LeafCount(disk[i]) \in Nat /\ LeafCount(disk'[i]) \in Nat
            /\ LeafCount(disk[i]) <= LeafCount(disk'[i])
        BY <1>3, <2>3, CountTypes
      <3> QED
        BY <3>1, <3>2
    <2>5. ~rolled /\ ~FillsFile /\ op.cmd \in {"cp", "incp"} =>
            op.want <= LeafCount(disk'[op.child])
      <3>1. ~FillsFile /\ op.cmd \in {"cp", "incp"}
              => op.child \in Inodes /\ op.child # op.ino
        BY <1>5, Working DEF FillsFile, Typed, OpOK, Holders
      <3> QED
        BY <1>3, <1>5, <3>1 DEF Counted, Backed
    <2> QED
      BY <1>2, <1>4, <1>5, <2>2, <2>4, <2>5 DEF Counted, Backed, FillsFile
  <1>6. CASE op.at = "shrink"
    BY <1>2, <1>3, <1>4, <1>6 DEF Counted, Backed, Excused
  <1> QED
    BY <1>2, <1>5, <1>6

LEMMA ShrinkDoneCounts ==
    ASSUME Typed, Typed', Safe, Counted, ShrinkDone
    PROVE  Counted'
  <1>1. /\ op.at = "shrink" /\ op.ino \in Inodes
        /\ disk' = [disk EXCEPT ![op.ino] = tmp]
        /\ op' = [op EXCEPT !.at = "size"]
        /\ UNCHANGED <<itype, size, rolled>> /\ \A s \in Slots : ~CanFree(s)
    BY Working DEF ShrinkDone, history
  <1>2. op'.at = "size" /\ op'.ino = op.ino /\ op'.want = op.want /\ op.want \in Nat
        /\ op.todo \in Nat /\ op.done \in Nat
    BY <1>1, Working DEF Ops
  <1>3. disk'[op.ino] = tmp /\ \A i \in Inodes : i # op.ino => disk'[i] = disk[i]
    BY <1>1, Working
  <1>4. Sizes'
    <2>1. itype[op.ino] # "free"
      BY <1>1 DEF Safe, FreeInodes
    <2> QED
      BY <1>1, <1>2, <2>1 DEF Counted, Sizes
  <1>5. Budget'
    BY <1>2 DEF Budget
  <1>6. ~rolled' => Backed'
    <2> SUFFICES ASSUME ~rolled PROVE Backed'
      BY <1>1
    <2>1. /\ size[op.ino] <= LeafCount(tmp) + op.done /\ LeafCount(tmp) \in Nat
          /\ op.want + op.todo = size[op.ino] /\ op.todo > 0 /\ op.done <= op.todo
      BY <1>1, CountTypes DEF Counted, Backed
    <2>2. op.want <= LeafCount(tmp)
      BY <1>2, <2>1
    <2>3. \A i \in Inodes : i # op.ino => size[i] <= LeafCount(disk[i])
      BY <1>1 DEF Counted, Backed, Excused
    <2>4. op.want < size[op.ino]
      BY <1>2, <2>1
    <2> QED
      BY <1>1, <1>2, <1>3, <2>2, <2>3, <2>4 DEF Backed, Excused
  <1> QED
    BY <1>4, <1>5, <1>6 DEF Counted

LEMMA FreeSlotCounts ==
    ASSUME Typed, Typed', Safe, Counted, NEW s \in Slots, FreeLast(s) \/ FreeNext(s)
    PROVE  Counted'
  <1>1. /\ op.at \in {"shrink", "free"} /\ op.ino \in Inodes /\ tmp[s] # FreeLink
        /\ tmp' = [tmp EXCEPT ![s] = FreeLink] /\ disk' = Zeroed(s)
        /\ UNCHANGED <<itype, size, rolled>> /\ Sizes
    BY Working DEF FreeLast, FreeNext, CanFree, LastUsed, UsedSlots, FreeSlot, history, Counted
  <1>2. /\ op'.at = op.at /\ op'.ino = op.ino /\ op'.todo = op.todo /\ op'.want = op.want
        /\ op.done \in Nat /\ op.todo \in Nat
        /\ op.at = "shrink" => /\ s \notin Deep => op'.done = op.done + 1 /\ op.done < op.todo
                               /\ s \in Deep => op'.done = op.done
    BY <1>1, Working DEF FreeLast, FreeNext, CanFree, Ops
  <1>3. \A i \in Inodes : i # op.ino => disk'[i] = disk[i]
    BY <1>1, Working DEF Zeroed
  <1>4. LeafCount(tmp') = IF s \in Deep THEN LeafCount(tmp) ELSE LeafCount(tmp) - 1
    BY <1>1, Working, LinkFreed
  <1>5. Sizes'
    BY <1>1, <1>2 DEF Sizes
  <1>6. Budget'
    BY <1>1, <1>2 DEF Budget
  <1>7. ~rolled' => Backed'
    <2> SUFFICES ASSUME ~rolled PROVE Backed'
      BY <1>1
    <2>1. \A i \in Inodes : i # op.ino => size[i] <= LeafCount(disk[i])
      BY <1>1 DEF Counted, Backed, Excused
    <2>2. CASE op.at = "free"
      BY <1>1, <1>2, <1>3, <2>1, <2>2 DEF Backed, Excused
    <2>3. CASE op.at = "shrink"
      <3>1. /\ size[op.ino] <= LeafCount(tmp) + op.done
            /\ op.want + op.todo = size[op.ino] /\ op.todo > 0 /\ op.done <= op.todo
            /\ LeafCount(tmp) \in Nat /\ size[op.ino] \in Nat
        BY <2>3, <1>1, CountTypes, Working DEF Counted, Backed
      <3>2. size[op.ino] <= LeafCount(tmp') + op'.done /\ op'.done <= op.todo
        BY <1>2, <1>4, <2>3, <3>1
      <3> QED
        BY <1>1, <1>2, <1>3, <2>1, <2>3, <3>1, <3>2 DEF Backed, Excused
    <2> QED
      BY <1>1, <2>2, <2>3
  <1> QED
    BY <1>5, <1>6, <1>7 DEF Counted

\* A creation that is done has made the leaves that were asked for.
LEMMA CreateDoneCounts ==
    ASSUME Typed, Typed', Safe, Counted, CreateDone
    PROVE  Counted'
  <1>1. /\ op.at = "create" /\ op.done = op.todo /\ op.ino \in Inodes /\ op \in Ops
        /\ disk' = [disk EXCEPT ![op.ino] = tmp]
        /\ size' = [size EXCEPT ![op.ino] =
                      IF itype[op.ino] = "dirc" THEN @ + op.todo ELSE @]
        /\ UNCHANGED <<itype, rolled>> /\ itype[op.ino] # "free" /\ itype[op.ino] \in ItemTypes
        /\ op.want <= Capacity /\ 0 <= Capacity
        /\ op.cmd \in {"cp", "incp"} => itype[op.child] # "free" /\ op.child \in Inodes
    <2>1. op.at = "create" /\ op.ino \in Inodes /\ op \in Ops /\ itype[op.ino] \in ItemTypes
      BY Working DEF CreateDone
    <2>2. op.cmd \in {"cp", "incp"} => itype[op.child] # "free" /\ op.child \in Inodes
      BY <2>1, Working DEF Counted, Sizes, Typed, OpOK, Holders
    <2>3. itype[op.ino] # "free" /\ op.want <= Capacity /\ 0 <= Capacity
      BY <2>1, Creating, Constants DEF Counted, Sizes
    <2> QED
      BY <2>1, <2>2, <2>3 DEF CreateDone, history
  <1>2. /\ \A i \in Inodes : i # op.ino => disk'[i] = disk[i] /\ size'[i] = size[i]
        /\ disk'[op.ino] = tmp
        /\ size'[op.ino] = IF itype[op.ino] = "dirc" THEN size[op.ino] + op.todo
                           ELSE size[op.ino]
    BY <1>1, Working
  <1>3. /\ \A i \in Inodes : /\ itype'[i] = "free" => size'[i] = 0
                             /\ itype'[i] = "file" => size'[i] <= Capacity
    BY <1>1, <1>2 DEF Counted, Sizes
  <1>4. ~rolled =>
          /\ \A i \in Inodes : size'[i] <= LeafCount(disk'[i])
          /\ FillsFile => op.want <= LeafCount(tmp)
          /\ ~FillsFile => (op.cmd \in {"cp", "incp"} => op.want <= LeafCount(disk'[op.child]))
    <2> SUFFICES ASSUME ~rolled
                 PROVE  /\ \A i \in Inodes : size'[i] <= LeafCount(disk'[i])
                        /\ FillsFile => op.want <= LeafCount(tmp)
                        /\ ~FillsFile => (op.cmd \in {"cp", "incp"}
                                            => op.want <= LeafCount(disk'[op.child]))
      OBVIOUS
    <2>1. \A i \in Inodes : size[i] <= LeafCount(disk[i])
      BY <1>1, AllBacked
    <2>2. /\ size[op.ino] + op.todo <= LeafCount(tmp) /\ LeafCount(tmp) \in Nat
          /\ size[op.ino] \in Nat /\ op.todo \in Nat
      BY <1>1, CountTypes, Working DEF Counted, Backed, Ops
    <2>3. size'[op.ino] <= LeafCount(tmp)
      BY <1>2, <2>2
    <2>4. FillsFile => op.want = size[op.ino] + op.todo
      BY <1>1 DEF Counted, Budget
    <2>5. ~FillsFile => (op.cmd \in {"cp", "incp"} => op.want <= LeafCount(disk[op.child]))
      BY <1>1 DEF Counted, Backed
    <2>6. ~FillsFile => op.child # op.ino
      BY DEF FillsFile
    <2> QED
      BY <1>1, <1>2, <2>1, <2>2, <2>3, <2>4, <2>5, <2>6
  <1>5. CASE op.ino = op.child /\ op' = [op EXCEPT !.at = "attach"]
    <2>1. /\ op'.at = "attach" /\ op'.ino = op.ino /\ op'.child = op.child
          /\ op'.cmd = op.cmd /\ op'.want = op.want
      BY <1>1, <1>5 DEF Ops
    <2>2. Sizes' /\ Budget'
      BY <1>1, <1>3, <2>1 DEF Sizes, Budget
    <2>3. ~rolled' => Backed'
      BY <1>1, <1>2, <1>4, <1>5, <2>1 DEF Backed, FillsFile
    <2> QED
      BY <2>2, <2>3 DEF Counted
  <1>6. CASE op.cmd = "over" /\ op' = [op EXCEPT !.at = "size"]
    <2>1. op'.at = "size" /\ op'.ino = op.ino /\ op'.want = op.want
      BY <1>1, <1>6 DEF Ops
    <2>2. Sizes' /\ Budget'
      BY <1>1, <1>3, <2>1 DEF Sizes, Budget
    <2>3. ~rolled' => Backed'
      BY <1>1, <1>2, <1>4, <1>6, <2>1 DEF Backed, FillsFile
    <2> QED
      BY <2>2, <2>3 DEF Counted
  <1>7. CASE op.ino # op.child /\ op.cmd # "over" /\ Attached(disk')
    <2>1. \/ op' = Idle
          \/ op.cmd \in {"cp", "incp"} /\ op' = [op EXCEPT !.at = "size", !.ino = op.child]
          \/ op' = [op EXCEPT !.at = "free", !.ino = op.child]
      BY <1>7 DEF Attached, Leave, FreeChild
    <2>2. /\ op'.at \in {"idle", "size", "free"} /\ op'.want <= Capacity
          /\ op'.at = "size" => op'.ino = op.child /\ op'.want = op.want
                                /\ op.cmd \in {"cp", "incp"}
      <3>1. CASE op' = Idle
        BY <1>1, <3>1 DEF Idle, Begin
      <3>2. CASE op.cmd \in {"cp", "incp"} /\ op' = [op EXCEPT !.at = "size", !.ino = op.child]
        BY <1>1, <3>2 DEF Ops
      <3>3. CASE op' = [op EXCEPT !.at = "free", !.ino = op.child]
        BY <1>1, <3>3 DEF Ops
      <3> QED
        BY <2>1, <3>1, <3>2, <3>3
    <2>3. Sizes' /\ Budget'
      BY <1>1, <1>3, <2>2 DEF Sizes, Budget
    <2>4. ~rolled' => Backed'
      BY <1>1, <1>4, <1>7, <2>2 DEF Backed, FillsFile
    <2> QED
      BY <2>3, <2>4 DEF Counted
  <1> QED
    BY <1>5, <1>6, <1>7 DEF CreateDone

\* A creation of a file that fails before it made a leaf had all it wanted.
LEMMA CreateFailCounts ==
    ASSUME Typed, Typed', Safe, Counted, CreateFail
    PROVE  Counted'
  <1>1. /\ op.at = "create" /\ op.ino \in Inodes /\ op \in Ops
        /\ op.cmd \in {"cp", "incp", "mkdir", "mv", "over"}
        /\ UNCHANGED <<disk, itype, size>> /\ itype[op.ino] # "free"
        /\ op.want <= Capacity /\ 0 <= Capacity /\ Sizes
    BY Working, Creating, Constants DEF CreateFail, Counted, Sizes, Typed, OpOK
  <1>2. rolled' = (rolled \/ op.done > 0)
    BY DEF CreateFail
  <1>3. /\ op'.at \in {"idle", "size", "free"} /\ op'.want <= Capacity
        /\ op'.at = "size" => op.cmd = "over" /\ op'.ino = op.ino /\ op'.want = op.want
    <2>1. \/ op' = Idle
          \/ op.cmd = "over" /\ op' = [op EXCEPT !.at = "size"]
          \/ op' = [op EXCEPT !.at = "free", !.ino = op.child]
      BY DEF CreateFail, NotAttached, Leave, FreeChild
    <2>2. CASE op' = Idle
      BY <1>1, <2>2 DEF Idle, Begin
    <2>3. CASE op.cmd = "over" /\ op' = [op EXCEPT !.at = "size"]
      BY <1>1, <2>3 DEF Ops
    <2>4. CASE op' = [op EXCEPT !.at = "free", !.ino = op.child]
      BY <1>1, <2>4 DEF Ops
    <2> QED
      BY <2>1, <2>2, <2>3, <2>4
  <1>4. Sizes' /\ Budget'
    BY <1>1, <1>3 DEF Sizes, Budget
  <1>5. ~rolled' => Backed'
    <2> SUFFICES ASSUME ~rolled' PROVE Backed'
      OBVIOUS
    <2>1. ~rolled /\ op.done = 0
      <3>1. op.done \in Nat /\ ~rolled /\ ~(op.done > 0)
        BY <1>1, <1>2 DEF Ops
      <3> QED
        BY <3>1
    <2>2. \A i \in Inodes : size[i] <= LeafCount(disk[i])
      BY <1>1, <2>1, AllBacked
    <2>3. op.cmd = "over" => op.want <= LeafCount(disk[op.ino])
      <3> SUFFICES ASSUME op.cmd = "over" PROVE op.want <= LeafCount(disk[op.ino])
        OBVIOUS
      <3>1. LeafCount(disk[op.ino]) = LeafCount(tmp)
        BY <1>1, <2>1 DEF Counted, Backed, LeafCount
      <3>2. ~(op.want > LeafCount(tmp))
        BY <1>1, RoomLeft DEF CreateFail, Counted, FillsFile
      <3>3. op.want \in Nat /\ LeafCount(tmp) \in Nat
        BY <1>1, CountTypes DEF Ops
      <3> QED
        BY <3>1, <3>2, <3>3
    <2> QED
      BY <1>1, <1>3, <2>2, <2>3 DEF Backed
  <1> QED
    BY <1>4, <1>5 DEF Counted

------------------------------------------------------------------------------
(* The invariant and what follows from it.                                  *)

LEMMA InitCounts == Init => CountInv
  <1> SUFFICES ASSUME Init PROVE Counted
    BY DEF CountInv
  <1>1. op.at = "idle" /\ op.want = 0 /\ Typed
    BY InitTyped DEF Init, Idle, Begin
  <1>2. \A i \in Inodes : size[i] = (IF i = RootId THEN 1 ELSE 0)
                          /\ itype[i] = (IF i = RootId THEN "dirc" ELSE "free")
    BY DEF Init
  <1>3. Sizes
    BY <1>1, <1>2, Constants DEF Sizes
  <1>4. Budget
    BY <1>1 DEF Budget
  <1>5. LeafCount(disk[RootId]) >= 1 /\ RootId \in Inodes
    <2>1. LeafSlot(0) = 0 /\ 0 \in 0 .. Capacity - 1
      BY Numbered, Constants DEF LeafSlot
    <2>2. 0 \in Slots /\ 0 \notin Deep /\ RootId \in Inodes
      BY <2>1, LeafSlotIsLeaf, Constants DEF Inodes, RootId
    <2>3. disk[RootId][0] = 1
      BY <2>2 DEF Init, NoLinks
    <2>4. 0 \in UsedLeaves(disk[RootId])
      BY <2>2, <2>3 DEF UsedLeaves, UsedSlots, FreeLink
    <2>5. LeafCount(disk[RootId]) # 0
      BY <2>4, CountTypes, FS_EmptySet DEF LeafCount
    <2> QED
      BY <2>2, <2>5, CountTypes
  <1>6. Backed
    <2>1. ASSUME NEW i \in Inodes PROVE size[i] <= LeafCount(disk[i])
      <3>1. LeafCount(disk[i]) \in Nat
        BY CountTypes
      <3> QED
        BY <1>2, <1>5, <3>1
    <2> QED
      BY <1>1, <2>1 DEF Backed
  <1> QED
    BY <1>3, <1>4, <1>6 DEF Counted

LEMMA NextCounts ==
    ASSUME StackWords = {}, IInv, CountInv, [Next]_vars
    PROVE  CountInv'
  <1>1. CASE UNCHANGED vars
    <2>1. EmptyAmount' = EmptyAmount
      BY <1>1 DEF EmptyAmount, vars
    <2> QED
      BY <1>1, <2>1 DEF vars, CountInv, Counted, Sizes, Budget, Backed, Excused, FillsFile
  <1>2. CASE Next
    <2> SUFFICES ASSUME ~torn' PROVE Counted'
      BY DEF CountInv
    <2>1. Typed /\ Typed' /\ Safe /\ Counted
      BY <1>2, NextTyped, TornStays DEF IInv, CountInv
    <2>2. CASE Start
      BY <2>1, <2>2, StartCounts
    <2>3. CASE Crash
      BY <2>1, <2>3, CrashCounts
    <2>4. CASE Work
      BY <2>1, <2>4, NewFileCounts, AsideCounts, NewDirCounts, AttachCounts, AllocCounts,
         FlushCounts, CreateDoneCounts, CreateFailCounts, FreeSlotCounts,
         ShrinkDoneCounts, ClearCounts, SizeCounts DEF Work
    <2> QED
      BY <1>2, <2>2, <2>3, <2>4 DEF Next
  <1> QED
    BY <1>1, <1>2

LEMMA AlwaysCounted ==
    ASSUME StackWords = {} PROVE Spec => [](IInv /\ CountInv)
  <1>1. Init => IInv /\ CountInv
    BY InitTyped, InitSafe, InitCounts DEF IInv
  <1>2. IInv /\ CountInv /\ [Next]_vars => (IInv /\ CountInv)'
    BY NextSafe, NextCounts
  <1> QED
    BY <1>1, <1>2, PTL DEF Spec

\* While no kill hit a removal and no create_empty_links() failed part way, a
\* file or directory has, between commands, a leaf for every block its size
\* claims; kills in creations are allowed.
THEOREM SizesAreBacked ==
    ASSUME StackWords = {} PROVE Spec => []SizeBacked
  <1>1. IInv /\ CountInv => SizeBacked
    BY DEF CountInv, Counted, Backed, Excused, SizeBacked, LeafCount
  <1> QED
    BY <1>1, AlwaysCounted, PTL

\* The space check of cp and incp is enough for an inode whose size tells how
\* many leaves it has, so blocks do not run out in the middle of a file.
THEOREM SpaceCheckSuffices ==
    ASSUME StackWords = {} PROVE Spec => []ExhaustionFindsNothing
  <1>1. IInv /\ CountInv => ExhaustionFindsNothing
    <2> SUFFICES ASSUME IInv, CountInv, ~torn, op.at = "create", op.done < op.todo,
                        \A b \in Blocks : ~bm[b],
                        LeafCount(tmp) = size[op.ino] + op.done
                 PROVE  op.done = 0
      BY DEF ExhaustionFindsNothing, LeafCount
    <2>1. /\ Typed /\ Safe /\ Counted /\ op \in Ops
          /\ op.done \in Nat /\ op.todo \in Nat /\ size[op.ino] \in Nat
      BY Working DEF IInv, CountInv, Ops
    <2>2. CASE FillsFile
      <3>1. op.want = size[op.ino] + op.todo
        BY <2>1, <2>2 DEF Counted, Budget
      <3>2. op.want > LeafCount(tmp)
        BY <2>1, <3>1
      <3> QED
        BY <2>1, <2>2, <3>2, RoomLeft DEF Counted
    <2>3. CASE ~FillsFile
      <3>1. op.todo = 1
        BY <2>1, <2>3 DEF Counted, Budget
      <3> QED
        BY <2>1, <3>1
    <2> QED
      BY <2>2, <2>3
  <1> QED
    BY <1>1, AlwaysCounted, PTL
==============================================================================
