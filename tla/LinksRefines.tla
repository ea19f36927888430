---------------------------- MODULE LinksRefines ----------------------------
(***************************************************************************)
(* Links implements Allocation, leaks no block between commands unless one *)
(* failed part way or was killed, and keeps the inode bitmap in step with  *)
(* the inode types.  Every step does one of three things to what is held:  *)
(* nothing, take a free block for one slot, or let go of links of one      *)
(* holder.                                                                 *)
(***************************************************************************)
EXTENDS LinksSafety, MCLinks

Keeps == Held' = Held /\ bm' = bm

Takes ==
    \E h \in Holders, s \in Slots, b \in Blocks :
        /\ Held[h][s] = FreeLink /\ bm[b]
        /\ Held' = [Held EXCEPT ![h][s] = b]
        /\ bm' = [bm EXCEPT ![b] = FALSE]

\* What becomes free in the bitmap is a link of h that is held no more.
GivesBack(h) ==
    /\ \A g \in Holders : g # h => Held'[g] = Held[g]
    /\ Within(Held'[h], Held[h])
    /\ \A b \in Blocks : bm[b] => bm'[b]
    /\ \A b \in Blocks : bm'[b] => bm[b] \/ \E s \in Slots : Held[h][s] = b

\* ... and what is held no more is free in the bitmap.
NothingLost(h) ==
    \A s \in Slots :
        Held[h][s] # FreeLink => Held'[h][s] # FreeLink \/ bm'[Held[h][s]]

LEMMA SameHeld ==
    ASSUME \A h \in Holders : Held'[h] = Held[h]
    PROVE  Held' = Held
  BY DEF Held

------------------------------------------------------------------------------
(* Steps that keep what is held.                                            *)

LEMMA TakenUpKeeps ==
    ASSUME Typed, Typed', ~InHand, UNCHANGED <<bm, disk>>,
           InHand' => op'.ino \in Inodes /\ tmp' = disk[op'.ino]
    PROVE  Keeps
  <1>1. \A h \in Holders : Held'[h] = Held[h]
    BY Working DEF Held, Holders
  <1> QED
    BY <1>1, SameHeld DEF Keeps

LEMMA StartKeeps ==
    ASSUME Typed, Typed', Safe, Start
    PROVE  Keeps
  <1>1. op.at = "idle" /\ ~InHand /\ UNCHANGED <<bm, disk>>
    BY DEF Start, StartCopy, StartIncp, StartFile, StartOverwrite, StartMkdir,
           StartMove, StartRemove, InHand
  <1>2. ASSUME NEW cmd, NEW n, StartFile(cmd, n) PROVE Keeps
    <2>1. op'.at = "newfile"
      BY <1>2 DEF StartFile, Begin
    <2> QED
      BY <1>1, <2>1, TakenUpKeeps DEF InHand
  <1>3. CASE StartMkdir
    <2>1. op'.at = "newdir" /\ tmp' = NoLinks
      BY <1>1, <1>3, Working DEF StartMkdir, Begin
    <2>2. op'.ino # 0 => op'.ino \in Inodes /\ disk[op'.ino] = NoLinks
      <3>1. ASSUME NEW i \in Inodes, ibm[i] PROVE disk[i] = NoLinks
        BY <1>1, <3>1, Working DEF Safe, FreeInodes, Held, Holders
      <3> QED
        BY <1>3, <3>1 DEF StartMkdir, FirstFree, Begin
    <2>3. \A h \in Holders : Held'[h] = Held[h]
      BY <1>1, <2>1, <2>2, Working DEF Held, Holders
    <2> QED
      BY <1>1, <2>3, SameHeld DEF Keeps
  <1>4. CASE StartOverwrite
    <2>1. PICK i \in Inodes :
            /\ op'.ino = i
            /\ \/ op'.at \in {"create", "shrink"} /\ tmp' = disk[i]
               \/ op'.at = "size"
      BY <1>4 DEF StartOverwrite, Begin
    <2> QED
      BY <1>1, <2>1, TakenUpKeeps DEF InHand
  <1>5. CASE StartMove
    BY <1>1, <1>5, TakenUpKeeps DEF StartMove, Begin, InHand
  <1>6. CASE StartRemove
    BY <1>1, <1>6, TakenUpKeeps DEF StartRemove, Begin, InHand
  <1> QED
    BY <1>2, <1>3, <1>4, <1>5, <1>6 DEF Start, StartCopy, StartIncp

\* Where a command goes once add_to_parent() has returned, no links are held,
\* or those of the child as they are in the file.
LEMMA AttachedHands ==
    ASSUME Typed, op.at \in {"attach", "create"},
           op.cmd \in {"cp", "incp", "mkdir", "mv"},
           NEW d, Attached(d) \/ NotAttached(d)
    PROVE  \/ op'.at \in {"idle", "size"}
           \/ op'.at = "free" /\ op'.ino = op.child /\ op.child \in Inodes
                /\ tmp' = d[op.child]
  <1>1. op.cmd = "cp" => op.child \in Inodes
    BY Working DEF Typed, OpOK, Holders
  <1>2. \/ Leave
        \/ op' = [op EXCEPT !.at = "size", !.ino = op.child]
        \/ op.child \in Inodes /\ FreeChild(d)
    BY <1>1, Working DEF Attached, NotAttached, Holders
  <1>3. CASE Leave
    BY <1>3 DEF Leave, Idle, Begin
  <1>4. CASE op' = [op EXCEPT !.at = "size", !.ino = op.child]
    BY <1>4, Working DEF Ops
  <1>5. CASE op.child \in Inodes /\ FreeChild(d)
    BY <1>5, Working DEF FreeChild, Ops
  <1> QED
    BY <1>2, <1>3, <1>4, <1>5

LEMMA AttachKeeps ==
    ASSUME Typed, Typed',
           AttachInPlace \/ AttachNoParent \/ \E p \in Inodes : AttachGrow(p)
    PROVE  Keeps
  <1>1. op.at = "attach" /\ ~InHand /\ UNCHANGED <<bm, disk>>
    BY DEF AttachInPlace, AttachNoParent, AttachGrow, InHand
  <1>2. op.cmd \in {"cp", "incp", "mkdir", "mv"}
    BY <1>1 DEF Typed, OpOK
  <1>3. CASE AttachInPlace
    BY <1>1, <1>2, <1>3, AttachedHands, TakenUpKeeps DEF AttachInPlace, InHand
  <1>4. CASE AttachNoParent
    BY <1>1, <1>4, TakenUpKeeps DEF AttachNoParent, Leave, Idle, Begin, InHand
  <1>5. ASSUME NEW p \in Inodes, AttachGrow(p) PROVE Keeps
    <2>1. op'.ino = p /\ tmp' = disk[p]
      BY <1>5, Working DEF AttachGrow, Ops
    <2> QED
      BY <1>1, <2>1, TakenUpKeeps
  <1> QED
    BY <1>3, <1>4, <1>5

LEMMA NewFileKeeps ==
    ASSUME Typed, Typed', WriteNewFile
    PROVE  Keeps
  <1>1. /\ op.at = "newfile" /\ op.ino \in Inodes /\ op'.ino = op.ino
        /\ tmp' = disk[op.ino] /\ UNCHANGED <<bm, disk>>
    BY Working DEF WriteNewFile, Ops
  <1> QED
    BY <1>1, TakenUpKeeps DEF InHand

LEMMA SizeKeeps ==
    ASSUME Typed, Typed', SetSize
    PROVE  Keeps
  BY TakenUpKeeps DEF SetSize, Idle, Begin, InHand

LEMMA NewDirKeeps ==
    ASSUME Typed, Typed', Safe, WriteNewDir
    PROVE  Keeps
  <1>1. /\ op.at = "dirblock" /\ op'.at = "attach" /\ op.ino \in Inodes
        /\ disk' = [disk EXCEPT ![op.ino][0] = tmp[0]]
        /\ bm' = bm
    BY Working DEF WriteNewDir, Ops, Holders
  <1>2. disk'[op.ino] = [NoLinks EXCEPT ![0] = tmp[0]]
    BY <1>1, Making, Working
  <1>3. \A s \in Slots : disk'[op.ino][s] = tmp[s]
    BY <1>1, <1>2, Making, Shape DEF NoLinks
  <1>4. disk'[op.ino] = tmp
    BY <1>2, <1>3, Working DEF NoLinks
  <1>5. \A h \in Holders : Held'[h] = Held[h]
    BY <1>1, <1>4, Making, Working DEF Held, InHand, Holders
  <1> QED
    BY <1>1, <1>5, SameHeld DEF Keeps

LEMMA FlushKeeps ==
    ASSUME Typed, Typed', FlushLinks
    PROVE  Keeps
  <1>1. /\ op.at \in {"create", "shrink"} /\ op.ino \in Inodes
        /\ UNCHANGED <<bm, tmp, op>>
    BY Working DEF FlushLinks
  <1>2. \A i \in Inodes : i # op.ino => disk'[i] = disk[i]
    BY <1>1, Working DEF FlushLinks
  <1>3. \A h \in Holders : Held'[h] = Held[h]
    BY <1>1, <1>2, Working DEF Held, InHand, Holders
  <1> QED
    BY <1>1, <1>3, SameHeld DEF Keeps

LEMMA CreateDoneKeeps ==
    ASSUME Typed, Typed', CreateDone
    PROVE  Keeps
  <1>1. op.at = "create" /\ disk' = [disk EXCEPT ![op.ino] = tmp] /\ bm' = bm
        /\ op.ino \in Inodes
    BY Working DEF CreateDone
  <1>2. \/ op'.at \in {"attach", "size", "idle"}
        \/ /\ op'.at = "free" /\ op'.ino = op.child
           /\ op.child \in Inodes /\ tmp' = disk'[op.child]
    <2>1. CASE \/ op' = [op EXCEPT !.at = "attach"]
               \/ op' = [op EXCEPT !.at = "size"]
      BY <2>1, Working DEF Ops
    <2>2. CASE op.cmd # "over" /\ Attached(disk')
      <3>1. op.cmd \in {"cp", "incp", "mkdir", "mv"}
        BY <1>1, <2>2 DEF Typed, OpOK
      <3> QED
        BY <1>1, <2>2, <3>1, AttachedHands
    <2> QED
      BY <2>1, <2>2 DEF CreateDone
  <1>3. \A h \in Holders : Held'[h] = Held[h]
    BY <1>1, <1>2, Working DEF Held, InHand, Holders
  <1> QED
    BY <1>1, <1>3, SameHeld DEF Keeps

LEMMA ShrinkDoneKeeps ==
    ASSUME Typed, Typed', ShrinkDone
    PROVE  Keeps
  <1>1. /\ op.at = "shrink" /\ op.ino \in Inodes /\ op'.at = "size"
        /\ disk' = [disk EXCEPT ![op.ino] = tmp] /\ bm' = bm
    BY Working DEF ShrinkDone, Ops
  <1>2. \A h \in Holders : Held'[h] = Held[h]
    BY <1>1, Working DEF Held, InHand, Holders
  <1> QED
    BY <1>1, <1>2, SameHeld DEF Keeps

LEMMA FreeBitKeeps ==
    ASSUME Typed, Typed', FreeBit
    PROVE  Keeps
  <1>1. /\ op.at = "free" /\ op'.at = "clear" /\ op'.ino = op.ino
        /\ UNCHANGED <<bm, disk, tmp>>
    BY Working DEF FreeBit, Ops
  <1>2. \A h \in Holders : Held'[h] = Held[h]
    BY <1>1 DEF Held, InHand
  <1> QED
    BY <1>1, <1>2, SameHeld DEF Keeps

------------------------------------------------------------------------------
(* Steps that take a block.                                                 *)

LEMMA OneSlotMore ==
    ASSUME Typed, Typed', NEW h \in Holders, NEW s \in Slots, NEW b \in Blocks,
           \A g \in Holders : g # h => Held'[g] = Held[g],
           \A u \in Slots : Held'[h][u] = IF u = s THEN b ELSE Held[h][u]
    PROVE  Held' = [Held EXCEPT ![h][s] = b]
  <1>1. Held \in LinksOf /\ Held' \in LinksOf
    BY HeldType
  <1>2. Held'[h] = [Held[h] EXCEPT ![s] = b]
    BY <1>1 DEF LinksOf
  <1>3. \A g \in Holders : Held'[g] = [Held EXCEPT ![h][s] = b][g]
    BY <1>1, <1>2 DEF LinksOf
  <1> QED
    BY <1>1, <1>3 DEF LinksOf

LEMMA TakeDirBlockTakes ==
    ASSUME Typed, Typed', Safe, TakeDirBlock
    PROVE  Keeps \/ Takes
  <1>1. /\ op.at = "newdir" /\ op'.at = "dirblock" /\ op'.ino = op.ino
        /\ disk' = disk /\ tmp = NoLinks
    BY Working DEF TakeDirBlock, Ops
  <1>2. \A h \in Holders : h # op.ino => Held'[h] = Held[h]
    BY <1>1 DEF Held, InHand
  <1>3. Held[op.ino] = tmp /\ Held'[op.ino] = tmp' /\ op.ino \in Holders /\ 0 \in Slots
    BY <1>1, Making, Shape, Working DEF Held, InHand
  <1>4. CASE UNCHANGED <<bm, tmp>>
    <2>1. \A h \in Holders : Held'[h] = Held[h]
      BY <1>2, <1>3, <1>4
    <2> QED
      BY <1>4, <2>1, SameHeld DEF Keeps
  <1>5. ASSUME NEW b \in Blocks, bm[b], bm' = [bm EXCEPT ![b] = FALSE],
               tmp' = [tmp EXCEPT ![0] = b]
        PROVE  Takes
    <2>1. \A u \in Slots : Held'[op.ino][u] = IF u = 0 THEN b ELSE Held[op.ino][u]
      BY <1>3, <1>5, Working
    <2>2. Held' = [Held EXCEPT ![op.ino][0] = b]
      BY <1>2, <1>3, <2>1, OneSlotMore
    <2>3. Held[op.ino][0] = FreeLink
      BY <1>1, <1>3 DEF NoLinks
    <2> QED
      BY <1>3, <1>5, <2>2, <2>3 DEF Takes
  <1> QED
    BY <1>4, <1>5 DEF TakeDirBlock, FirstFree

LEMMA AllocTakes ==
    ASSUME Typed, Typed', Safe, AllocLink
    PROVE  Takes
  <1>1. op.at = "create" /\ op'.at = "create" /\ op'.ino = op.ino /\ disk' = disk
    BY Working, CountedType DEF AllocLink, Ops
  <1>2. PICK s \in Slots, b \in Blocks :
          /\ tmp[s] = FreeLink /\ bm[b]
          /\ bm' = [bm EXCEPT ![b] = FALSE] /\ tmp' = [tmp EXCEPT ![s] = b]
    BY DEF AllocLink, FirstFree, IsNextSlot
  <1>3. /\ op.ino \in Holders /\ Held[op.ino] = tmp
        /\ \A g \in Holders : g # op.ino => Held'[g] = Held[g]
        /\ \A u \in Slots : Held'[op.ino][u] = IF u = s THEN b ELSE Held[op.ino][u]
    BY <1>1, <1>2, Creating, Working DEF Held, InHand
  <1>4. Held' = [Held EXCEPT ![op.ino][s] = b]
    BY <1>3, OneSlotMore
  <1> QED
    BY <1>2, <1>3, <1>4 DEF Takes

------------------------------------------------------------------------------
(* Steps that let go of links.                                              *)

LEMMA GiveBackGives ==
    ASSUME Typed, Typed', Safe, GiveBackDir
    PROVE  op.ino \in Holders /\ GivesBack(op.ino) /\ NothingLost(op.ino)
  <1>1. /\ op.at = "dirblock" /\ op'.at = "attach"
        /\ bm' = [b \in Blocks |-> bm[b] \/ b = tmp[0]]
        /\ disk' = disk /\ op.ino \in Holders
    BY Working DEF GiveBackDir, Ops
  <1>2. \A h \in Holders :
          Held'[h] = IF h = op.ino THEN NoLinks ELSE Held[h]
    BY <1>1, Making, Working DEF Held, InHand, Holders
  <1>3. Held[op.ino] = tmp /\ \A s \in Slots : s # 0 => tmp[s] = FreeLink
    BY <1>1, Making
  <1>4. \A b \in Blocks : bm'[b] <=> bm[b] \/ b = tmp[0]
    BY <1>1, Zenon
  <1>5. GivesBack(op.ino)
    BY <1>1, <1>2, <1>3, <1>4, Shape DEF GivesBack, Within, NoLinks
  <1>6. NothingLost(op.ino)
    <2>1. tmp[0] # FreeLink => tmp[0] \in Blocks
      BY Working, Shape DEF Links
    <2> QED
      BY <1>3, <1>4, <2>1 DEF NothingLost
  <1> QED
    BY <1>1, <1>5, <1>6

LEMMA CreateFailGives ==
    ASSUME Typed, Typed', Safe, CreateFail, StackWords = {}
    PROVE  op.ino \in Holders /\ Held[op.ino] = tmp /\ Held'[op.ino] = disk[op.ino]
           /\ GivesBack(op.ino)
  <1>1. op.at = "create" /\ disk' = disk /\ op.ino \in Holders
        /\ Held[op.ino] = tmp /\ Within(disk[op.ino], tmp)
    BY Creating DEF CreateFail
  <1>2. \A b \in Blocks :
          bm'[b] <=> bm[b] \/ \E s \in Pending \union ResetSlots : tmp[s] = b
    <2>1. bm' = [b \in Blocks |-> \/ bm[b]
                                  \/ b \in {}
                                  \/ \E s \in Pending \union ResetSlots : tmp[s] = b]
      BY DEF CreateFail
    <2> QED
      BY <2>1, Zenon
  <1>3. \/ op'.at \in {"size", "idle"}
        \/ op'.at = "free" /\ op'.ino = op.child /\ op.child \in Inodes
             /\ tmp' = disk[op.child]
    <2>1. CASE op.ino = op.child /\ FreeChild(disk)
      BY <1>1, <2>1, Creating, Working DEF FreeChild, Ops
    <2>2. CASE op' = [op EXCEPT !.at = "size"]
      BY <2>2, Working DEF Ops
    <2>3. CASE op.cmd # "over" /\ NotAttached(disk)
      <3>1. op.cmd \in {"cp", "incp", "mkdir", "mv"}
        BY <1>1, <2>3 DEF Typed, OpOK
      <3> QED
        BY <1>1, <2>3, <3>1, AttachedHands
    <2> QED
      BY <2>1, <2>2, <2>3 DEF CreateFail
  <1>4. \A h \in Holders :
          Held'[h] = IF h = op.ino THEN disk[op.ino] ELSE Held[h]
    BY <1>1, <1>3, Creating, Working DEF Held, InHand, Holders
  <1>5. \A s \in Pending \union ResetSlots : s \in Slots
    BY <1>1, FreedIsNew
  <1> QED
    BY <1>1, <1>2, <1>4, <1>5 DEF GivesBack

LEMMA FreeSlotGives ==
    ASSUME Typed, Typed', Safe, NEW s \in Slots, FreeLast(s) \/ FreeNext(s)
    PROVE  op.ino \in Holders /\ GivesBack(op.ino) /\ NothingLost(op.ino)
  <1>1. /\ op.at \in {"shrink", "free"} /\ op.ino \in Inodes
        /\ FreeSlot(s) /\ tmp[s] \in Blocks
    BY Working DEF FreeLast, FreeNext, CanFree, LastUsed, UsedSlots, Links
  <1>2. op'.at = op.at /\ op'.ino = op.ino
    BY Working, CountedType DEF FreeLast, FreeNext
  <1>3. \A u \in Slots : tmp'[u] = IF u = s THEN FreeLink ELSE tmp[u]
    BY <1>1, Working DEF FreeSlot
  <1>4. \A i \in Inodes : i # op.ino => disk'[i] = disk[i]
    BY <1>1, Working DEF FreeSlot, Zeroed
  <1>5. \A h \in Holders : Held'[h] = IF h = op.ino THEN tmp' ELSE Held[h]
    BY <1>1, <1>2, <1>4, Working DEF Held, InHand, Holders
  <1>6. Held[op.ino] = tmp /\ op.ino \in Holders
    BY <1>1 DEF Held, InHand, Holders
  <1>7. \A b \in Blocks : bm'[b] <=> bm[b] \/ b = tmp[s]
    BY <1>1, Working DEF FreeSlot, Maps
  <1>8. GivesBack(op.ino)
    BY <1>3, <1>5, <1>6, <1>7 DEF GivesBack, Within
  <1>9. NothingLost(op.ino)
    BY <1>1, <1>3, <1>5, <1>6, <1>7 DEF NothingLost
  <1> QED
    BY <1>6, <1>8, <1>9

LEMMA ClearGives ==
    ASSUME Typed, Typed', Safe, ClearInode
    PROVE  /\ op.ino \in Holders /\ GivesBack(op.ino)
           /\ tmp = NoLinks => NothingLost(op.ino)
  <1>1. /\ op.at = "clear" /\ op.ino \in Inodes /\ op'.at = "idle"
        /\ disk' = [disk EXCEPT ![op.ino] = NoLinks] /\ bm' = bm
    BY Working DEF ClearInode, Leave, Idle, Begin
  <1>2. \A h \in Holders :
          Held'[h] = IF h = op.ino THEN NoLinks ELSE Held[h]
    BY <1>1, Working DEF Held, InHand, Holders
  <1>3. Held[op.ino] = tmp /\ op.ino \in Holders
    BY <1>1 DEF Held, InHand, Holders
  <1> QED
    BY <1>1, <1>2, <1>3 DEF GivesBack, Within, NoLinks, NothingLost

LEMMA CrashGives ==
    ASSUME Typed, Typed', Safe, Crash, ~torn'
    PROVE  op.ino \in Holders /\ GivesBack(op.ino)
  <1>1. /\ op.at \notin {"shrink", "free", "clear"}
        /\ op'.at = "idle" /\ UNCHANGED <<bm, disk>> /\ op.ino \in Holders
    BY Working DEF Crash, Leave, Idle, Begin
  <1>2. \A h \in Holders : Held'[h] = IF h = 0 THEN NoLinks ELSE disk[h]
    BY <1>1 DEF Held, InHand
  <1>3. \A h \in Holders : h # op.ino => Held'[h] = Held[h]
    BY <1>2 DEF Held
  <1>4. Within(Held'[op.ino], Held[op.ino])
    <2>1. CASE op.at = "create"
      BY <1>1, <1>2, <2>1, Creating
    <2>2. CASE op.at \in {"newdir", "dirblock"}
      <3>1. Held'[op.ino] = NoLinks
        BY <1>1, <1>2, <2>2 DEF Safe, KillLeaves
      <3> QED
        BY <3>1 DEF Within, NoLinks
    <2>3. CASE ~InHand
      <3>1. Held'[op.ino] = Held[op.ino]
        BY <1>1, <1>2, <2>3 DEF Held
      <3> QED
        BY <3>1 DEF Within
    <2> QED
      BY <1>1, <2>1, <2>2, <2>3 DEF InHand
  <1> QED
    BY <1>1, <1>3, <1>4 DEF GivesBack

\* Every step keeps what is held, takes a block, or lets go.
LEMMA Effect ==
    ASSUME Typed, Typed', Safe, StackWords = {}, Next, ~torn'
    PROVE  Keeps \/ Takes \/ (op.ino \in Holders /\ GivesBack(op.ino))
  BY StartKeeps, AttachKeeps, NewFileKeeps, SizeKeeps, NewDirKeeps, FlushKeeps,
     CreateDoneKeeps, ShrinkDoneKeeps, FreeBitKeeps, TakeDirBlockTakes, AllocTakes,
     GiveBackGives, CreateFailGives, FreeSlotGives, ClearGives, CrashGives
     DEF Next, Work

------------------------------------------------------------------------------
(* The refinement of Allocation.                                            *)

HeldSet(H) == {p \in Blocks \X Holders : \E s \in Slots : H[p[2]][s] = p[1]}

LEMMA HeldAre == Typed /\ Safe => HeldBlocks = HeldSet(Held)
  <1> SUFFICES ASSUME Typed, Safe PROVE HeldBlocks = HeldSet(Held)
    OBVIOUS
  <1>1. Held \in LinksOf
    BY NoLinksType DEF Typed, TypeOK, Held, LinksOf, Holders
  <1>2. \A h \in Holders, s \in Slots :
          Held[h][s] # FreeLink => Held[h][s] \in Blocks /\ ~bm[Held[h][s]]
    BY <1>1 DEF Safe, Exclusive, LinksOf, Links
  <1>3. \A p : p \in HeldBlocks <=>
               \E h \in Holders, s \in Slots :
                  /\ Held[h][s] # FreeLink /\ ~bm[Held[h][s]]
                  /\ p = <<Held[h][s], h>>
    <2>1. \A h \in Inodes \union {0} :
            Held[h] = IF InHand /\ op.ino = h THEN tmp
                      ELSE IF h = 0 THEN NoLinks ELSE disk[h]
      BY DEF Held, Holders
    <2> DEFINE L(h) == IF InHand /\ op.ino = h THEN tmp
                       ELSE IF h = 0 THEN NoLinks ELSE disk[h]
    <2>2. \A p : p \in HeldBlocks <=>
                 \E h \in Inodes \union {0} :
                    p \in {<<L(h)[s], h>> : s \in {u \in UsedSlots(L(h)) : ~bm[L(h)[u]]}}
      BY DEF HeldBlocks
    <2>3. \A h \in Holders : L(h) = Held[h]
      BY <2>1 DEF Holders
    <2> HIDE DEF L
    <2>4. \A p : p \in HeldBlocks <=>
                 \E h \in Holders : \E s \in UsedSlots(L(h)) :
                    ~bm[L(h)[s]] /\ p = <<L(h)[s], h>>
      BY <2>2 DEF Holders
    <2>5. \A h \in Holders : UsedSlots(L(h)) = {s \in Slots : Held[h][s] # FreeLink}
      BY <2>3 DEF UsedSlots
    <2> QED
      BY <2>3, <2>4, <2>5
  <1>4. FreeLink \notin Blocks
    BY DEF Blocks, FreeLink
  <1> QED
    BY <1>2, <1>3, <1>4 DEF HeldSet

LEMMA NextHeldAre == ASSUME Typed', Safe' PROVE HeldBlocks' = HeldSet(Held')
  <1>1. (Typed /\ Safe => HeldBlocks = HeldSet(Held))'
    BY HeldAre, PTL
  <1> QED
    BY <1>1 DEF HeldSet

LEMMA InitImplements == Init => A!Init
  <1> SUFFICES ASSUME Init PROVE A!Init
    OBVIOUS
  <1>1. HeldBlocks = HeldSet(Held)
    BY HeldAre, InitTyped, InitSafe
  <1>2. \A h \in Holders, s \in Slots :
          Held[h][s] = IF h = RootId /\ s = 0 THEN 1 ELSE FreeLink
    BY Shape DEF Init, Held, Holders, Inodes, InHand, Idle, Begin, NoLinks, RootId
  <1>3. RootId \in Holders /\ 0 \in Slots /\ 1 \in Blocks /\ FreeLink \notin Blocks
    BY Constants, Shape DEF Holders, Inodes, Blocks, RootId, FreeLink
  <1>4. HeldBlocks = {<<1, RootId>>}
    BY <1>1, <1>2, <1>3 DEF HeldSet
  <1>5. LostBlocks = {}
    BY <1>3, <1>4 DEF Init, LostBlocks
  <1> QED
    BY <1>3, <1>4, <1>5 DEF A!Init, Holders

LEMMA KeepsImplements ==
    ASSUME Typed, Typed', Safe, Safe', Keeps
    PROVE  UNCHANGED A!vars
  <1>1. HeldBlocks' = HeldBlocks
    BY HeldAre, NextHeldAre DEF Keeps, HeldSet
  <1>2. LostBlocks' = LostBlocks
    BY <1>1 DEF LostBlocks, Keeps
  <1> QED
    BY <1>1, <1>2 DEF A!vars

LEMMA TakesImplements ==
    ASSUME Typed, Typed', Safe, Safe', Takes
    PROVE  A!Take
  <1>1. PICK h \in Holders, s \in Slots, b \in Blocks :
          /\ Held[h][s] = FreeLink /\ bm[b]
          /\ Held' = [Held EXCEPT ![h][s] = b]
          /\ bm' = [bm EXCEPT ![b] = FALSE]
    BY DEF Takes
  <1>2. Held \in LinksOf /\ bm \in Maps
    BY HeldType
  <1>3. \A g \in Holders, u \in Slots :
          Held'[g][u] = IF g = h /\ u = s THEN b ELSE Held[g][u]
    BY <1>1, <1>2 DEF LinksOf
  <1>4. HeldBlocks = HeldSet(Held) /\ HeldBlocks' = HeldSet(Held')
    BY HeldAre, NextHeldAre
  <1>5. FreeLink \notin Blocks
    BY DEF Blocks, FreeLink
  <1>6. HeldBlocks' = HeldBlocks \union {<<b, h>>}
    BY <1>1, <1>3, <1>4, <1>5 DEF HeldSet
  <1>7. \A p \in HeldBlocks : p \in Blocks \X Holders /\ ~bm[p[1]]
    BY <1>4, <1>5 DEF HeldSet, Safe, Exclusive
  <1>8. b \notin A!BlocksOf(HeldBlocks) \union LostBlocks
    BY <1>1, <1>7 DEF A!BlocksOf, LostBlocks
  <1>9. LostBlocks' = LostBlocks
    <2>1. \A c \in Blocks : bm'[c] <=> bm[c] /\ c # b
      BY <1>1, <1>2 DEF Maps
    <2>2. {p[1] : p \in HeldBlocks'} = {p[1] : p \in HeldBlocks} \union {b}
      <3>1. <<b, h>>[1] = b
        OBVIOUS
      <3>2. \A H : {p[1] : p \in H \union {<<b, h>>}} = {p[1] : p \in H} \union {b}
        BY <3>1
      <3> QED
        BY <1>6, <3>2
    <2> QED
      BY <1>1, <2>1, <2>2 DEF LostBlocks
  <1>10. <<b, h>> \in HeldBlocks' \ HeldBlocks
    BY <1>1, <1>6, <1>7
  <1> QED
    BY <1>6, <1>8, <1>9, <1>10 DEF A!Take, Holders

LEMMA GivesImplements ==
    ASSUME Typed, Typed', Safe, Safe', NEW h \in Holders, GivesBack(h)
    PROVE  UNCHANGED A!vars \/ A!LetGo
  <1>1. HeldBlocks = HeldSet(Held) /\ HeldBlocks' = HeldSet(Held')
    BY HeldAre, NextHeldAre
  <1>2. FreeLink \notin Blocks
    BY DEF Blocks, FreeLink
  <1>3. HeldBlocks' \subseteq HeldBlocks
    BY <1>1, <1>2 DEF HeldSet, GivesBack, Within
  <1>4. \A p \in HeldBlocks \ HeldBlocks' : p[2] = h
    BY <1>1 DEF HeldSet, GivesBack
  <1>5. \A p \in HeldBlocks' : p \in Blocks \X Holders /\ ~bm'[p[1]]
    BY <1>1, <1>2 DEF HeldSet, Safe, Exclusive
  <1>6. \A b \in Blocks : bm'[b] => bm[b] \/ <<b, h>> \in HeldBlocks
    BY <1>1 DEF GivesBack, HeldSet
  <1>7. LostBlocks \subseteq LostBlocks'
    <2>1. \A b \in LostBlocks : <<b, h>> \notin HeldBlocks
      BY DEF LostBlocks
    <2>2. \A b \in LostBlocks : b \in Blocks /\ ~bm[b] /\ \A p \in HeldBlocks : p[1] # b
      BY DEF LostBlocks
    <2>3. \A b \in LostBlocks : b \in Blocks /\ ~bm'[b] /\ \A p \in HeldBlocks' : p[1] # b
      BY <1>3, <1>6, <2>1, <2>2
    <2> QED
      BY <2>3 DEF LostBlocks
  <1>8. LostBlocks' \subseteq LostBlocks \union A!BlocksOf(HeldBlocks \ HeldBlocks')
    BY DEF LostBlocks, GivesBack, A!BlocksOf
  <1>9. CASE HeldBlocks \ HeldBlocks' = {}
    <2>1. HeldBlocks' = HeldBlocks
      BY <1>3, <1>9
    <2>2. \A b \in Blocks : bm'[b] <=> bm[b]
      BY <1>5, <1>6, <2>1 DEF GivesBack
    <2>3. LostBlocks' = LostBlocks
      BY <2>1, <2>2 DEF LostBlocks
    <2> QED
      BY <2>1, <2>3 DEF A!vars
  <1>10. CASE HeldBlocks \ HeldBlocks' # {}
    BY <1>3, <1>4, <1>7, <1>8, <1>10 DEF A!LetGo
  <1> QED
    BY <1>9, <1>10

LEMMA StepImplements ==
    ASSUME StackWords = {}, IInv, [Next]_vars
    PROVE  [~torn' => UNCHANGED A!vars \/ A!Next]_vars
  <1> SUFFICES ASSUME Next, ~torn' PROVE UNCHANGED A!vars \/ A!Next
    OBVIOUS
  <1>1. Typed /\ Typed' /\ Safe /\ Safe'
    BY NextSafe, TornStays DEF IInv
  <1>2. CASE Keeps
    BY <1>1, <1>2, KeepsImplements
  <1>3. CASE Takes
    BY <1>1, <1>3, TakesImplements DEF A!Next
  <1>4. CASE op.ino \in Holders /\ GivesBack(op.ino)
    BY <1>1, <1>4, GivesImplements DEF A!Next
  <1> QED
    BY <1>1, <1>2, <1>3, <1>4, Effect

\* While no kill has hit a removal, every step of every command takes one free
\* block for one inode or lets go of blocks of one inode: no block passes from
\* one inode to another without having been free, and a lost block stays lost.
THEOREM AllocationImplemented ==
    ASSUME StackWords = {} PROVE Spec => ImplementsAllocation
  <1>1. IInv /\ [Next]_vars => [~torn' => UNCHANGED A!vars \/ A!Next]_vars
    BY StepImplements
  <1> QED
    BY AlwaysIInv, InitImplements, <1>1, PTL DEF Spec, ImplementsAllocation

------------------------------------------------------------------------------
(* What is lost: nothing, until a command is killed or fails part way.      *)

NoneLost == \A b \in Blocks : bm[b] \/ \E h \in Holders, s \in Slots : Held[h][s] = b

\* An inode is given back before it is cleared, with no link left.
ClearReady == op.at = "clear" => tmp = NoLinks /\ ibm[op.ino]

\* Before its first leaf a creation has taken link blocks only, with no data.
OnlyLinkBlocks ==
    op.at = "create" /\ op.done = 0 =>
        \A s \in Slots : tmp[s] # FreeLink /\ disk[op.ino][s] = FreeLink =>
            s \in Deep /\ \A u \in Below(s) \ Deep : tmp[u] = FreeLink

\* An inode of no type is free in the bitmap, or a command is making it.
UntypedIsFree ==
    \A i \in Inodes : itype[i] = "free" =>
        ibm[i] \/ (op.ino = i /\ op.at \in {"newfile", "newdir", "dirblock"})

Tidy ==
    /\ torn => crashes > 0
    /\ crashes = 0 => /\ ClearReady /\ OnlyLinkBlocks /\ UntypedIsFree
                      /\ ~rolled => NoneLost

LEMMA InitTidy == Init => Tidy
  <1> SUFFICES ASSUME Init PROVE Tidy
    OBVIOUS
  <1>1. NoneLost
    <2>1. RootId \in Holders /\ 0 \in Slots /\ Held[RootId][0] = 1
      BY Constants, Shape DEF Init, Held, Holders, Inodes, InHand, Idle, Begin, NoLinks, RootId
    <2> QED
      BY <2>1 DEF Init, NoneLost
  <1> QED
    BY <1>1 DEF Init, Tidy, ClearReady, OnlyLinkBlocks, UntypedIsFree, Idle, Begin

LEMMA NoneLostKept ==
    ASSUME Typed, Typed', NoneLost,
           \/ Keeps \/ Takes
           \/ \E h \in Holders : GivesBack(h) /\ NothingLost(h)
    PROVE  NoneLost'
  <1>1. CASE Keeps
    BY <1>1 DEF Keeps, NoneLost
  <1>2. CASE Takes
    <2>1. PICK h \in Holders, s \in Slots, b \in Blocks :
            /\ Held[h][s] = FreeLink
            /\ Held' = [Held EXCEPT ![h][s] = b]
            /\ bm' = [bm EXCEPT ![b] = FALSE]
      BY <1>2 DEF Takes
    <2>2. \A g \in Holders, u \in Slots :
            Held'[g][u] = IF g = h /\ u = s THEN b ELSE Held[g][u]
      BY <2>1, HeldType DEF LinksOf
    <2>3. \A c \in Blocks : bm'[c] <=> bm[c] /\ c # b
      BY <2>1, HeldType DEF Maps
    <2> QED
      BY <2>1, <2>2, <2>3, Constants DEF NoneLost
  <1>3. ASSUME NEW h \in Holders, GivesBack(h), NothingLost(h) PROVE NoneLost'
    <2> SUFFICES ASSUME NEW b \in Blocks, ~bm'[b]
                 PROVE  \E g \in Holders, s \in Slots : Held'[g][s] = b
      BY DEF NoneLost
    <2>1. PICK g \in Holders, s \in Slots : Held[g][s] = b
      BY <1>3 DEF GivesBack, NoneLost
    <2>2. Held'[g][s] = b
      BY <1>3, <2>1, Constants DEF GivesBack, Within, NothingLost
    <2> QED
      BY <2>2
  <1> QED
    BY <1>1, <1>2, <1>3

\* A creation that fails before its first leaf gives back all it took.
LEMMA CreateFailLoses ==
    ASSUME Typed, Typed', Safe, CreateFail, StackWords = {}, OnlyLinkBlocks, ~rolled'
    PROVE  NothingLost(op.ino)
  <1>1. op.at = "create" /\ op.done = 0
    <2>1. ~(op.done > 0)
      BY Zenon DEF CreateFail
    <2> QED
      BY <2>1, Working DEF CreateFail, Ops
  <1>2. Held[op.ino] = tmp /\ Held'[op.ino] = disk[op.ino]
    BY CreateFailGives
  <1>3. ASSUME NEW s \in Slots, tmp[s] # FreeLink, disk[op.ino][s] = FreeLink
        PROVE  bm'[tmp[s]]
    <2>1. s \in Pending
      BY <1>1, <1>3 DEF OnlyLinkBlocks, Pending
    <2>2. tmp[s] \in Blocks
      BY <1>3, Working DEF Links
    <2> QED
      BY <2>1, <2>2 DEF CreateFail
  <1> QED
    BY <1>2, <1>3 DEF NothingLost

LEMMA NextNoneLost ==
    ASSUME Typed, Typed', Safe, StackWords = {}, Next, crashes = 0, crashes' = 0,
           ClearReady, OnlyLinkBlocks, ~rolled', NoneLost
    PROVE  NoneLost'
  <1>1. ~Crash
    BY DEF Crash
  <1>2. \/ Keeps \/ Takes
        \/ op.ino \in Holders /\ GivesBack(op.ino) /\ NothingLost(op.ino)
    <2>1. CASE ClearInode
      <3>1. tmp = NoLinks
        BY <2>1 DEF ClearInode, ClearReady
      <3> QED
        BY <2>1, <3>1, ClearGives
    <2>2. CASE CreateFail
      BY <2>2, CreateFailGives, CreateFailLoses
    <2> QED
      BY <1>1, <2>1, <2>2, StartKeeps, AttachKeeps, NewFileKeeps, SizeKeeps,
         NewDirKeeps, FlushKeeps, CreateDoneKeeps, ShrinkDoneKeeps, FreeBitKeeps,
         TakeDirBlockTakes, AllocTakes, GiveBackGives, FreeSlotGives DEF Next, Work
  <1> QED
    BY <1>2, NoneLostKept

\* Where a step may go: to "clear" only from FreeBit, to "create" with the
\* links of the file.
LEMMA Goes ==
    ASSUME Typed, Next
    PROVE  /\ op'.at = "clear" => FreeBit
           /\ op'.at = "create" => \/ AllocLink \/ FlushLinks
                                   \/ tmp' = disk[op'.ino] /\ disk' = disk
  <1>1. CASE Start
    BY <1>1 DEF Start, StartCopy, StartIncp, StartFile, StartOverwrite, StartMkdir,
                StartMove, StartRemove, Begin
  <1>2. CASE \/ WriteNewFile \/ TakeDirBlock \/ WriteNewDir \/ GiveBackDir
             \/ \E p \in Inodes : AttachGrow(p)
    BY <1>2, Working DEF WriteNewFile, TakeDirBlock, WriteNewDir, GiveBackDir,
                         AttachGrow, Ops
  <1>3. CASE AttachInPlace \/ CreateDone \/ CreateFail
    <2>1. op.at = "attach" => op.cmd \in {"cp", "incp", "mkdir", "mv"}
      BY DEF Typed, OpOK
    <2>2. op.at = "create" /\ op.cmd # "over" => op.cmd \in {"cp", "incp", "mkdir", "mv"}
      BY DEF Typed, OpOK
    <2>3. CASE \/ op' = [op EXCEPT !.at = "attach"]
               \/ op' = [op EXCEPT !.at = "size"]
               \/ op' = [op EXCEPT !.at = "free", !.ino = op.child]
      BY <2>3, Working DEF Ops
    <2>4. CASE op.cmd # "over" /\ (Attached(disk) \/ Attached(disk') \/ NotAttached(disk))
      BY <1>3, <2>1, <2>2, <2>4, AttachedHands DEF AttachInPlace, CreateDone, CreateFail
    <2> QED
      BY <1>3, <2>1, <2>3, <2>4 DEF AttachInPlace, CreateDone, CreateFail, FreeChild
  <1>4. CASE \E s \in Slots : FreeLast(s) \/ FreeNext(s)
    <2>1. op'.at = op.at /\ op.at \in {"shrink", "free"}
      BY <1>4, Working, CountedType DEF FreeLast, FreeNext, CanFree
    <2> QED
      BY <2>1
  <1>5. CASE \/ ShrinkDone \/ ClearInode \/ SetSize \/ AttachNoParent \/ Crash
    <2>1. op' = [op EXCEPT !.at = "size"] \/ op' = Idle
      BY <1>5 DEF ShrinkDone, ClearInode, SetSize, AttachNoParent, Crash, Leave
    <2> QED
      BY <2>1, Working DEF Idle, Begin, Ops
  <1>6. CASE AllocLink \/ FlushLinks
    BY <1>6, Working, CountedType DEF AllocLink, FlushLinks
  <1>7. CASE FreeBit
    BY <1>7, Working DEF FreeBit, Ops
  <1> QED
    BY <1>1, <1>2, <1>3, <1>4, <1>5, <1>6, <1>7 DEF Next, Work

LEMMA NextClearReady ==
    ASSUME Typed, Next PROVE ClearReady'
  <1> SUFFICES ASSUME FreeBit PROVE tmp' = NoLinks /\ ibm'[op'.ino]
    BY Goes DEF ClearReady
  <1>1. \A s \in Slots : tmp[s] = FreeLink
    BY DEF FreeBit, UsedSlots
  <1>2. tmp = NoLinks /\ op.ino \in Inodes
    BY <1>1, Working DEF NoLinks, FreeBit
  <1> QED
    BY <1>2, Working DEF FreeBit, Ops

\* The slots below a deep slot are slots above it in number.
LEMMA BelowAreSlots ==
    ASSUME NEW d \in Deep, NEW u \in Below(d) PROVE u \in Slots /\ u > d
  <1>1. CountLinks \in Nat /\ CountLinks > 0 /\ CountDirect \in Nat
    BY SpaceAssumption
  <1>2. d \in Slots /\ Double \in Nat /\ Single \in Nat
    BY <1>1, DeepShape DEF Double, Single
  <1>3. LastBelow(d) < SlotCount /\ LastBelow(d) \in Int
    <2>1. CASE d = Double
      BY <2>1, Shape DEF LastBelow
    <2>2. CASE d = Single
      BY <1>1, <1>2, <2>2, Shape DEF LastBelow, Double, Slots
    <2>3. CASE d \in Subs /\ d # Double
      <3>1. PICK k \in 0 .. CountLinks - 1 : d = Sub(k)
        BY <2>3 DEF Subs
      <3>2. PICK c \in Nat : c = CountLinks + 1
        BY <1>1
      <3>3. k * c \in Nat /\ CountLinks * c \in Nat
            /\ (k + 1) * c = k * c + c /\ (k + 1) * c <= CountLinks * c
        BY <1>1, <3>1, <3>2
      <3> QED
        BY <1>1, <1>2, <2>3, <3>1, <3>2, <3>3 DEF LastBelow, Sub, SlotCount
    <2> QED
      BY <2>1, <2>2, <2>3 DEF Deep
  <1> QED
    BY <1>2, <1>3, Shape DEF Below, Slots

LEMMA NextOnlyLinkBlocks ==
    ASSUME Typed, Typed', Safe, Next, OnlyLinkBlocks
    PROVE  OnlyLinkBlocks'
  <1>1. CASE tmp' = disk[op'.ino] /\ disk' = disk
    BY <1>1 DEF OnlyLinkBlocks
  <1>2. CASE AllocLink
    <2> SUFFICES ASSUME op'.done = 0, NEW d \in Slots, tmp'[d] # FreeLink,
                        disk[op.ino][d] = FreeLink
                 PROVE  d \in Deep /\ \A u \in Below(d) \ Deep : tmp'[u] = FreeLink
      BY <1>2, Working, CountedType DEF AllocLink, OnlyLinkBlocks
    <2>1. PICK s \in Slots, b \in Blocks :
            /\ IsNextSlot(tmp, s)
            /\ tmp' = [tmp EXCEPT ![s] = b]
            /\ op' = [op EXCEPT !.done = IF s \in Deep THEN @ ELSE @ + 1]
      BY <1>2 DEF AllocLink
    <2>2. s \in Deep /\ op.done = 0 /\ op.at = "create"
      <3>1. op'.done = IF s \in Deep THEN op.done ELSE op.done + 1
        BY <2>1, Working DEF Ops
      <3> QED
        BY <1>2, <3>1, Working DEF Ops, AllocLink
    <2>3. \A u \in Slots : tmp'[u] = IF u = s THEN b ELSE tmp[u]
      BY <2>1, Working
    <2>4. \A u \in Below(s) : u \in Slots /\ u > s
      BY <2>2, BelowAreSlots
    <2>5. CASE d = s
      <3>1. \A u \in Below(s) : tmp[u] = FreeLink
        BY <2>1, <2>2, <2>4, Creating DEF Filled, IsNextSlot
      <3> QED
        BY <2>2, <2>3, <2>4, <2>5, <3>1
    <2>6. CASE d # s
      <3>1. d \in Deep /\ \A u \in Below(d) \ Deep : tmp[u] = FreeLink
        BY <2>2, <2>3, <2>6 DEF OnlyLinkBlocks
      <3> QED
        BY <2>2, <2>3, <3>1, BelowAreSlots
    <2> QED
      BY <2>5, <2>6
  <1>3. CASE FlushLinks
    <2>1. UNCHANGED <<tmp, op>>
      BY <1>3 DEF FlushLinks
    <2>2. op.ino \in Inodes /\ op.at \in {"create", "shrink"}
      BY <1>3, Working DEF FlushLinks
    <2>3. ASSUME NEW s \in Slots, disk'[op.ino][s] = FreeLink
          PROVE  tmp[s] = FreeLink \/ disk[op.ino][s] = FreeLink
      BY <1>3, <2>2, <2>3, Working DEF FlushLinks
    <2> QED
      BY <2>1, <2>2, <2>3 DEF OnlyLinkBlocks
  <1> QED
    BY <1>1, <1>2, <1>3, Goes DEF OnlyLinkBlocks

LEMMA NextUntypedIsFree ==
    ASSUME Typed, Next, ~Crash, ClearReady, UntypedIsFree
    PROVE  UntypedIsFree'
  <1>1. ASSUME NEW i \in Inodes, ibm' = [ibm EXCEPT ![i] = FALSE], itype' = itype,
               op.at = "idle", op'.ino = i, op'.at \in {"newfile", "newdir"}
        PROVE  UntypedIsFree'
    BY <1>1, Working DEF UntypedIsFree
  <1>2. CASE op.at = "idle" /\ UNCHANGED <<ibm, itype>>
    BY <1>2 DEF UntypedIsFree
  <1>3. CASE Start
    BY <1>1, <1>2, <1>3 DEF Start, StartCopy, StartIncp, StartFile, StartOverwrite,
                            StartMkdir, StartMove, StartRemove, Begin
  <1>4. CASE WriteNewFile \/ WriteNewDir
    <2>1. /\ op.ino \in Inodes /\ op.at \in {"newfile", "dirblock"} /\ ibm' = ibm
          /\ \E t \in {"file", "dirc"} : itype' = [itype EXCEPT ![op.ino] = t]
      BY <1>4, Working DEF WriteNewFile, WriteNewDir, Holders
    <2> QED
      BY <2>1, Working DEF UntypedIsFree
  <1>5. CASE TakeDirBlock
    <2>1. op'.at = "dirblock" /\ op'.ino = op.ino /\ UNCHANGED <<ibm, itype>>
      BY <1>5, Working DEF TakeDirBlock, Ops
    <2> QED
      BY <1>5, <2>1 DEF UntypedIsFree, TakeDirBlock
  <1>6. CASE GiveBackDir
    <2>1. op.at = "dirblock" /\ itype' = itype
          /\ \A i \in Inodes : ibm'[i] <=> ibm[i] \/ i = op.ino
      BY <1>6 DEF GiveBackDir
    <2> QED
      BY <2>1 DEF UntypedIsFree
  <1>7. CASE FreeBit
    <2>1. op.at = "free" /\ itype' = itype /\ \A i \in Inodes : ibm[i] => ibm'[i]
      BY <1>7, Working DEF FreeBit
    <2> QED
      BY <2>1 DEF UntypedIsFree
  <1>8. CASE ClearInode
    <2>1. /\ op.at = "clear" /\ ibm[op.ino] /\ ibm' = ibm
          /\ \A i \in Inodes : i # op.ino => itype'[i] = itype[i]
      BY <1>8, Working DEF ClearInode, ClearReady
    <2> QED
      BY <2>1 DEF UntypedIsFree
  <1>9. CASE /\ op.at \in {"attach", "create", "shrink", "free", "size"}
             /\ UNCHANGED <<ibm, itype>>
    BY <1>9 DEF UntypedIsFree
  <1> QED
    BY <1>3, <1>4, <1>5, <1>6, <1>7, <1>8, <1>9
       DEF Next, Work, AttachInPlace, AttachNoParent, AttachGrow, AllocLink,
           FlushLinks, CreateDone, CreateFail, FreeLast, FreeNext, CanFree,
           ShrinkDone, SetSize

LEMMA NextTidy ==
    ASSUME StackWords = {}, IInv, Tidy, [Next]_vars
    PROVE  Tidy'
  <1>1. CASE UNCHANGED vars
    BY <1>1 DEF vars, Tidy, ClearReady, OnlyLinkBlocks, UntypedIsFree, NoneLost,
                Held, InHand
  <1>2. CASE Crash
    <2>1. crashes' > 0
      BY <1>2 DEF Crash, IInv, Typed, TypeOK
    <2> QED
      BY <2>1 DEF Tidy
  <1>3. CASE Next /\ ~Crash
    <2>1. torn' = torn /\ crashes' = crashes /\ (rolled => rolled')
      <3>1. CASE Start
        BY <3>1 DEF Start, StartCopy, StartIncp, StartFile, StartOverwrite,
               StartMkdir, StartMove, StartRemove, history
      <3>2. CASE CreateFail
        BY <3>2 DEF CreateFail
      <3>3. CASE Work /\ ~CreateFail
        <4>1. UNCHANGED history
          BY <3>3, Zenon DEF Work, WriteNewFile, TakeDirBlock, WriteNewDir,
             GiveBackDir, AttachInPlace, AttachNoParent, AttachGrow, AllocLink,
             FlushLinks, CreateDone, FreeLast, FreeNext, ShrinkDone, FreeBit,
             ClearInode, SetSize
        <4> QED
          BY <4>1 DEF history
      <3> QED
        BY <1>3, <3>1, <3>2, <3>3 DEF Next
    <2> SUFFICES ASSUME crashes = 0
                 PROVE  /\ ClearReady' /\ OnlyLinkBlocks' /\ UntypedIsFree'
                        /\ ~rolled' => NoneLost'
      BY <2>1 DEF Tidy
    <2>2. Typed /\ Typed' /\ Safe
      BY NextTyped DEF IInv, Tidy
    <2>3. ClearReady /\ OnlyLinkBlocks /\ UntypedIsFree /\ (~rolled => NoneLost)
      BY DEF Tidy
    <2> QED
      BY <1>3, <2>1, <2>2, <2>3, NextClearReady, NextOnlyLinkBlocks,
         NextUntypedIsFree, NextNoneLost
  <1> QED
    BY <1>1, <1>2, <1>3

LEMMA AlwaysTidy == ASSUME StackWords = {} PROVE Spec => [](IInv /\ Tidy)
  <1>1. IInv /\ Tidy /\ [Next]_vars => (IInv /\ Tidy)'
    BY NextSafe, NextTidy
  <1>2. Init => IInv /\ Tidy
    BY InitTyped, InitSafe, InitTidy DEF IInv
  <1> QED
    BY <1>1, <1>2, PTL DEF Spec

\* Between commands, when none was killed and none failed part way, every block
\* that is off in the bitmap is linked: no command leaks a block.
THEOREM NothingLeaks ==
    ASSUME StackWords = {} PROVE Spec => []NoLeak
  <1>1. IInv /\ Tidy => NoLeak
    <2> SUFFICES ASSUME IInv, Tidy, crashes = 0, ~rolled, op.at = "idle",
                        NEW b \in Blocks, ~bm[b]
                 PROVE  \E r \in Refs : View(r[1])[r[2]] = b
      BY DEF NoLeak
    <2>1. PICK h \in Holders, s \in Slots : Held[h][s] = b
      BY DEF Tidy, NoneLost
    <2>2. h \in Inodes /\ View(h)[s] = b
      BY <2>1, Constants DEF Held, InHand, View, Holders, NoLinks
    <2>3. <<h, s>> \in Refs
      BY <2>2, Constants DEF Refs
    <2> QED
      BY <2>2, <2>3
  <1> QED
    BY <1>1, AlwaysTidy, PTL

\* Between commands, when none was killed, an inode is free in the bitmap just
\* when the inode itself says so.
THEOREM InodeBitsInStep ==
    ASSUME StackWords = {} PROVE Spec => []InodeBitsAgree
  <1>1. IInv /\ Tidy => InodeBitsAgree
    BY DEF IInv, Tidy, Safe, FreeInodes, UntypedIsFree, InodeBitsAgree
  <1> QED
    BY <1>1, AlwaysTidy, PTL
==============================================================================
