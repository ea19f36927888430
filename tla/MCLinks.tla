------------------------------- MODULE MCLinks -------------------------------
(***************************************************************************)
(* Model checking of Links: the constraint of the runs with kills, and the *)
(* mapping under which Links implements Allocation.                        *)
(***************************************************************************)
EXTENDS Links

\* Nothing is claimed once a kill has hit a removal, and nothing is explored.
Untorn == ~torn

\* The blocks an inode links, as the process has its links; inode number 0 holds
\* the block of a directory for which no inode was left.
HeldBlocks ==
    LET HeldBy(i) ==
          LET links == IF InHand /\ op.ino = i THEN tmp
                       ELSE IF i = 0 THEN NoLinks ELSE disk[i]
          IN  {<<links[s], i>> : s \in {u \in UsedSlots(links) : ~bm[links[u]]}}
    IN  UNION {HeldBy(i) : i \in Inodes \union {0}}

\* Blocks that are off in the bitmap and linked nowhere.
LostBlocks == {b \in Blocks : ~bm[b]} \ {p[1] : p \in HeldBlocks}

A == INSTANCE Allocation
     WITH Block <- Blocks, Owner <- Inodes \union {0},
          held <- HeldBlocks, lost <- LostBlocks

\* Links implements Allocation: every step of every command, every failure and
\* every kill outside a removal takes one free block for one inode, or lets
\* blocks of one inode go.
ImplementsAllocation == A!Init /\ [][~torn' => UNCHANGED A!vars \/ A!Next]_vars
==============================================================================
