----------------------------- MODULE Allocation -----------------------------
(***************************************************************************)
(* What the data bitmap and the inodes' links promise together, block by   *)
(* block: a block is free, or held by an owner, or lost.  An owner takes   *)
(* free blocks one at a time and lets go only of its own; a block never    *)
(* passes from one owner to another without having been free, and a lost   *)
(* block is never seen again before the next format.                       *)
(***************************************************************************)
CONSTANTS Block, Owner

VARIABLES
    held,    \* pairs of a block and its owner
    lost     \* blocks that are neither free nor held

vars == <<held, lost>>

BlocksOf(H) == {p[1] : p \in H}

Init == lost = {} /\ \E b \in Block, o \in Owner : held = {<<b, o>>}

Take ==
    \E p \in held' \ held :
        /\ p \in (Block \ (BlocksOf(held) \union lost)) \X Owner
        /\ held' = held \union {p}
        /\ lost' = lost

LetGo ==
    LET gone == held \ held'
    IN  /\ gone # {} /\ held' \subseteq held
        /\ \A p, q \in gone : p[2] = q[2]
        /\ lost \subseteq lost' /\ lost' \subseteq lost \union BlocksOf(gone)

Next == Take \/ LetGo

Spec == Init /\ [][Next]_vars
=============================================================================
