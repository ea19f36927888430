------------------------------ MODULE SpaceOps ------------------------------
(***************************************************************************)
(* What is_enough_space() of src/fsop/fs_common.c returns, in closed form, *)
(* next to what the link tree of an inode really takes.  The counter       *)
(* c_blocks is a uint32_t, so its subtractions are taken modulo WordMod    *)
(* (2^32 in the build).  Module Space runs the loops step by step and      *)
(* ties them to the closed form.                                           *)
(***************************************************************************)
EXTENDS Integers, FiniteSets

CONSTANTS CountDirect,  \* COUNT_DIRECT_LINKS
          CountLinks,   \* sb.count_links, links in one link block
          WordMod       \* 2^width of uint32_t

ASSUME SpaceAssumption ==
    /\ CountDirect \in Nat \ {0}
    /\ CountLinks \in Nat \ {0}
    /\ WordMod \in Nat
    /\ CountDirect + CountLinks + CountLinks * CountLinks < WordMod

\* Leaves an inode can hold: direct, single indirect and double indirect.
Capacity == CountDirect + CountLinks + CountLinks * CountLinks

\* c_blocks after the loop over the direct links ...
AfterDirect(n) == IF n > CountDirect THEN n - CountDirect ELSE 0

\* ... and after the one over the single indirect link, which wraps around
\* when fewer than CountLinks blocks were left to place.
AfterSingle(n) ==
    IF AfterDirect(n) > 0 THEN (AfterDirect(n) - CountLinks) % WordMod ELSE 0

\* Iterations of the inner loop over the double indirect link.
SubsCharged(n) ==
    {j \in 0 .. CountLinks - 1 :
        \A k \in 0 .. j : (AfterSingle(n) - k * CountLinks) % WordMod > 0}

\* The local variable 'addition' when the loops are done.
Addition(n) ==
      (IF AfterDirect(n) > 0 THEN 1 ELSE 0)
    + (IF AfterSingle(n) > 0 THEN 1 ELSE 0)
    + Cardinality(SubsCharged(n))

IsEnoughSpace(countBlocks, countEmptyBlocks) ==
    countBlocks + Addition(countBlocks) <= countEmptyBlocks

\* Link blocks that create_empty_links() allocates for n leaves of an inode
\* without links: one for the single indirect link, one for the double
\* indirect link and one for each group of CountLinks leaves started below it.
SubsNeeded(n) ==
    {k \in 0 .. CountLinks - 1 : CountDirect + CountLinks + k * CountLinks < n}

DeepNeeded(n) ==
      (IF n > CountDirect THEN 1 ELSE 0)
    + (IF n > CountDirect + CountLinks THEN 1 ELSE 0)
    + Cardinality(SubsNeeded(n))
=============================================================================
