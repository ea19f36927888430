-------------------------------- MODULE Space --------------------------------
(***************************************************************************)
(* The loops of is_enough_space(), src/fsop/fs_common.c, one iteration per *)
(* step, with the uint32_t counter c_blocks that wraps around.             *)
(***************************************************************************)
EXTENDS SpaceOps

CONSTANT MaxEmpty   \* bound on the free blocks the check is asked about

ASSUME MaxEmptyAssumption == MaxEmpty \in Nat

VARIABLES loop,      \* the loop the function is in
          i, j,      \* its counters
          c_blocks,  \* blocks still to be placed
          addition,  \* link blocks charged so far
          asked,     \* count_blocks and count_empty_blocks, the arguments
          answer     \* what is returned

checkVars == <<loop, i, j, c_blocks, addition, asked, answer>>

Loops == {"direct", "single", "double", "subs", "done"}

CheckTypeOK ==
    /\ loop \in Loops
    /\ i \in Nat /\ j \in Nat
    /\ c_blocks \in 0 .. WordMod - 1
    /\ addition \in Nat
    /\ asked \in [blocks : 0 .. Capacity, empty : 0 .. MaxEmpty]
    /\ answer \in BOOLEAN

CheckInit ==
    /\ asked \in [blocks : 0 .. Capacity, empty : 0 .. MaxEmpty]
    /\ loop = "direct" /\ i = 0 /\ j = 0
    /\ c_blocks = asked.blocks
    /\ addition = 0
    /\ answer = FALSE

\* for (i = 0; i < COUNT_DIRECT_LINKS && c_blocks > 0; ++i)
DirectStep ==
    /\ loop = "direct"
    /\ IF i < CountDirect /\ c_blocks > 0
       THEN i' = i + 1 /\ c_blocks' = c_blocks - 1 /\ UNCHANGED loop
       ELSE i' = 0 /\ loop' = "single" /\ UNCHANGED c_blocks
    /\ UNCHANGED <<j, addition, asked, answer>>

\* Faulty: of the link blocks only the one of the double indirect link is charged.
ChargeNothing == addition

\* addition += 1
Charge == addition + 1

\* Faulty: the counter is signed.
PlacedSigned == c_blocks - CountLinks

\* Faulty: the counter stops at zero.
PlacedToZero == IF c_blocks > CountLinks THEN c_blocks - CountLinks ELSE 0

\* c_blocks -= sb.count_links
Placed == (c_blocks - CountLinks) % WordMod

\* for (i = 0; i < COUNT_INDIRECT_LINKS_1 && c_blocks > 0; ++i)
SingleStep ==
    /\ loop = "single"
    /\ IF i < 1 /\ c_blocks > 0
       THEN i' = i + 1 /\ addition' = Charge /\ c_blocks' = Placed
            /\ UNCHANGED loop
       ELSE i' = 0 /\ loop' = "double" /\ UNCHANGED <<c_blocks, addition>>
    /\ UNCHANGED <<j, asked, answer>>

\* for (i = 0; i < COUNT_INDIRECT_LINKS_2 && c_blocks > 0; ++i), and the return
DoubleStep ==
    /\ loop = "double"
    /\ IF i < 1 /\ c_blocks > 0
       THEN j' = 0 /\ addition' = addition + 1 /\ loop' = "subs"
            /\ UNCHANGED answer
       ELSE /\ loop' = "done"
            /\ answer' = (asked.blocks + addition <= asked.empty)
            /\ UNCHANGED <<j, addition>>
    /\ UNCHANGED <<i, c_blocks, asked>>

\* for (j = 0; j < sb.count_links && c_blocks > 0; ++j)
SubsStep ==
    /\ loop = "subs"
    /\ IF j < CountLinks /\ c_blocks > 0
       THEN /\ j' = j + 1 /\ addition' = Charge /\ c_blocks' = Placed
            /\ UNCHANGED <<i, loop>>
       ELSE i' = i + 1 /\ loop' = "double" /\ UNCHANGED <<j, addition, c_blocks>>
    /\ UNCHANGED <<asked, answer>>

CheckNext == DirectStep \/ SingleStep \/ DoubleStep \/ SubsStep

CheckSpec == CheckInit /\ [][CheckNext]_checkVars

------------------------------------------------------------------------------
\* A file the check accepts can be stored: its leaves and the link blocks that
\* create_empty_links() takes for them fit in the free blocks, although the
\* counter wraps around whenever a link block is only partly used.
AcceptedFits ==
    loop = "done" /\ answer =>
        asked.blocks + DeepNeeded(asked.blocks) <= asked.empty

\* The closed form that Links uses is what the loops compute.
ClosedForm ==
    loop = "done" =>
        (answer <=> IsEnoughSpace(asked.blocks, asked.empty))
==============================================================================
