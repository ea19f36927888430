----------------------------- MODULE SpaceProofs -----------------------------
(***************************************************************************)
(* For every number of direct links, links per block and word width: a     *)
(* file that is_enough_space() accepts fits, and its loops compute what    *)
(* the closed form says.                                                   *)
(***************************************************************************)
EXTENDS Space, Numbers, FiniteSetTheorems

\* Leaves that are left for the double indirect link.
Rest == asked.blocks - CountDirect - CountLinks

\* What the loops have placed and charged, at the head of each of them.  While
\* the counter has not wrapped it is the number of leaves left to place; once
\* it has, every leaf is placed and the charge already covers them.
LoopInv ==
    /\ loop = "direct" =>
         /\ i <= CountDirect /\ addition = 0
         /\ c_blocks = asked.blocks - i
    /\ loop = "single" =>
         \/ /\ i = 0 /\ addition = 0
            /\ IF asked.blocks > CountDirect
               THEN c_blocks = asked.blocks - CountDirect ELSE c_blocks = 0
         \/ /\ i = 1 /\ addition = 1
            /\ asked.blocks > CountDirect
            /\ Rest >= 0 => c_blocks = Rest
    /\ loop = "double" =>
         \/ /\ i = 0
            /\ asked.blocks <= CountDirect => c_blocks = 0 /\ addition = 0
            /\ asked.blocks > CountDirect => addition = 1
            /\ Rest >= 0 => c_blocks = Rest
         \/ i = 1 /\ addition >= DeepNeeded(asked.blocks)
    /\ loop = "subs" =>
         /\ i = 0 /\ j <= CountLinks
         /\ addition = 2 + j
         /\ Rest >= j * CountLinks => c_blocks = Rest - j * CountLinks
    /\ loop = "done" /\ answer =>
         asked.blocks + DeepNeeded(asked.blocks) <= asked.empty

Inv == CheckTypeOK /\ LoopInv

------------------------------------------------------------------------------
(* How many link blocks are needed.                                         *)

LEMMA SubsNeededNat ==
    ASSUME NEW n \in Nat
    PROVE  /\ IsFiniteSet(SubsNeeded(n))
           /\ Cardinality(SubsNeeded(n)) \in Nat
  <1>1. IsFiniteSet(0 .. CountLinks - 1)
    BY FS_Interval, SpaceAssumption
  <1>2. SubsNeeded(n) \subseteq 0 .. CountLinks - 1
    BY DEF SubsNeeded
  <1>3. IsFiniteSet(SubsNeeded(n))
    BY <1>1, <1>2, FS_Subset
  <1> QED
    BY <1>3, FS_CardinalityType

\* q groups of links below the double indirect link hold all the leaves that
\* are left, or there are no more groups: q link blocks are enough.
LEMMA SubsNeededBound ==
    ASSUME NEW n \in Nat, NEW q \in Nat,
           n <= CountDirect + CountLinks + q * CountLinks \/ q >= CountLinks
    PROVE  Cardinality(SubsNeeded(n)) <= q
  <1>1. CountLinks \in Nat /\ CountDirect \in Nat
    BY SpaceAssumption
  <1>2. SubsNeeded(n) \subseteq 0 .. q - 1
    <2> SUFFICES ASSUME NEW k \in SubsNeeded(n) PROVE k \in 0 .. q - 1
      OBVIOUS
    <2>1. k \in 0 .. CountLinks - 1 /\ CountDirect + CountLinks + k * CountLinks < n
      BY DEF SubsNeeded
    <2>2. CASE q >= CountLinks
      BY <1>1, <2>1, <2>2
    <2>3. CASE n <= CountDirect + CountLinks + q * CountLinks
      <3> SUFFICES ASSUME k >= q PROVE FALSE
        BY <1>1, <2>1
      <3>1. q * CountLinks <= k * CountLinks
        BY <1>1, <2>1, MulMonotone
      <3>2. k * CountLinks \in Nat /\ q * CountLinks \in Nat
        BY <1>1, <2>1
      <3> QED
        BY <1>1, <2>1, <2>3, <3>1, <3>2
    <2> QED
      BY <2>2, <2>3
  <1>3. IsFiniteSet(0 .. q - 1) /\ Cardinality(0 .. q - 1) = q
    BY FS_Interval
  <1>4. Cardinality(SubsNeeded(n)) <= Cardinality(0 .. q - 1)
    BY <1>2, <1>3, FS_Subset
  <1> QED
    BY <1>3, <1>4

LEMMA DeepNeededNat ==
    ASSUME NEW n \in Nat
    PROVE  DeepNeeded(n) \in Nat
  BY SubsNeededNat DEF DeepNeeded

\* The charge covers the need at each of the three places the loops can stop.
LEMMA DeepNeededBound ==
    ASSUME NEW n \in Nat
    PROVE  /\ n <= CountDirect => DeepNeeded(n) = 0
           /\ n <= CountDirect + CountLinks => DeepNeeded(n) <= 1
           /\ \A q \in Nat :
                n <= CountDirect + CountLinks + q * CountLinks \/ q >= CountLinks
                  => DeepNeeded(n) <= 2 + q
  <1>1. CountLinks \in Nat /\ CountDirect \in Nat
    BY SpaceAssumption
  <1>2. Cardinality(SubsNeeded(n)) \in Nat
    BY SubsNeededNat
  <1>3. n <= CountDirect + CountLinks => Cardinality(SubsNeeded(n)) <= 0
    BY <1>1, SubsNeededBound
  <1>4. ASSUME NEW q \in Nat,
               n <= CountDirect + CountLinks + q * CountLinks \/ q >= CountLinks
        PROVE  DeepNeeded(n) <= 2 + q
    <2>1. Cardinality(SubsNeeded(n)) <= q
      BY <1>4, SubsNeededBound
    <2> QED
      BY <1>2, <2>1 DEF DeepNeeded
  <1> QED
    BY <1>1, <1>2, <1>3, <1>4 DEF DeepNeeded

------------------------------------------------------------------------------
LEMMA InitInv == CheckInit => Inv
  <1> SUFFICES ASSUME CheckInit PROVE Inv
    OBVIOUS
  <1>1. /\ CountDirect \in Nat /\ CountLinks \in Nat /\ WordMod \in Nat
        /\ CountLinks * CountLinks \in Nat
        /\ Capacity \in Nat /\ Capacity < WordMod
    BY SpaceAssumption DEF Capacity
  <1>2. asked \in [blocks : 0 .. Capacity, empty : 0 .. MaxEmpty]
    BY DEF CheckInit
  <1>3. asked.blocks \in 0 .. Capacity
    BY <1>2
  <1>4. asked.blocks \in 0 .. WordMod - 1
    BY <1>1, <1>3
  <1>5. CheckTypeOK
    BY <1>2, <1>4 DEF CheckInit, CheckTypeOK, Loops
  <1>6. LoopInv
    BY <1>1, <1>4 DEF CheckInit, LoopInv
  <1> QED
    BY <1>5, <1>6 DEF Inv

LEMMA NextInv == Inv /\ [CheckNext]_checkVars => Inv'
  <1> SUFFICES ASSUME Inv, [CheckNext]_checkVars PROVE Inv'
    OBVIOUS
  <1> USE DEF Inv, CheckTypeOK, Loops, Capacity
  <1>1. /\ CountDirect \in Nat /\ CountDirect > 0
        /\ CountLinks \in Nat /\ CountLinks > 0
        /\ WordMod \in Nat /\ CountLinks * CountLinks \in Nat
        /\ CountDirect + CountLinks + CountLinks * CountLinks < WordMod
    BY SpaceAssumption
  <1>2. asked.blocks \in 0 .. Capacity /\ asked.blocks \in Nat /\ asked.empty \in Nat
    BY <1>1, MaxEmptyAssumption
  <1>3. Placed \in 0 .. WordMod - 1
    BY <1>1, ModRange DEF Placed
  <1>4. c_blocks >= CountLinks => Placed = c_blocks - CountLinks
    BY <1>1, ModSmall DEF Placed
  <1>5. DeepNeeded(asked.blocks) \in Nat
    BY <1>2, DeepNeededNat
  <1>6. CASE DirectStep
    BY <1>1, <1>2, <1>6 DEF DirectStep, LoopInv, Rest
  <1>7. CASE SingleStep
    <2>1. CheckTypeOK'
      BY <1>1, <1>3, <1>7 DEF SingleStep, Charge
    <2>2. LoopInv'
      BY <1>1, <1>2, <1>4, <1>7 DEF SingleStep, Charge, LoopInv, Rest
    <2> QED
      BY <2>1, <2>2
  <1>8. CASE DoubleStep
    <2>0. answer' \in BOOLEAN
      <3>1. (asked.blocks + addition <= asked.empty) \in BOOLEAN
        OBVIOUS
      <3>2. answer' = answer \/ answer' = (asked.blocks + addition <= asked.empty)
        BY <1>8 DEF DoubleStep
      <3>3. answer \in BOOLEAN
        OBVIOUS
      <3> QED
        BY ONLY <3>1, <3>2, <3>3, Zenon
    <2>1. CheckTypeOK'
      BY <1>1, <1>8, <2>0 DEF DoubleStep
    <2>2. CASE i < 1 /\ c_blocks > 0
      BY <1>1, <1>2, <1>8, <2>2 DEF DoubleStep, LoopInv, Rest
    <2>3. CASE ~(i < 1 /\ c_blocks > 0)
      <3>1. addition >= DeepNeeded(asked.blocks)
        BY <1>1, <1>2, <1>5, <1>8, <2>3, DeepNeededBound
           DEF DoubleStep, LoopInv, Rest
      <3>2. /\ loop' = "done" /\ asked' = asked
            /\ answer' = (asked.blocks + addition <= asked.empty)
        BY <1>8, <2>3 DEF DoubleStep
      <3>3. ASSUME answer'
            PROVE  asked.blocks + DeepNeeded(asked.blocks) <= asked.empty
        <4>1. asked.blocks + addition <= asked.empty
          BY ONLY <3>2, <3>3, Zenon
        <4> QED
          BY ONLY <1>2, <1>5, <3>1, <4>1, addition \in Nat
      <3>4. answer' => asked'.blocks + DeepNeeded(asked'.blocks) <= asked'.empty
        BY <3>2, <3>3
      <3>5. /\ loop' # "direct" /\ loop' # "single"
            /\ loop' # "double" /\ loop' # "subs"
        BY <3>2
      <3>6. LoopInv'
        BY ONLY <3>4, <3>5, Zenon DEF LoopInv
      <3> QED
        BY <2>1, <3>6
    <2> QED
      BY <2>1, <2>2, <2>3
  <1>9. CASE SubsStep
    <2>1. CheckTypeOK'
      BY <1>1, <1>3, <1>9 DEF SubsStep, Charge
    <2>2. j * CountLinks \in Nat /\ (j + 1) * CountLinks = j * CountLinks + CountLinks
      BY <1>1
    <2>3. CASE j < CountLinks /\ c_blocks > 0
      <3>1. /\ loop' = "subs" /\ i' = 0 /\ j' = j + 1 /\ j' <= CountLinks
            /\ addition' = 2 + j' /\ c_blocks' = Placed /\ asked' = asked
        BY <1>1, <1>9, <2>3 DEF SubsStep, Charge, LoopInv
      <3>2. ASSUME Rest >= (j + 1) * CountLinks
            PROVE  Placed = Rest - (j + 1) * CountLinks
        <4>1. c_blocks = Rest - j * CountLinks /\ c_blocks >= CountLinks
          BY <1>1, <1>2, <1>9, <2>2, <3>2 DEF SubsStep, LoopInv, Rest
        <4> QED
          BY <1>1, <1>2, <1>4, <2>2, <4>1 DEF Rest
      <3>3. Rest' = Rest
        BY <3>1 DEF Rest
      <3>4. Rest' >= j' * CountLinks => c_blocks' = Rest' - j' * CountLinks
        BY <3>1, <3>2, <3>3
      <3> QED
        BY <2>1, <3>1, <3>4 DEF LoopInv
    <2>4. CASE ~(j < CountLinks /\ c_blocks > 0)
      <3>1. \/ asked.blocks <= CountDirect + CountLinks + j * CountLinks
            \/ j >= CountLinks
        BY <1>1, <1>2, <1>9, <2>2, <2>4 DEF SubsStep, LoopInv, Rest
      <3>2. addition >= DeepNeeded(asked.blocks)
        BY <1>2, <1>5, <1>9, <3>1, DeepNeededBound DEF SubsStep, LoopInv
      <3>3. loop' = "double" /\ i' = 1 /\ addition' = addition /\ asked' = asked
        BY <1>9, <2>4 DEF SubsStep, LoopInv
      <3>4. addition' >= DeepNeeded(asked'.blocks)
        BY <3>2, <3>3
      <3> QED
        BY <2>1, <3>3, <3>4 DEF LoopInv
    <2> QED
      BY <2>1, <2>3, <2>4
  <1>10. CASE UNCHANGED checkVars
    BY <1>10 DEF checkVars, LoopInv, Rest
  <1> QED
    BY <1>6, <1>7, <1>8, <1>9, <1>10 DEF CheckNext

------------------------------------------------------------------------------
(* The closed form.                                                         *)

\* c_blocks after m iterations over the double indirect link.
Left(m) == (AfterSingle(asked.blocks) - m * CountLinks) % WordMod

\* What the loops have charged so far is what the closed form counts so far.
CountInv ==
    /\ loop = "single" =>
         \/ /\ i = 0 /\ addition = 0
            /\ c_blocks = AfterDirect(asked.blocks)
         \/ /\ i = 1 /\ addition = 1 /\ AfterDirect(asked.blocks) > 0
            /\ c_blocks = AfterSingle(asked.blocks)
    /\ loop = "double" =>
         \/ /\ i = 0 /\ c_blocks = AfterSingle(asked.blocks)
            /\ addition = IF AfterDirect(asked.blocks) > 0 THEN 1 ELSE 0
         \/ i = 1 /\ addition = Addition(asked.blocks)
    /\ loop = "subs" =>
         /\ i = 0 /\ j <= CountLinks /\ AfterSingle(asked.blocks) > 0
         /\ addition = 2 + j
         /\ c_blocks = Left(j)
         /\ \A k \in 0 .. j - 1 : Left(k) > 0
    /\ loop = "done" => (answer <=> IsEnoughSpace(asked.blocks, asked.empty))

LEMMA Words ==
    ASSUME CheckTypeOK
    PROVE  /\ CountDirect \in Nat /\ CountDirect > 0
           /\ CountLinks \in Nat /\ CountLinks > 0
           /\ WordMod \in Nat /\ WordMod > 0
           /\ asked.blocks \in Nat /\ asked.empty \in Nat
           /\ AfterDirect(asked.blocks) \in Nat
           /\ AfterSingle(asked.blocks) \in Nat
           /\ AfterSingle(asked.blocks) < WordMod
  <1>1. /\ CountDirect \in Nat /\ CountDirect > 0
        /\ CountLinks \in Nat /\ CountLinks > 0
        /\ WordMod \in Nat /\ CountLinks * CountLinks \in Nat
        /\ CountDirect + CountLinks + CountLinks * CountLinks < WordMod
    BY SpaceAssumption
  <1>2. asked.blocks \in Nat /\ asked.empty \in Nat
    BY <1>1, MaxEmptyAssumption DEF CheckTypeOK, Capacity
  <1>3. AfterDirect(asked.blocks) \in Nat
    BY <1>1, <1>2 DEF AfterDirect
  <1>4. (AfterDirect(asked.blocks) - CountLinks) % WordMod \in 0 .. WordMod - 1
    BY <1>1, <1>3, ModRange
  <1> QED
    BY <1>1, <1>2, <1>3, <1>4 DEF AfterSingle

LEMMA LeftIs ==
    ASSUME CheckTypeOK
    PROVE  /\ Left(0) = AfterSingle(asked.blocks)
           /\ \A k \in Nat : /\ Left(k) \in 0 .. WordMod - 1
                             /\ (Left(k) - CountLinks) % WordMod = Left(k + 1)
  <1>1. Left(0) = AfterSingle(asked.blocks)
    <2>1. 0 * CountLinks = 0
      BY Words
    <2>2. Left(0) = AfterSingle(asked.blocks) % WordMod
      BY Words, <2>1 DEF Left
    <2> QED
      BY <2>2, Words, ModSmall
  <1>2. ASSUME NEW k \in Nat
        PROVE  /\ Left(k) \in 0 .. WordMod - 1
               /\ (Left(k) - CountLinks) % WordMod = Left(k + 1)
    <2> DEFINE x == AfterSingle(asked.blocks) - k * CountLinks
    <2>1. x \in Int /\ x - CountLinks = AfterSingle(asked.blocks) - (k + 1) * CountLinks
      BY Words
    <2>2. Left(k) = x % WordMod /\ Left(k + 1) = (x - CountLinks) % WordMod
      BY <2>1 DEF Left
    <2> HIDE DEF x
    <2> QED
      BY <2>1, <2>2, Words, ModDifference, ModRange
  <1> QED
    BY <1>1, <1>2

\* Where the loop over the double indirect link stops, the iterations before
\* are the ones the closed form charges.
LEMMA Charged ==
    ASSUME CheckTypeOK, NEW m \in Nat, m <= CountLinks,
           \A k \in 0 .. m - 1 : Left(k) > 0,
           m = CountLinks \/ Left(m) = 0
    PROVE  Cardinality(SubsCharged(asked.blocks)) = m
  <1>1. SubsCharged(asked.blocks) =
          {k \in 0 .. CountLinks - 1 : \A l \in 0 .. k : Left(l) > 0}
    BY DEF SubsCharged, Left
  <1>2. ASSUME NEW k \in 0 .. CountLinks - 1
        PROVE  (\A l \in 0 .. k : Left(l) > 0) <=> k < m
    <2>1. CASE k < m
      BY <2>1, Words
    <2>2. CASE k >= m
      <3>1. Left(m) = 0 /\ m \in 0 .. k
        BY <2>2, Words
      <3> QED
        BY <2>2, <3>1, Words
    <2> QED
      BY <2>1, <2>2, Words
  <1>3. SubsCharged(asked.blocks) = 0 .. m - 1
    BY <1>1, <1>2, Words
  <1> QED
    BY <1>3, FS_Interval

LEMMA InitCountInv == CheckInit => CountInv
  BY DEF CheckInit, CountInv

LEMMA NextCountInv == Inv /\ CountInv /\ [CheckNext]_checkVars => CountInv'
  <1> SUFFICES ASSUME Inv, CountInv, [CheckNext]_checkVars PROVE CountInv'
    OBVIOUS
  <1>1. CheckTypeOK
    BY DEF Inv
  <1>2. /\ i \in Nat /\ j \in Nat /\ c_blocks \in Nat /\ addition \in Nat
    BY <1>1, Words DEF CheckTypeOK
  <1>3. CASE DirectStep
    <2>1. CASE loop' = "single"
      <3>1. c_blocks' = AfterDirect(asked.blocks)
        BY <1>1, <1>2, <1>3, <2>1, Words DEF DirectStep, Inv, LoopInv, AfterDirect
      <3> QED
        BY <1>3, <2>1, <3>1 DEF DirectStep, Inv, LoopInv, CountInv
    <2> QED
      BY <1>3, <2>1 DEF DirectStep, CountInv
  <1>4. CASE SingleStep
    <2>1. CASE i < 1 /\ c_blocks > 0
      <3>1. c_blocks' = AfterSingle(asked.blocks) /\ AfterDirect(asked.blocks) > 0
        BY <1>2, <1>4, <2>1 DEF SingleStep, CountInv, AfterSingle, Placed
      <3> QED
        BY <1>4, <2>1, <3>1 DEF SingleStep, CountInv, Charge
    <2>2. CASE ~(i < 1 /\ c_blocks > 0)
      BY <1>1, <1>2, <1>4, <2>2, Words DEF SingleStep, CountInv, AfterSingle
    <2> QED
      BY <2>1, <2>2
  <1>5. CASE DoubleStep
    <2>1. CASE i < 1 /\ c_blocks > 0
      <3>1. /\ loop' = "subs" /\ i' = 0 /\ j' = 0 /\ addition' = addition + 1
            /\ c_blocks' = c_blocks /\ asked' = asked
            /\ c_blocks = AfterSingle(asked.blocks) /\ addition = 1
        BY <1>2, <1>5, <2>1, <1>1, Words DEF DoubleStep, CountInv, AfterSingle
      <3>2. Left(0)' = Left(0)
        BY <3>1 DEF Left
      <3> QED
        BY <1>1, <2>1, <3>1, <3>2, LeftIs, Words DEF CountInv
    <2>2. CASE ~(i < 1 /\ c_blocks > 0)
      <3>1. addition = Addition(asked.blocks)
        <4>1. CASE i = 1
          BY <1>5, <4>1 DEF DoubleStep, CountInv
        <4>2. CASE i # 1
          <5>1. /\ c_blocks = 0 /\ AfterSingle(asked.blocks) = 0
                /\ addition = IF AfterDirect(asked.blocks) > 0 THEN 1 ELSE 0
            BY <1>2, <1>5, <2>2, <4>2 DEF DoubleStep, CountInv
          <5>2. Cardinality(SubsCharged(asked.blocks)) = 0
            BY <1>1, <5>1, LeftIs, Charged, Words
          <5> QED
            BY <5>1, <5>2 DEF Addition
        <4> QED
          BY <4>1, <4>2
      <3>2. /\ loop' = "done" /\ asked' = asked
            /\ answer' = (asked.blocks + addition <= asked.empty)
        BY <1>5, <2>2 DEF DoubleStep
      <3>3. answer' <=> asked.blocks + addition <= asked.empty
        BY <3>2, Zenon
      <3>4. answer' <=> IsEnoughSpace(asked'.blocks, asked'.empty)
        BY <3>1, <3>2, <3>3, Zenon DEF IsEnoughSpace
      <3> QED
        BY <3>2, <3>4 DEF CountInv
    <2> QED
      BY <2>1, <2>2
  <1>6. CASE SubsStep
    <2>1. CASE j < CountLinks /\ c_blocks > 0
      <3>1. /\ loop' = "subs" /\ i' = 0 /\ j' = j + 1 /\ addition' = addition + 1
            /\ c_blocks' = (c_blocks - CountLinks) % WordMod /\ asked' = asked
        BY <1>6, <2>1 DEF SubsStep, CountInv, Charge, Placed
      <3>2. c_blocks' = Left(j + 1)
        BY <1>1, <1>2, <1>6, <3>1, LeftIs DEF SubsStep, CountInv
      <3>3. \A k \in 0 .. j : Left(k) > 0
        BY <1>2, <1>6, <2>1 DEF SubsStep, CountInv
      <3> QED
        BY <1>2, <1>6, <2>1, <3>1, <3>2, <3>3, Words, <1>1 DEF SubsStep, CountInv, Left
    <2>2. CASE ~(j < CountLinks /\ c_blocks > 0)
      <3>1. /\ loop' = "double" /\ i' = 1 /\ addition' = addition /\ asked' = asked
        BY <1>6, <2>2 DEF SubsStep, CountInv
      <3>2. Cardinality(SubsCharged(asked.blocks)) = j
        BY <1>1, <1>2, <1>6, <2>2, Charged, Words DEF SubsStep, CountInv
      <3>3. AfterDirect(asked.blocks) > 0 /\ AfterSingle(asked.blocks) > 0
        BY <1>1, <1>6, Words DEF SubsStep, CountInv, AfterSingle
      <3>4. addition = Addition(asked.blocks)
        BY <1>2, <1>6, <3>2, <3>3 DEF SubsStep, CountInv, Addition
      <3> QED
        BY <3>1, <3>4 DEF CountInv
    <2> QED
      BY <2>1, <2>2
  <1>7. CASE UNCHANGED checkVars
    BY <1>7 DEF checkVars, CountInv, Left
  <1> QED
    BY <1>3, <1>4, <1>5, <1>6, <1>7 DEF CheckNext

------------------------------------------------------------------------------
\* The variables of is_enough_space() keep their types; in particular the
\* uint32_t counter stays in its range through every wrap.
THEOREM SpaceTypes == CheckSpec => []CheckTypeOK
  BY InitInv, NextInv, PTL DEF CheckSpec, Inv

\* Whatever the sizes of the filesystem, a file the check accepts has room for
\* its leaves and for every link block create_empty_links() takes for them.
THEOREM AcceptedAlwaysFits == CheckSpec => []AcceptedFits
  <1>1. Inv => AcceptedFits
    BY DEF Inv, LoopInv, AcceptedFits
  <1> QED
    BY InitInv, NextInv, <1>1, PTL DEF CheckSpec

\* ... and what the loops answer is what the closed form says, which the model
\* of the link trees uses, for every wrap of the counter.
THEOREM LoopsComputeClosedForm == CheckSpec => []ClosedForm
  <1>1. CountInv => ClosedForm
    BY DEF CountInv, ClosedForm
  <1> QED
    BY InitInv, NextInv, InitCountInv, NextCountInv, <1>1, PTL DEF CheckSpec
=============================================================================
