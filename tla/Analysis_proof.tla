--------------------------- MODULE Analysis_proof ---------------------------
(***************************************************************************)
(* Facts about the analysis of an op_array of any length, and about finite *)
(* sets of naturals, that the proofs about the recorder rest on.           *)
(***************************************************************************)
EXTENDS Analysis, FiniteSetTheorems, FunctionTheorems, SequenceTheorems,
        WellFoundedInduction, TLAPS

\* The order of the naturals as a relation.
Less == {ss \in Nat \X Nat : ss[1] < ss[2]}

(* A nonempty set of naturals has a least element.                           *)
LEMMA LeastNatural ==
  ASSUME NEW S \in SUBSET Nat, S # {}
  PROVE  \E x \in S : \A y \in S : x <= y
<1>1. IsWellFoundedOn(Less, Nat)
  BY NatLessThanWellFounded DEF OpToRel, Less
<1>2. PICK x \in S : \A y \in S : <<y, x>> \notin Less
  BY <1>1, WFMin
<1>3. \A y \in S : ~(y < x)
  BY <1>2 DEF Less
<1> QED
  BY <1>3

(* A set of as many elements as the finite set it is part of is all of it.   *)
LEMMA FullSubset ==
  ASSUME NEW S, NEW T \in SUBSET S, IsFiniteSet(S), Cardinality(T) >= Cardinality(S)
  PROVE  T = S
<1>1. /\ Cardinality(T) <= Cardinality(S)
      /\ Cardinality(S) = Cardinality(T) => S = T
      /\ IsFiniteSet(T)
  BY FS_Subset
<1>2. Cardinality(S) \in Nat /\ Cardinality(T) \in Nat
  BY <1>1, FS_CardinalityType
<1> QED
  BY <1>1, <1>2

LEMMA FirstNaturals ==
  ASSUME NEW n \in Nat
  PROVE  IsFiniteSet(0 .. n - 1) /\ Cardinality(0 .. n - 1) = n
BY FS_Interval

(* Numbering the leaders in order gives every op a block id below            *)
(* num_blocks: the index fxd_mark writes block_hit[] at is in bounds.        *)
THEOREM BlockInRange ==
  ASSUME NEW o, IsOpArray(o), NEW p \in Ops(o)
  PROVE  /\ Analyse(o).num_blocks \in Nat \ {0}
         /\ Analyse(o).op_to_block[p] = OpToBlock(o)[p]
         /\ Analyse(o).op_to_block[p] \in 0 .. Analyse(o).num_blocks - 1
<1> DEFINE L == Leaders(o)
           B == {l \in L : l <= p}
<1>1. o.last \in Nat \ {0}
  BY DEF IsOpArray
<1>2. L \subseteq 0 .. o.last - 1 /\ 0 \in L
  BY <1>1 DEF Leaders, Ops
<1>3. IsFiniteSet(L) /\ IsFiniteSet(B) /\ Cardinality(B) <= Cardinality(L)
  <2>1. IsFiniteSet(0 .. o.last - 1)
    BY <1>1, FS_Interval
  <2>2. IsFiniteSet(L)
    BY <1>2, <2>1, FS_Subset
  <2>3. B \in SUBSET L
    OBVIOUS
  <2> QED
    BY <2>2, <2>3, FS_Subset
<1>4. 0 \in B
  BY <1>1, <1>2 DEF Ops
<1>5. Cardinality(B) \in Nat \ {0} /\ Cardinality(L) \in Nat \ {0}
  BY <1>2, <1>3, <1>4, FS_CardinalityType, FS_EmptySet
<1>6. /\ Analyse(o).op_to_block = OpToBlock(o)
      /\ Analyse(o).num_blocks = Cardinality(L)
  BY DEF Analyse, NumBlocks
<1>7. OpToBlock(o)[p] = Cardinality(B) - 1
  BY DEF OpToBlock
<1> QED
  BY <1>3, <1>5, <1>6, <1>7

(* The edges counted into edges_total are finitely many.                     *)
LEMMA RealEdgesFinite ==
  ASSUME NEW a, a.num_blocks \in Nat
  PROVE  IsFiniteSet(RealEdges(a))
<1>1. IsFiniteSet(0 .. a.num_blocks - 1) /\ IsFiniteSet(1 .. MaxOuts)
  BY FS_Interval, MaxOutsAssumption
<1>2. IsFiniteSet((0 .. a.num_blocks - 1) \X (1 .. MaxOuts))
  BY <1>1, FS_Product
<1> QED
  BY <1>2, FS_Subset DEF RealEdges

-----------------------------------------------------------------------------
\* Ranks: how many elements of a set of naturals lie at or below a natural.

RankIn(S, x) == Cardinality({y \in S : y <= x})

(* A rank grows with the number, and strictly on the way to an element.      *)
LEMMA RankGrows ==
  ASSUME NEW S \in SUBSET Nat, IsFiniteSet(S)
  PROVE  /\ Cardinality(S) \in Nat
         /\ \A x \in Nat : RankIn(S, x) \in 0 .. Cardinality(S)
         /\ \A x, y \in Nat : x <= y => RankIn(S, x) <= RankIn(S, y)
         /\ \A x \in Nat, y \in S : x < y => RankIn(S, x) < RankIn(S, y)
         /\ \A x \in S : RankIn(S, x) >= 1
<1> DEFINE B(x) == {z \in S : z <= x}
<1>1. \A x : /\ IsFiniteSet(B(x)) /\ Cardinality(B(x)) \in Nat
             /\ Cardinality(B(x)) <= Cardinality(S)
  <2> TAKE x
  <2>1. B(x) \in SUBSET S
    OBVIOUS
  <2> QED
    BY <2>1, FS_Subset, FS_CardinalityType
<1>2. ASSUME NEW x \in Nat, NEW y \in Nat, x <= y
      PROVE  /\ Cardinality(B(x)) <= Cardinality(B(y))
             /\ y \in S /\ x < y => Cardinality(B(x)) < Cardinality(B(y))
  <2>1. B(x) \in SUBSET B(y)
    <3>1. \A z \in S : z <= x => z <= y
      BY <1>2
    <3> QED
      BY <3>1
  <2>2. /\ Cardinality(B(x)) <= Cardinality(B(y))
        /\ Cardinality(B(y)) = Cardinality(B(x)) => B(y) = B(x)
    BY <1>1, <2>1, FS_Subset
  <2>3. y \in S /\ x < y => y \in B(y) /\ y \notin B(x)
    OBVIOUS
  <2> HIDE DEF B
  <2> QED
    BY <1>1, <2>2, <2>3
<1>3. ASSUME NEW x \in S
      PROVE  Cardinality(B(x)) >= 1
  <2>1. x \in B(x)
    OBVIOUS
  <2> HIDE DEF B
  <2> QED
    BY <1>1, <2>1, FS_EmptySet
<1>4. \A x : RankIn(S, x) = Cardinality(B(x))
  BY DEF RankIn
<1>5. Cardinality(S) \in Nat
  BY FS_CardinalityType
<1> HIDE DEF B
<1> QED
  BY <1>1, <1>2, <1>3, <1>4, <1>5

(* The elements have the ranks 1 to the number of them, each one its own.    *)
LEMMA RankOnto ==
  ASSUME NEW S \in SUBSET Nat, IsFiniteSet(S)
  PROVE  /\ \A k \in 1 .. Cardinality(S) : \E x \in S : RankIn(S, x) = k
         /\ \A x, y \in S : RankIn(S, x) = RankIn(S, y) => x = y
<1> DEFINE n == Cardinality(S)
           f == [x \in S |-> RankIn(S, x)]
<1>1. n \in Nat
  BY RankGrows
<1>2. \A x \in S : RankIn(S, x) \in 1 .. n
  <2> TAKE x \in S
  <2>1. RankIn(S, x) \in 0 .. n /\ RankIn(S, x) >= 1
    BY RankGrows
  <2> HIDE DEF n
  <2> QED
    BY <1>1, <2>1
<1>3. ASSUME NEW x \in S, NEW y \in S, RankIn(S, x) = RankIn(S, y)
      PROVE  x = y
  <2>1. RankIn(S, x) \in Nat
    BY <1>1, <1>2
  <2>2. ~(x < y) /\ ~(y < x)
    <3>1. x < y => RankIn(S, x) < RankIn(S, y)
      BY RankGrows
    <3>2. y < x => RankIn(S, y) < RankIn(S, x)
      BY RankGrows
    <3> QED
      BY <1>3, <2>1, <3>1, <3>2
  <2> QED
    BY <2>2
<1>4. f \in Injection(S, 1 .. n)
  BY <1>2, <1>3 DEF Injection, IsInjective
<1>5. IsFiniteSet(1 .. n) /\ Cardinality(1 .. n) = n
  BY <1>1, FS_Interval
<1>6. f \in Surjection(S, 1 .. n)
  BY <1>4, <1>5, FS_Injection
<1>7. \A k \in 1 .. n : \E x \in S : f[x] = k
  BY <1>6 DEF Surjection
<1> QED
  BY <1>3, <1>7

(* Nth gives the element of that rank.                                       *)
LEMMA NthElement ==
  ASSUME NEW S \in SUBSET Nat, IsFiniteSet(S)
  PROVE  /\ \A k \in 1 .. Cardinality(S) : Nth(S, k) \in S /\ RankIn(S, Nth(S, k)) = k
         /\ \A x \in S : RankIn(S, x) \in 1 .. Cardinality(S) /\ Nth(S, RankIn(S, x)) = x
<1>1. ASSUME NEW k \in 1 .. Cardinality(S)
      PROVE  Nth(S, k) \in S /\ RankIn(S, Nth(S, k)) = k
  <2>1. \E x \in S : RankIn(S, x) = k
    BY RankOnto
  <2> QED
    BY <2>1 DEF Nth, RankIn
<1>2. ASSUME NEW x \in S
      PROVE  RankIn(S, x) \in 1 .. Cardinality(S)
  <2>1. /\ RankIn(S, x) \in 0 .. Cardinality(S) /\ RankIn(S, x) >= 1
        /\ Cardinality(S) \in Nat
    BY RankGrows
  <2> QED
    BY <2>1
<1>3. ASSUME NEW x \in S
      PROVE  Nth(S, RankIn(S, x)) = x
  <2> DEFINE k == RankIn(S, x)
             z == Nth(S, k)
  <2>1. z \in S /\ RankIn(S, z) = k
    BY <1>1, <1>2
  <2> HIDE DEF z
  <2>2. RankIn(S, z) = RankIn(S, x) => z = x
    BY <2>1, RankOnto
  <2> QED
    BY <2>1, <2>2 DEF z
<1> QED
  BY <1>1, <1>2, <1>3

(* A nonempty set of naturals below a bound has a greatest element.          *)
LEMMA GreatestNatural ==
  ASSUME NEW S \in SUBSET Nat, S # {}, NEW n \in Nat, \A x \in S : x <= n
  PROVE  \E x \in S : \A y \in S : y <= x
<1> DEFINE U == {u \in Nat : \A y \in S : y <= u}
<1>1. n \in U /\ U \in SUBSET Nat
  OBVIOUS
<1>2. PICK u \in U : \A v \in U : u <= v
  BY <1>1, LeastNatural
<1>3. \E y \in S : y = u
  <2> SUFFICES ASSUME \A y \in S : y # u PROVE FALSE
    OBVIOUS
  <2>1. \A y \in S : y < u
    OBVIOUS
  <2>2. u - 1 \in Nat
    <3>1. PICK y \in S : TRUE
      OBVIOUS
    <3> QED
      BY <2>1, <3>1
  <2>4. \A y \in S : y <= u - 1
    BY <2>1
  <2>3. u - 1 \in U
    BY <2>2, <2>4
  <2> QED
    BY <1>2, <2>3
<1> QED
  BY <1>3

(* Min and Max of the community modules on bounded sets of naturals.         *)
LEMMA MinIsLeast ==
  ASSUME NEW S \in SUBSET Nat, S # {}
  PROVE  Min(S) \in S /\ \A y \in S : Min(S) <= y
BY LeastNatural DEF Min

LEMMA MaxIsGreatest ==
  ASSUME NEW S \in SUBSET Nat, S # {}, NEW n \in Nat, \A x \in S : x <= n
  PROVE  Max(S) \in S /\ \A y \in S : y <= Max(S)
<1>1. \E x \in S : \A y \in S : x >= y
  <2>1. PICK x \in S : \A y \in S : y <= x
    BY GreatestNatural
  <2>2. \A y \in S : x >= y
    BY <2>1
  <2> QED
    BY <2>2
<1>2. Max(S) \in S /\ \A y \in S : Max(S) >= y
  BY <1>1 DEF Max
<1> QED
  BY <1>2

-----------------------------------------------------------------------------
\* Blocks.

LEMMA LeadersFinite ==
  ASSUME NEW o, IsOpArray(o)
  PROVE  /\ o.last \in Nat \ {0}
         /\ Leaders(o) \in SUBSET Ops(o) /\ Leaders(o) \in SUBSET Nat /\ 0 \in Leaders(o)
         /\ IsFiniteSet(Leaders(o))
         /\ NumBlocks(o) = Cardinality(Leaders(o)) /\ NumBlocks(o) \in Nat \ {0}
<1>1. o.last \in Nat \ {0}
  BY DEF IsOpArray
<1>2. Leaders(o) \in SUBSET Ops(o) /\ 0 \in Leaders(o)
  BY <1>1 DEF Leaders, Ops
<1>3. IsFiniteSet(Ops(o)) /\ Ops(o) \in SUBSET Nat
  BY <1>1, FS_Interval DEF Ops
<1>4. IsFiniteSet(Leaders(o))
  BY <1>2, <1>3, FS_Subset
<1>5. Cardinality(Leaders(o)) \in Nat \ {0}
  BY <1>2, <1>4, FS_CardinalityType, FS_EmptySet
<1> QED
  BY <1>1, <1>2, <1>3, <1>4, <1>5 DEF NumBlocks

\* The number of an op's block is the rank of the op among the leaders.
LEMMA BlockOfOp ==
  ASSUME NEW o, IsOpArray(o), NEW p \in Ops(o)
  PROVE  /\ OpToBlock(o)[p] = RankIn(Leaders(o), p) - 1
         /\ OpToBlock(o)[p] \in Blocks(o)
<1>1. OpToBlock(o)[p] = RankIn(Leaders(o), p) - 1
  BY DEF OpToBlock, RankIn
<1>2. Analyse(o).op_to_block[p] = OpToBlock(o)[p] /\ Analyse(o).num_blocks = NumBlocks(o)
  BY DEF Analyse
<1>3. OpToBlock(o)[p] \in 0 .. NumBlocks(o) - 1
  BY <1>2, BlockInRange
<1> QED
  BY <1>1, <1>3 DEF Blocks

(* A block is its first op, which is a leader, and the ops after it up to    *)
(* the next leader.                                                          *)
LEMMA BlockIsRun ==
  ASSUME NEW o, IsOpArray(o), NEW b \in Blocks(o)
  PROVE  /\ StartOp(o, b) \in Leaders(o) \cap BlockOps(o, b)
         /\ \A p \in BlockOps(o, b) :
              /\ StartOp(o, b) <= p
              /\ StartOp(o, b) .. p \subseteq BlockOps(o, b)
         /\ \A p \in BlockOps(o, b) \cap Leaders(o) : p = StartOp(o, b)
<1> DEFINE L == Leaders(o)
           B == BlockOps(o, b)
           r(p) == RankIn(L, p)
<1>1. /\ L \in SUBSET Ops(o) /\ L \in SUBSET Nat /\ IsFiniteSet(L)
      /\ o.last \in Nat \ {0} /\ Cardinality(L) \in Nat
      /\ b \in 0 .. Cardinality(L) - 1
  BY LeadersFinite DEF Blocks
<1>2. \A p \in Ops(o) : OpToBlock(o)[p] = r(p) - 1 /\ p \in Nat /\ r(p) \in Nat
  <2> TAKE p \in Ops(o)
  <2>1. p \in Nat
    BY <1>1 DEF Ops
  <2>2. r(p) \in 0 .. Cardinality(L)
    BY <1>1, <2>1, RankGrows
  <2>3. OpToBlock(o)[p] = r(p) - 1
    BY BlockOfOp
  <2> HIDE DEF L
  <2> QED
    BY <1>1, <2>1, <2>2, <2>3
<1>3. \A p : p \in B <=> p \in Ops(o) /\ r(p) = b + 1
  <2>1. \A p : p \in B <=> p \in Ops(o) /\ OpToBlock(o)[p] = b
    BY DEF BlockOps
  <2> HIDE DEF B, r
  <2> QED
    BY <1>1, <1>2, <2>1
<1>4. /\ \A x, y \in Nat : x <= y => r(x) <= r(y)
      /\ \A x \in Nat, y \in L : x < y => r(x) < r(y)
  BY <1>1, RankGrows
<1>5. PICK l \in L : r(l) = b + 1
  <2>1. b + 1 \in 1 .. Cardinality(L)
    <3> HIDE DEF L
    <3> QED
      BY <1>1
  <2> QED
    BY <1>1, <2>1, RankOnto
<1>6. l \in B /\ B \in SUBSET Nat /\ l \in Nat
  <2> HIDE DEF B, L, r
  <2> QED
    BY <1>1, <1>2, <1>3, <1>5
<1>7. ASSUME NEW p \in B
      PROVE  l <= p
  <2> HIDE DEF B, L, r
  <2>1. p \in Nat /\ r(p) = r(l) /\ r(l) \in Nat
    BY <1>1, <1>2, <1>3, <1>5, <1>6
  <2>2. p < l => r(p) < r(l)
    BY <1>4, <1>5, <2>1
  <2> QED
    BY <1>6, <2>1, <2>2
<1>8. StartOp(o, b) = l
  <2>1. Min(B) \in B /\ \A y \in B : Min(B) <= y
    BY <1>6, MinIsLeast
  <2>2. l <= Min(B) /\ Min(B) <= l /\ Min(B) \in Nat
    BY <1>6, <1>7, <2>1
  <2> QED
    BY <1>6, <2>2 DEF StartOp
<1>9. ASSUME NEW p \in B, NEW q \in l .. p
      PROVE  q \in B
  <2>1. p \in Ops(o) /\ r(p) = b + 1
    BY <1>3
  <2>2. q \in Ops(o) /\ q \in Nat /\ l <= q /\ q <= p
    BY <1>1, <1>6, <2>1 DEF Ops
  <2>3. r(l) <= r(q) /\ r(q) <= r(p) /\ r(q) \in Nat
    <3> HIDE DEF r
    <3> QED
      BY <1>2, <1>4, <1>6, <2>1, <2>2
  <2> HIDE DEF r
  <2>4. r(q) = b + 1
    BY <1>1, <1>5, <2>1, <2>3
  <2> QED
    BY <1>3, <2>2, <2>4
<1>10. ASSUME NEW p \in B, p \in L
       PROVE  p = l
  <2>1. r(p) = r(l)
    BY <1>3, <1>5
  <2>2. \A x, y \in L : r(x) = r(y) => x = y
    BY <1>1, RankOnto
  <2> HIDE DEF r
  <2> QED
    BY <1>10, <2>1, <2>2
<1> HIDE DEF B, L
<1>11. \A p \in B : l <= p /\ l .. p \subseteq B
  BY <1>7, <1>9
<1> QED
  BY <1>5, <1>6, <1>8, <1>10, <1>11 DEF B, L

(* A block ends at its first control-flow op, or at its last op.             *)
LEMMA EndOfBlock ==
  ASSUME NEW o, IsOpArray(o), NEW b \in Blocks(o)
  PROVE  /\ EndOp(o, b) \in BlockOps(o, b)
         /\ \A p \in BlockOps(o, b) : IsControlFlow(o, p) => EndOp(o, b) <= p
         /\ ~IsControlFlow(o, EndOp(o, b)) => \A p \in BlockOps(o, b) : p <= EndOp(o, b)
<1> DEFINE B == BlockOps(o, b)
           T == {p \in B : IsControlFlow(o, p)}
<1>1. /\ B # {} /\ B \in SUBSET Nat /\ T \in SUBSET Nat
      /\ o.last - 1 \in Nat /\ \A p \in B : p <= o.last - 1
  <2>1. StartOp(o, b) \in B
    BY BlockIsRun
  <2>2. \A p \in B : p \in Nat /\ p <= o.last - 1
    BY LeadersFinite DEF BlockOps, Ops
  <2>3. o.last - 1 \in Nat
    BY LeadersFinite
  <2> QED
    BY <2>1, <2>2, <2>3
<1>2. CASE T = {}
  <2>1. EndOp(o, b) = Max(B)
    BY <1>2 DEF EndOp
  <2>2. Max(B) \in B /\ \A p \in B : p <= Max(B)
    BY <1>1, MaxIsGreatest
  <2> QED
    BY <1>2, <2>1, <2>2
<1>3. CASE T # {}
  <2>1. EndOp(o, b) = Min(T)
    BY <1>3 DEF EndOp
  <2>2. Min(T) \in T /\ \A p \in T : Min(T) <= p
    BY <1>1, <1>3, MinIsLeast
  <2> QED
    BY <2>1, <2>2
<1> QED
  BY <1>2, <1>3

-----------------------------------------------------------------------------
\* Outs.

LEMMA OneOrTwo ==
  ASSUME NEW S, NEW x \in S, NEW y \in S
  PROVE  /\ <<x>> \in Seq(S) /\ Len(<<x>>) = 1
         /\ <<x, y>> \in Seq(S) /\ Len(<<x, y>>) = 2
OBVIOUS

LEMMA CasesFit ==
  ASSUME NEW S, NEW to \in Seq(S), to # <<>>
  PROVE  /\ Cases(to) \in Seq(S) /\ to[Len(to)] \in S
         /\ Len(Cases(to)) \in 0 .. MaxOuts - 2
<1> DEFINE n == Len(to)
           c == IF n - 1 < MaxOuts - 2 THEN n - 1 ELSE MaxOuts - 2
<1>1. n \in Nat \ {0} /\ \A i \in 1 .. n : to[i] \in S
  BY EmptySeq, LenProperties, ElementOfSeq
<1>2. c \in Nat /\ c <= n - 1 /\ c <= MaxOuts - 2
  BY <1>1, MaxOutsAssumption
<1>3. Cases(to) = SubSeq(to, 1, c)
  BY DEF Cases
<1> HIDE DEF c, n
<1>4. \A i \in 1 .. c : to[i] \in S
  BY <1>1, <1>2
<1>5. Cases(to) \in Seq(S) /\ Len(Cases(to)) = IF 1 <= c THEN c - 1 + 1 ELSE 0
  BY <1>2, <1>3, <1>4, SubSeqProperties
<1>6. Len(Cases(to)) \in 0 .. MaxOuts - 2
  BY <1>2, <1>5, MaxOutsAssumption
<1>7. to[n] \in S
  BY <1>1
<1> QED
  BY <1>5, <1>6, <1>7 DEF n

(* No op has more jumps than outs[] has places.                              *)
LEMMA JumpsFit ==
  ASSUME NEW o, IsOpArray(o), NEW p \in Ops(o)
  PROVE  Jumps(o, p) \in Seq(Nat \cup {EXIT}) /\ Len(Jumps(o, p)) <= MaxOuts
<1> DEFINE to == o.opcodes[p].to
           N == Nat \cup {EXIT}
           c == Code(o, p)
<1>1. /\ o.last \in Nat \ {0} /\ p \in Nat /\ p + 1 \in N /\ EXIT \in N /\ Ops(o) \subseteq N
      /\ MaxOuts \in Nat /\ MaxOuts >= 3
  BY MaxOutsAssumption DEF IsOpArray, Ops
<1>2. to \in Seq(Ops(o)) /\ c \in OpCodes
  BY DEF IsOpArray
<1>3. to \in Seq(N) /\ Len(to) \in Nat /\ \A i \in 1 .. Len(to) : to[i] \in N
  BY <1>1, <1>2, SeqMonotonic, LenProperties, ElementOfSeq
<1>4. /\ c \in {"JMP", "BRANCH", "FAST_CALL"} => Len(to) = 1
      /\ c = "CATCH" /\ to # <<>> => Len(to) = 1
      /\ c \in {"SWITCH", "MATCH"} => to # <<>>
  BY DEF IsOpArray
<1>5. CASE c = "JMP"
  <2>1. Jumps(o, p) = to /\ Len(to) = 1
    BY <1>4, <1>5 DEF Jumps
  <2> QED
    BY <1>1, <1>3, <2>1
<1>6. CASE c = "BRANCH"
  <2>1. Jumps(o, p) = <<p + 1, to[1]>> /\ to[1] \in N
    BY <1>3, <1>4, <1>6 DEF Jumps
  <2> QED
    BY <1>1, <2>1, OneOrTwo
<1>7. CASE c = "CATCH"
  <2>1. to # <<>> => to[1] \in N
    BY <1>3, <1>4, <1>7
  <2>2. Jumps(o, p) = IF to = <<>> THEN <<p + 1, EXIT>>
                      ELSE IF to[1] = p + 1 THEN <<p + 1>> ELSE <<p + 1, to[1]>>
    BY <1>7 DEF Jumps
  <2>3. CASE to = <<>>
    BY <1>1, <2>2, <2>3, OneOrTwo
  <2>4. CASE to # <<>> /\ to[1] = p + 1
    BY <1>1, <2>2, <2>4, OneOrTwo
  <2>5. CASE to # <<>> /\ to[1] # p + 1
    BY <1>1, <2>1, <2>2, <2>5, OneOrTwo
  <2> QED
    BY <2>3, <2>4, <2>5
<1>8. CASE c = "FAST_CALL"
  <2>1. Jumps(o, p) = <<to[1], p + 1>> /\ to[1] \in N
    BY <1>3, <1>4, <1>8 DEF Jumps
  <2> QED
    BY <1>1, <2>1, OneOrTwo
<1>9. CASE c \in {"SWITCH", "MATCH"}
  <2>1. /\ Cases(to) \in Seq(N) /\ to[Len(to)] \in N
        /\ Len(Cases(to)) \in 0 .. MaxOuts - 2
    BY <1>3, <1>4, <1>9, CasesFit
  <2>2. PICK s \in Seq(N) : Jumps(o, p) = Cases(to) \o s /\ Len(s) <= 2
    <3>1. Jumps(o, p) = Cases(to) \o (IF c = "SWITCH" THEN <<to[Len(to)], p + 1>>
                                      ELSE <<to[Len(to)]>>)
      BY <1>9 DEF Jumps
    <3>2. CASE c = "SWITCH"
      <4>1. <<to[Len(to)], p + 1>> \in Seq(N) /\ Len(<<to[Len(to)], p + 1>>) = 2
        BY <1>1, <2>1, OneOrTwo
      <4>2. Jumps(o, p) = Cases(to) \o <<to[Len(to)], p + 1>>
        BY <3>1, <3>2
      <4>3. PICK s : s = <<to[Len(to)], p + 1>>
        OBVIOUS
      <4>4. s \in Seq(N) /\ Len(s) <= 2 /\ Jumps(o, p) = Cases(to) \o s
        BY <4>1, <4>2, <4>3
      <4> QED
        BY <4>4
    <3>3. CASE c # "SWITCH"
      <4>1. <<to[Len(to)]>> \in Seq(N) /\ Len(<<to[Len(to)]>>) = 1
        BY <2>1, OneOrTwo
      <4>2. Jumps(o, p) = Cases(to) \o <<to[Len(to)]>>
        BY <3>1, <3>3
      <4>3. PICK s : s = <<to[Len(to)]>>
        OBVIOUS
      <4>4. s \in Seq(N) /\ Len(s) <= 2 /\ Jumps(o, p) = Cases(to) \o s
        BY <4>1, <4>2, <4>3
      <4> QED
        BY <4>4
    <3> QED
      BY <3>2, <3>3
  <2>3. Len(s) \in Nat
    BY <2>2, LenProperties
  <2>4. Cases(to) \o s \in Seq(N) /\ Len(Cases(to) \o s) = Len(Cases(to)) + Len(s)
    BY <2>1, <2>2, ConcatProperties
  <2> HIDE DEF to, N
  <2>5. Len(Cases(to)) + Len(s) <= MaxOuts
    BY <1>1, <2>1, <2>2, <2>3
  <2> QED
    BY <2>2, <2>4, <2>5 DEF N
<1>10. CASE c \in {"FAST_RET", "RETURN", "THROW"}
  BY <1>1, <1>10 DEF Jumps
<1>11. CASE c \notin ControlFlow
  BY <1>1, <1>11 DEF Jumps, ControlFlow
<1> QED
  BY <1>5, <1>6, <1>7, <1>8, <1>9, <1>10, <1>11 DEF ControlFlow

\* outs[] holds an out for each jump that stays in the op_array or leaves it.
BlockOrExit(o, t) == IF t = EXIT THEN EXIT ELSE OpToBlock(o)[t]

LEMMA OutsOfJumps ==
  ASSUME NEW o, IsOpArray(o), NEW b \in Blocks(o), IsControlFlow(o, EndOp(o, b))
  PROVE  LET js == Jumps(o, EndOp(o, b))
             ks == Kept(o, js)
         IN  /\ ks \in SUBSET Nat /\ IsFiniteSet(ks) /\ Cardinality(ks) \in 0 .. MaxOuts
             /\ DOMAIN Outs(o, b) = 1 .. Cardinality(ks)
             /\ \A k \in DOMAIN Outs(o, b) :
                  Nth(ks, k) \in ks /\ Outs(o, b)[k] = BlockOrExit(o, js[Nth(ks, k)])
             /\ \A i \in ks : \E k \in DOMAIN Outs(o, b) : Nth(ks, k) = i
<1> DEFINE e == EndOp(o, b)
           js == Jumps(o, e)
           ks == Kept(o, js)
           n == Cardinality(ks)
<1>1. e \in Ops(o)
  BY EndOfBlock DEF BlockOps
<1>2. js \in Seq(Nat \cup {EXIT}) /\ Len(js) <= MaxOuts
  BY <1>1, JumpsFit
<1>3. DOMAIN js = 1 .. Len(js) /\ Len(js) \in Nat
  BY <1>2, LenProperties
<1>4. ks \in SUBSET (1 .. Len(js))
  BY <1>3 DEF Kept
<1>5. ks \in SUBSET Nat /\ IsFiniteSet(ks) /\ n \in Nat /\ n <= Len(js)
  <2>1. IsFiniteSet(1 .. Len(js)) /\ Cardinality(1 .. Len(js)) = Len(js)
    <3> DEFINE m == Len(js)
    <3> HIDE DEF m
    <3>1. m \in Nat
      BY <1>3 DEF m
    <3>2. IsFiniteSet(1 .. m) /\ Cardinality(1 .. m) = m
      BY <3>1, FS_Interval
    <3> QED
      BY <3>2 DEF m
  <2>2. IsFiniteSet(ks) /\ n <= Len(js)
    BY <1>4, <2>1, FS_Subset
  <2> QED
    BY <1>3, <1>4, <2>2, FS_CardinalityType
<1>6. n \in 0 .. MaxOuts
  <2> HIDE DEF n, js
  <2> QED
    BY <1>2, <1>3, <1>5, MaxOutsAssumption
<1>7. Outs(o, b) = [k \in 1 .. n |-> BlockOrExit(o, js[Nth(ks, k)])]
  BY DEF Outs, BlockOrExit
<1>8. /\ \A k \in 1 .. n : Nth(ks, k) \in ks
      /\ \A i \in ks : RankIn(ks, i) \in 1 .. n /\ Nth(ks, RankIn(ks, i)) = i
  BY <1>5, NthElement
<1> HIDE DEF n, js, ks
<1>9. DOMAIN Outs(o, b) = 1 .. n
  BY <1>7
<1>10. \A k \in DOMAIN Outs(o, b) : Nth(ks, k) \in ks /\ Outs(o, b)[k] = BlockOrExit(o, js[Nth(ks, k)])
  BY <1>7, <1>8
<1>11. \A i \in ks : \E k \in DOMAIN Outs(o, b) : Nth(ks, k) = i
  BY <1>8, <1>9
<1> QED
  BY <1>5, <1>6, <1>9, <1>10, <1>11 DEF n, js, ks, e

(* An out of a block is a block or the exit, and there are at most as many   *)
(* as outs[] has places.                                                     *)
LEMMA OutsType ==
  ASSUME NEW o, IsOpArray(o), NEW b \in Blocks(o)
  PROVE  \E n \in 0 .. MaxOuts : Outs(o, b) \in [1 .. n -> Blocks(o) \cup {EXIT}]
<1> DEFINE e == EndOp(o, b)
<1>1. e \in Ops(o) /\ e \in Nat
  BY EndOfBlock, LeadersFinite DEF BlockOps, Ops
<1>2. CASE IsControlFlow(o, e)
  <2> DEFINE js == Jumps(o, e)
             ks == Kept(o, js)
             n == Cardinality(ks)
  <2>1. /\ n \in 0 .. MaxOuts /\ DOMAIN Outs(o, b) = 1 .. n
        /\ \A k \in 1 .. n : Nth(ks, k) \in ks /\ Outs(o, b)[k] = BlockOrExit(o, js[Nth(ks, k)])
    BY <1>2, OutsOfJumps
  <2>2. \A i \in ks : BlockOrExit(o, js[i]) \in Blocks(o) \cup {EXIT}
    BY BlockOfOp DEF BlockOrExit, Kept
  <2>3. Outs(o, b) = [k \in 1 .. n |-> BlockOrExit(o, js[Nth(ks, k)])]
    BY <1>2 DEF Outs, BlockOrExit
  <2> HIDE DEF n, ks, js
  <2>4. Outs(o, b) \in [1 .. n -> Blocks(o) \cup {EXIT}]
    BY <2>1, <2>2, <2>3
  <2> QED
    BY <2>1, <2>4
<1>3. CASE ~IsControlFlow(o, e) /\ e + 1 < o.last
  <2>1. e + 1 \in Ops(o)
    BY <1>1, <1>3, LeadersFinite DEF Ops
  <2>2. Outs(o, b) = <<OpToBlock(o)[e + 1]>> /\ OpToBlock(o)[e + 1] \in Blocks(o)
    BY <1>3, <2>1, BlockOfOp DEF Outs
  <2>3. Outs(o, b) \in [1 .. 1 -> Blocks(o) \cup {EXIT}]
    BY <2>2
  <2> QED
    BY <2>3, MaxOutsAssumption
<1>4. CASE ~IsControlFlow(o, e) /\ ~(e + 1 < o.last)
  <2>1. Outs(o, b) = <<>>
    BY <1>4 DEF Outs
  <2>2. Outs(o, b) \in [1 .. 0 -> Blocks(o) \cup {EXIT}]
    BY <2>1
  <2> QED
    BY <2>2, MaxOutsAssumption
<1> QED
  BY <1>2, <1>3, <1>4

(* A jump of a block's terminator inside the op_array is an out of it.       *)
LEMMA JumpHasOut ==
  ASSUME NEW o, IsOpArray(o), NEW b \in Blocks(o), IsControlFlow(o, EndOp(o, b)),
         NEW t \in Ops(o), t \in Range(Jumps(o, EndOp(o, b)))
  PROVE  \E k \in DOMAIN Outs(o, b) : Outs(o, b)[k] = OpToBlock(o)[t]
<1> DEFINE js == Jumps(o, EndOp(o, b))
<1>1. PICK i \in DOMAIN js : js[i] = t
  BY DEF Range
<1>2. i \in Kept(o, js)
  BY <1>1 DEF Kept
<1>3. PICK k \in DOMAIN Outs(o, b) : Nth(Kept(o, js), k) = i
  BY <1>2, OutsOfJumps
<1>4. Outs(o, b)[k] = BlockOrExit(o, js[i])
  BY <1>3, OutsOfJumps
<1>5. t # EXIT
  BY LeadersFinite DEF Ops, EXIT
<1> QED
  BY <1>1, <1>3, <1>4, <1>5 DEF BlockOrExit

-----------------------------------------------------------------------------
(* How control moves through blocks.                                         *)

LEMMA OpInBlock ==
  ASSUME NEW o, IsOpArray(o), NEW p \in Ops(o)
  PROVE  LET b == OpToBlock(o)[p]
         IN  /\ b \in Blocks(o) /\ p \in BlockOps(o, b)
             /\ p \in Nat
             /\ StartOp(o, b) \in Nat /\ StartOp(o, b) <= p
             /\ EndOp(o, b) \in Nat /\ EndOp(o, b) \in Ops(o)
             /\ StartOp(o, b) .. EndOp(o, b) \subseteq BlockOps(o, b)
<1> DEFINE b == OpToBlock(o)[p]
<1>1. b \in Blocks(o)
  BY BlockOfOp
<1>2. p \in BlockOps(o, b)
  BY DEF BlockOps
<1>3. BlockOps(o, b) \subseteq Ops(o) /\ Ops(o) \subseteq Nat
  BY LeadersFinite DEF BlockOps, Ops
<1>4. EndOp(o, b) \in BlockOps(o, b)
  BY <1>1, EndOfBlock
<1> QED
  BY <1>1, <1>2, <1>3, <1>4, BlockIsRun

LEMMA LeaderStarts ==
  ASSUME NEW o, IsOpArray(o), NEW t \in Leaders(o)
  PROVE  /\ t \in Ops(o)
         /\ StartOp(o, OpToBlock(o)[t]) = t
         /\ t <= EndOp(o, OpToBlock(o)[t])
<1> DEFINE b == OpToBlock(o)[t]
<1>1. t \in Ops(o)
  BY LeadersFinite
<1>2. b \in Blocks(o) /\ t \in BlockOps(o, b)
  BY <1>1, OpInBlock
<1>3. StartOp(o, b) = t
  BY <1>2, BlockIsRun
<1>4. EndOp(o, b) \in BlockOps(o, b)
  BY <1>2, EndOfBlock
<1> QED
  BY <1>1, <1>2, <1>3, <1>4, BlockIsRun

\* An op without a jump continues in its block, or ends it at the next leader.
LEMMA StraightOn ==
  ASSUME NEW o, IsOpArray(o), NEW p \in Ops(o), p + 1 \in Ops(o),
         ~IsControlFlow(o, p), p <= EndOp(o, OpToBlock(o)[p])
  PROVE  /\ p + 1 \notin Leaders(o) =>
              /\ OpToBlock(o)[p + 1] = OpToBlock(o)[p]
              /\ p + 1 <= EndOp(o, OpToBlock(o)[p])
         /\ p + 1 \in Leaders(o) =>
              /\ OpToBlock(o)[p + 1] # OpToBlock(o)[p]
              /\ EndOp(o, OpToBlock(o)[p]) = p
<1> DEFINE b == OpToBlock(o)[p]
           e == EndOp(o, b)
<1>1. /\ b \in Blocks(o) /\ p \in BlockOps(o, b) /\ p \in Nat /\ e \in Nat
      /\ StartOp(o, b) <= p /\ StartOp(o, b) \in Nat
      /\ StartOp(o, b) .. e \subseteq BlockOps(o, b)
  BY OpInBlock
<1>2. e \in BlockOps(o, b) /\ (~IsControlFlow(o, e) => \A q \in BlockOps(o, b) : q <= e)
  BY <1>1, EndOfBlock
<1>3. ASSUME p + 1 \notin Leaders(o)
      PROVE  OpToBlock(o)[p + 1] = b /\ p + 1 <= e
  <2>1. {l \in Leaders(o) : l <= p + 1} = {l \in Leaders(o) : l <= p}
    BY <1>1, <1>3, LeadersFinite
  <2>2. OpToBlock(o)[p + 1] = b
    BY <2>1 DEF OpToBlock
  <2>3. p + 1 \in BlockOps(o, b)
    BY <2>2 DEF BlockOps
  <2>4. p # e
    BY <1>1, <1>2, <2>3
  <2> QED
    BY <1>1, <2>2, <2>4
<1>4. ASSUME p + 1 \in Leaders(o)
      PROVE  OpToBlock(o)[p + 1] # b /\ e = p
  <2>1. p + 1 \notin BlockOps(o, b)
    BY <1>1, <1>4, BlockIsRun
  <2>2. OpToBlock(o)[p + 1] # b
    BY <2>1 DEF BlockOps
  <2> QED
    BY <1>1, <2>1, <2>2
<1> QED
  BY <1>3, <1>4

LEMMA JumpsLead ==
  ASSUME NEW o, NEW p \in Ops(o), NEW t \in Ops(o), t \in Range(Jumps(o, p))
  PROVE  t \in Leaders(o)
BY DEF Leaders

\* No op of a block before its end is a jump.
LEMMA JumpEndsBlock ==
  ASSUME NEW o, IsOpArray(o), NEW p \in Ops(o), IsControlFlow(o, p)
  PROVE  EndOp(o, OpToBlock(o)[p]) <= p
BY OpInBlock, EndOfBlock

-----------------------------------------------------------------------------
(* The line of an op is among the lines of its block.                        *)

LEMMA EntryOfLine ==
  ASSUME NEW o, IsOpArray(o), NEW b \in Blocks(o),
         NEW p \in LineOps(o), p \in StartOp(o, b) .. EndOp(o, b)
  PROVE  \E e \in LineEntries(o, b) :
           e.line = Line(o, p) /\ e.op \in StartOp(o, b) .. EndOp(o, b)
<1> DEFINE ops == LineOps(o) \cap (StartOp(o, b) .. EndOp(o, b))
           same == {q \in ops : Line(o, q) = Line(o, p)}
           repeats(q) == LET earlier == {r \in ops : r < q}
                         IN  earlier # {} /\ Line(o, Max(earlier)) = Line(o, q)
<1>1. ops \subseteq Nat
  BY LeadersFinite DEF LineOps, Ops
<1>2. same \in SUBSET Nat /\ same # {}
  BY <1>1
<1>3. PICK m \in same : \A q \in same : m <= q
  BY <1>2, LeastNatural
<1>4. ~repeats(m)
  <2>1. SUFFICES ASSUME repeats(m) PROVE FALSE
    OBVIOUS
  <2> DEFINE earlier == {r \in ops : r < m}
  <2>2. earlier \in SUBSET Nat /\ earlier # {} /\ m \in Nat /\ \A r \in earlier : r <= m
    BY <1>1, <2>1
  <2>3. Max(earlier) \in earlier
    BY <2>2, MaxIsGreatest
  <2>4. Max(earlier) \in same
    BY <2>1, <2>3
  <2> QED
    BY <1>1, <1>3, <2>3, <2>4
<1>5. [line |-> Line(o, m), op |-> m] \in LineEntries(o, b)
  BY <1>4 DEF LineEntries
<1> QED
  BY <1>5

LEMMA EntryIsLineOp ==
  ASSUME NEW o, IsOpArray(o), NEW b \in Blocks(o), NEW e \in LineEntries(o, b)
  PROVE  /\ e.op \in LineOps(o) /\ e.op \in StartOp(o, b) .. EndOp(o, b)
         /\ e.line = Line(o, e.op)
         /\ ~(/\ e.op - 1 \in LineOps(o) /\ e.op - 1 \in StartOp(o, b) .. EndOp(o, b)
              /\ Line(o, e.op - 1) = Line(o, e.op))
<1> DEFINE ops == LineOps(o) \cap (StartOp(o, b) .. EndOp(o, b))
           earlier(q) == {r \in ops : r < q}
<1>1. PICK p \in ops : /\ e = [line |-> Line(o, p), op |-> p]
                       /\ ~(earlier(p) # {} /\ Line(o, Max(earlier(p))) = Line(o, p))
  BY DEF LineEntries
<1>2. ops \subseteq Nat
  BY LeadersFinite DEF LineOps, Ops
<1>3. ASSUME p - 1 \in ops
      PROVE  Max(earlier(p)) = p - 1
  <2>1. earlier(p) \in SUBSET Nat /\ earlier(p) # {} /\ p \in Nat /\ p - 1 \in earlier(p)
        /\ \A r \in earlier(p) : r <= p
    BY <1>2, <1>3
  <2>2. Max(earlier(p)) \in earlier(p) /\ \A r \in earlier(p) : r <= Max(earlier(p))
    BY <2>1, MaxIsGreatest
  <2> HIDE DEF ops
  <2>3. Max(earlier(p)) \in Nat /\ Max(earlier(p)) < p /\ p - 1 <= Max(earlier(p))
    BY <1>2, <2>1, <2>2
  <2> QED
    BY <2>1, <2>3
<1> QED
  BY <1>1, <1>3

-----------------------------------------------------------------------------
(* Where the analysis knows all jumps, control enters a block at its start   *)
(* and leaves it at its end.                                                 *)

LEMMA RangeOfConcat ==
  ASSUME NEW S, NEW s \in Seq(S), NEW t \in Seq(S)
  PROVE  Range(s) \cup Range(t) \subseteq Range(s \o t)
<1>1. /\ DOMAIN s = 1 .. Len(s) /\ DOMAIN t = 1 .. Len(t)
      /\ Len(s) \in Nat /\ Len(t) \in Nat
      /\ DOMAIN (s \o t) = 1 .. Len(s) + Len(t)
  BY ConcatProperties, LenProperties
<1>2. ASSUME NEW k \in DOMAIN s
      PROVE  s[k] \in Range(s \o t)
  <2>1. k \in DOMAIN (s \o t) /\ (s \o t)[k] = s[k]
    BY <1>1, ConcatProperties
  <2> QED
    BY <2>1 DEF Range
<1>3. ASSUME NEW k \in DOMAIN t
      PROVE  t[k] \in Range(s \o t)
  <2>1. Len(s) + k \in DOMAIN (s \o t) /\ (s \o t)[Len(s) + k] = t[k]
    BY <1>1, ConcatProperties
  <2> QED
    BY <2>1 DEF Range
<1> QED
  BY <1>2, <1>3 DEF Range

LEMMA KnownJumps ==
  ASSUME NEW o, IsOpArray(o), KnowsJumps(o), NEW p \in Ops(o), IsControlFlow(o, p)
  PROVE  NextOps(o.opcodes[p], p) \cap Ops(o) \subseteq Range(Jumps(o, p))
<1> DEFINE to == o.opcodes[p].to
           n == Len(to)
<1>1. /\ to \in Seq(Ops(o)) /\ Code(o, p) \in ControlFlow
      /\ n \in Nat
  BY DEF IsOpArray, IsControlFlow
<1>2. NextOps(o.opcodes[p], p) =
        Range(to) \cup (IF Code(o, p) \in {"BRANCH", "CATCH", "SWITCH"} THEN {p + 1} ELSE {})
  BY <1>1 DEF NextOps, Code, ControlFlow
<1>3. \A x \in Range(to) : \E k \in 1 .. n : x = to[k]
  BY <1>1 DEF Range
<1>4. CASE Code(o, p) = "JMP"
  BY <1>2, <1>4 DEF Jumps
<1>5. CASE Code(o, p) \in {"FAST_RET", "RETURN", "THROW"}
  <2>1. n = 0
    BY <1>5 DEF IsOpArray
  <2>2. Range(to) = {}
    BY <1>3, <2>1
  <2> QED
    BY <1>2, <1>5, <2>2
<1>6. CASE Code(o, p) \in {"BRANCH", "FAST_CALL"}
  <2>1. n = 1
    BY <1>6 DEF IsOpArray
  <2>2. Range(to) \subseteq {to[1]}
    BY <1>3, <2>1
  <2>3. CASE Code(o, p) = "BRANCH"
    <3>1. Jumps(o, p) = <<p + 1, to[1]>>
      BY <2>3 DEF Jumps
    <3>2. Range(<<p + 1, to[1]>>) = {p + 1, to[1]}
      BY DEF Range
    <3> QED
      BY <1>2, <2>2, <2>3, <3>1, <3>2
  <2>4. CASE Code(o, p) = "FAST_CALL"
    <3>1. Jumps(o, p) = <<to[1], p + 1>>
      BY <2>4 DEF Jumps
    <3>2. Range(<<to[1], p + 1>>) = {p + 1, to[1]}
      BY DEF Range
    <3> QED
      BY <1>2, <2>2, <2>4, <3>1, <3>2
  <2> QED
    BY <1>6, <2>3, <2>4
<1>7. CASE Code(o, p) = "CATCH"
  <2>1. CASE to = <<>>
    <3>1. Jumps(o, p) = <<p + 1, EXIT>> /\ Range(to) = {}
      BY <1>3, <1>7, <2>1 DEF Jumps
    <3>2. p + 1 \in Range(<<p + 1, EXIT>>)
      BY DEF Range
    <3> QED
      BY <1>2, <1>7, <3>1, <3>2
  <2>2. CASE to # <<>>
    <3>1. n = 1
      BY <1>7, <2>2 DEF IsOpArray
    <3>2. Range(to) \subseteq {to[1]}
      BY <1>3, <3>1
    <3>3. Jumps(o, p) = IF to[1] = p + 1 THEN <<p + 1>> ELSE <<p + 1, to[1]>>
      BY <1>7, <2>2 DEF Jumps
    <3>4. Range(<<p + 1>>) = {p + 1} /\ Range(<<p + 1, to[1]>>) = {p + 1, to[1]}
      BY DEF Range
    <3>5. Range(Jumps(o, p)) = {p + 1, to[1]}
      BY <3>3, <3>4
    <3> QED
      BY <1>2, <3>2, <3>5
  <2> QED
    BY <2>1, <2>2
<1>8. CASE Code(o, p) \in {"SWITCH", "MATCH"}
  <2>1. n <= MaxOuts - 1 /\ to # <<>>
    BY <1>8 DEF KnowsJumps, IsOpArray
  <2>2. n \in Nat \ {0}
    BY <1>1, <2>1, EmptySeq
  <2> DEFINE m == n - 1
             cs == Cases(to)
  <2>3. cs = SubSeq(to, 1, m)
    BY <1>1, <2>1, MaxOutsAssumption DEF Cases
  <2>4. Len(cs) = m /\ cs \in Seq(Ops(o)) /\ \A k \in 1 .. m : cs[k] = to[k]
    BY <1>1, <2>2, <2>3, SubSeqProperties
  <2>5. Range(to) \subseteq Range(cs) \cup {to[n]}
    <3> SUFFICES ASSUME NEW k \in 1 .. n PROVE to[k] \in Range(cs) \cup {to[n]}
      BY <1>3
    <3>1. CASE k = n
      BY <3>1
    <3>2. CASE k # n
      <4>1. k \in 1 .. m
        BY <2>2, <3>2
      <4>2. DOMAIN cs = 1 .. m
        BY <2>4
      <4> QED
        BY <2>4, <4>1, <4>2 DEF Range
    <3> QED
      BY <3>1, <3>2
  <2>6. to[n] \in Nat /\ p + 1 \in Nat /\ cs \in Seq(Nat)
    <3>1. Ops(o) \subseteq Nat
      BY LeadersFinite DEF Ops
    <3>2. to[n] \in Ops(o)
      BY <1>1, <2>2, ElementOfSeq
    <3>3. cs \in Seq(Nat)
      BY <2>4, <3>1
    <3> QED
      BY <3>1, <3>2, <3>3
  <2> HIDE DEF cs, m
  <2>7. CASE Code(o, p) = "MATCH"
    <3>1. <<to[n]>> \in Seq(Nat) /\ Range(<<to[n]>>) = {to[n]}
      BY <2>6 DEF Range
    <3>2. Jumps(o, p) = cs \o <<to[n]>>
      BY <2>7 DEF Jumps, cs
    <3>3. Range(cs) \cup {to[n]} \subseteq Range(cs \o <<to[n]>>)
      BY <2>6, <3>1, RangeOfConcat
    <3> QED
      BY <1>2, <2>5, <2>7, <3>2, <3>3
  <2>8. CASE Code(o, p) = "SWITCH"
    <3>1. <<to[n], p + 1>> \in Seq(Nat) /\ Range(<<to[n], p + 1>>) = {to[n], p + 1}
      BY <2>6 DEF Range
    <3>2. Jumps(o, p) = cs \o <<to[n], p + 1>>
      BY <2>8 DEF Jumps, cs
    <3>3. Range(cs) \cup {to[n], p + 1} \subseteq Range(cs \o <<to[n], p + 1>>)
      BY <2>6, <3>1, RangeOfConcat
    <3> QED
      BY <1>2, <2>5, <2>8, <3>2, <3>3
  <2> QED
    BY <1>8, <2>7, <2>8
<1> QED
  BY <1>1, <1>4, <1>5, <1>6, <1>7, <1>8 DEF ControlFlow

LEMMA KnownMove ==
  ASSUME NEW o, IsOpArray(o), KnowsJumps(o), NEW p \in Ops(o),
         NEW q \in NextOps(o.opcodes[p], p) \cap Ops(o),
         p <= EndOp(o, OpToBlock(o)[p])
  PROVE  \/ /\ q = p + 1 /\ q \notin Leaders(o) /\ ~IsControlFlow(o, p)
            /\ OpToBlock(o)[q] = OpToBlock(o)[p]
            /\ q <= EndOp(o, OpToBlock(o)[p])
         \/ q \in Leaders(o) /\ EndOp(o, OpToBlock(o)[p]) = p
<1>1. CASE IsControlFlow(o, p)
  <2>1. q \in Leaders(o)
    BY <1>1, KnownJumps, JumpsLead
  <2>2. EndOp(o, OpToBlock(o)[p]) <= p
    BY <1>1, JumpEndsBlock
  <2> QED
    BY <2>1, <2>2, OpInBlock
<1>2. CASE ~IsControlFlow(o, p)
  <2>1. q = p + 1
    BY <1>2 DEF NextOps, KnowsJumps, IsControlFlow, Code
  <2> QED
    BY <1>2, <2>1, StraightOn
<1> QED
  BY <1>1, <1>2
=============================================================================
