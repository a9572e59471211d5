------------------------- MODULE AnalysisScan_proof -------------------------
(***************************************************************************)
(* The loops of fxd_analyse_op_array compute the block structure that      *)
(* module Analysis defines, for op_arrays of any length and any jumps; and *)
(* where every jump is known, control follows the edges of outs[].         *)
(***************************************************************************)
EXTENDS AnalysisScan, Analysis_proof

\* What the loops have found of an op_array x, after its ops below n.

LeadersBelow(x, n) ==
  {0} \cup {p \in 0 .. n - 1 : Code(x, p) = "CATCH"}
      \cup {t \in Ops(x) : \E p \in 0 .. n - 1 : t \in Range(Jumps(x, p))}

BlocksBelow(x, n) == IF n = 0 THEN 0 ELSE OpToBlock(x)[n - 1] + 1

\* The last op a block has taken in, its ops with a line, its line entries.
EndBelow(x, b, n) == IF EndOp(x, b) < n THEN EndOp(x, b) ELSE n - 1
LineOpsBelow(x, b, n) == LineOps(x) \cap (StartOp(x, b) .. EndBelow(x, b, n))
EntriesBelow(x, b, n) == {e \in LineEntries(x, b) : e.op < n}

LinesBelow(x, b, n, lines) ==
  /\ ToSet(lines) = EntriesBelow(x, b, n)
  /\ lines = <<>> <=> LineOpsBelow(x, b, n) = {}
  /\ lines # <<>> => Last(lines).line = Line(x, Max(LineOpsBelow(x, b, n)))

LineRecords == [line : Nat, op : Nat]
BlockRecords ==
  [start_op : Nat, end_op : Nat, is_entry : BOOLEAN, lines : Seq(LineRecords), outs : Seq(Int)]

BlockBelow(x, b, n, r) ==
  /\ r \in BlockRecords
  /\ r.start_op = StartOp(x, b) /\ r.end_op = EndBelow(x, b, n)
  /\ r.is_entry = IsEntry(x, b)
  /\ LinesBelow(x, b, n, r.lines)

\* Block b takes in no op from n on.
ClosedBelow(x, b, n) == EndOp(x, b) < n /\ IsControlFlow(x, EndOp(x, b))

LinesOf(x, n) == {Line(x, p) : p \in {q \in LineOps(x) : q < n}}

\* The loop that assigns ops to blocks, after the ops below n.
Assigned(n) ==
  /\ block_id = BlocksBelow(o, n) - 1
  /\ op_to_block = [p \in 0 .. n - 1 |-> OpToBlock(o)[p]]
  /\ DOMAIN blocks = 0 .. block_id
  /\ \A b \in DOMAIN blocks : BlockBelow(o, b, n, blocks[b])
  /\ closed \in BOOLEAN /\ (closed <=> n > 0 /\ ClosedBelow(o, block_id, n))

OutsBelow(n) ==
  \A b \in DOMAIN blocks : blocks[b].outs = IF b < n THEN Outs(o, b) ELSE <<>>

ExecLinesBelow(n) == exec_lines \in Seq(Nat) /\ ToSet(exec_lines) = LinesOf(o, n)

PosInv ==
  CASE phase = "outs" -> pos \in Blocks(o)
    [] phase = "done" -> pos = 0
    [] OTHER -> pos \in Ops(o)

\* What each loop has done so far, and that the loops after it have not begun.
ScanInv ==
  /\ IsOpArray(o) /\ phase \in Phases /\ PosInv
  /\ is_leader = IF phase = "leaders" THEN LeadersBelow(o, pos) ELSE Leaders(o)
  /\ num_blocks = CASE phase = "leaders" -> 0
                    [] phase = "count" -> BlocksBelow(o, pos)
                    [] OTHER -> NumBlocks(o)
  /\ CASE phase \in {"leaders", "count"} -> Assigned(0)
       [] phase = "assign" -> Assigned(pos)
       [] OTHER -> Assigned(o.last)
  /\ CASE phase = "outs" -> OutsBelow(pos)
       [] phase \in {"lines", "done"} -> OutsBelow(NumBlocks(o))
       [] OTHER -> OutsBelow(0)
  /\ CASE phase = "lines" -> ExecLinesBelow(pos)
       [] phase = "done" -> ExecLinesBelow(o.last)
       [] OTHER -> ExecLinesBelow(0)

-----------------------------------------------------------------------------
(* Blocks are numbered as their leaders are met.                             *)

LEMMA NextLeader ==
  ASSUME NEW S \in SUBSET Nat, IsFiniteSet(S), NEW n \in Nat \ {0}
  PROVE  RankIn(S, n) = RankIn(S, n - 1) + (IF n \in S THEN 1 ELSE 0)
<1> DEFINE A == {l \in S : l <= n - 1}
           B == {l \in S : l <= n}
<1>1. IsFiniteSet(A) /\ n \notin A
  BY FS_Subset
<1>2. \A l \in S : l <= n <=> l <= n - 1 \/ l = n
  OBVIOUS
<1>4. n \in S => B = A \cup {n}
  BY <1>2
<1>5. n \notin S => B = A
  BY <1>2
<1>3. Cardinality(A \cup {n}) = Cardinality(A) + 1 /\ Cardinality(A) \in Nat
  BY <1>1, FS_AddElement, FS_CardinalityType
<1> QED
  BY <1>3, <1>4, <1>5 DEF RankIn

LEMMA BlocksStep ==
  ASSUME NEW x, IsOpArray(x), NEW n \in Ops(x)
  PROVE  /\ BlocksBelow(x, n) \in Nat /\ BlocksBelow(x, n) <= NumBlocks(x)
         /\ BlocksBelow(x, n + 1) = BlocksBelow(x, n) + (IF n \in Leaders(x) THEN 1 ELSE 0)
         /\ BlocksBelow(x, n + 1) = OpToBlock(x)[n] + 1
         /\ n + 1 = x.last => BlocksBelow(x, n + 1) = NumBlocks(x)
<1> DEFINE L == Leaders(x)
<1>1. /\ x.last \in Nat \ {0} /\ L \in SUBSET Ops(x) /\ L \in SUBSET Nat /\ 0 \in L
      /\ IsFiniteSet(L) /\ NumBlocks(x) = Cardinality(L) /\ NumBlocks(x) \in Nat \ {0}
  BY LeadersFinite
<1>2. n \in Nat /\ n < x.last
  BY <1>1 DEF Ops
<1>3. BlocksBelow(x, n + 1) = OpToBlock(x)[n] + 1
  BY <1>2 DEF BlocksBelow
<1>4. OpToBlock(x)[n] = RankIn(L, n) - 1
  BY BlockOfOp
<1>5. RankIn(L, n) \in Nat
  BY <1>1, <1>2, RankGrows
<1> DEFINE Goal == /\ BlocksBelow(x, n) \in Nat /\ BlocksBelow(x, n) <= NumBlocks(x)
                   /\ BlocksBelow(x, n + 1) = BlocksBelow(x, n) + (IF n \in L THEN 1 ELSE 0)
<1>6. ASSUME n = 0 PROVE Goal
  <2>1. {l \in L : l <= 0} = {0}
    BY <1>1
  <2>2. RankIn(L, 0) = 1
    BY <2>1, FS_Singleton DEF RankIn
  <2>3. BlocksBelow(x, n) = 0
    BY <1>6 DEF BlocksBelow
  <2>4. BlocksBelow(x, n + 1) = 1 /\ n \in L /\ BlocksBelow(x, n) <= NumBlocks(x)
    BY <1>1, <1>3, <1>4, <1>6, <2>2, <2>3
  <2> QED
    BY <2>3, <2>4
<1>7. ASSUME n # 0 PROVE Goal
  <2>1. n \in Nat \ {0} /\ n - 1 \in Ops(x) /\ n - 1 \in Nat
    BY <1>1, <1>2, <1>7 DEF Ops
  <2>2. OpToBlock(x)[n - 1] = RankIn(L, n - 1) - 1 /\ OpToBlock(x)[n - 1] \in Blocks(x)
    BY <2>1, BlockOfOp
  <2>3. RankIn(L, n - 1) \in Nat
    BY <1>1, <2>1, RankGrows
  <2>4. BlocksBelow(x, n) = RankIn(L, n - 1) /\ BlocksBelow(x, n) <= NumBlocks(x)
    BY <1>1, <1>7, <2>2, <2>3 DEF BlocksBelow, Blocks
  <2>5. RankIn(L, n) = RankIn(L, n - 1) + (IF n \in L THEN 1 ELSE 0)
    BY <1>1, <2>1, NextLeader
  <2>6. BlocksBelow(x, n + 1) = RankIn(L, n)
    BY <1>3, <1>4, <1>5
  <2> QED
    BY <2>3, <2>4, <2>5, <2>6
<1>8. ASSUME n + 1 = x.last
      PROVE  BlocksBelow(x, n + 1) = NumBlocks(x)
  <2>1. {l \in L : l <= n} = L
    BY <1>1, <1>2, <1>8 DEF Ops
  <2>2. RankIn(L, n) = NumBlocks(x)
    BY <1>1, <2>1 DEF RankIn
  <2> QED
    BY <1>3, <1>4, <1>5, <2>2
<1>9. Goal
  BY <1>6, <1>7
<1> QED
  BY <1>3, <1>8, <1>9

LEMMA BlocksInOrder ==
  ASSUME NEW x, IsOpArray(x), NEW p \in Ops(x), NEW q \in Ops(x), OpToBlock(x)[p] < OpToBlock(x)[q]
  PROVE  p < q
<1> DEFINE L == Leaders(x)
<1>1. L \in SUBSET Nat /\ IsFiniteSet(L) /\ p \in Nat /\ q \in Nat
  BY LeadersFinite DEF Ops
<1>2. OpToBlock(x)[p] = RankIn(L, p) - 1 /\ OpToBlock(x)[q] = RankIn(L, q) - 1
  BY BlockOfOp
<1>3. q <= p => RankIn(L, q) <= RankIn(L, p)
  BY <1>1, RankGrows
<1>4. RankIn(L, p) \in Nat /\ RankIn(L, q) \in Nat
  BY <1>1, RankGrows
<1> HIDE DEF L
<1> QED
  BY <1>1, <1>2, <1>3, <1>4

\* After the ops below n the blocks of these ops have begun, and all but the
\* last of them have ended.
LEMMA BlocksBegun ==
  ASSUME NEW x, IsOpArray(x), NEW n \in 1 .. x.last
  PROVE  LET k == OpToBlock(x)[n - 1]
         IN  /\ n - 1 \in Ops(x) /\ k \in Blocks(x) /\ BlocksBelow(x, n) = k + 1
             /\ \A b \in 0 .. k : b \in Blocks(x) /\ StartOp(x, b) < n
             /\ \A b \in 0 .. k - 1 : EndOp(x, b) < n
<1> DEFINE k == OpToBlock(x)[n - 1]
<1>1. x.last \in Nat \ {0} /\ NumBlocks(x) \in Nat \ {0}
  BY LeadersFinite
<1>2. n \in Nat /\ n - 1 \in Ops(x) /\ n # 0
  BY <1>1 DEF Ops
<1>3. k \in Blocks(x)
  BY <1>2, BlockOfOp
<1>4. k + 1 = BlocksBelow(x, n)
  BY <1>2 DEF BlocksBelow
<1>5. n - 1 \in BlockOps(x, k)
  BY <1>2 DEF BlockOps
<1>6. \A b \in 0 .. k : b \in Blocks(x)
  BY <1>1, <1>3 DEF Blocks
<1> HIDE DEF k
<1>7. k \in Nat
  BY <1>1, <1>3 DEF Blocks
<1>8. ASSUME NEW b \in 0 .. k - 1
      PROVE  StartOp(x, b) < n /\ EndOp(x, b) < n
  <2>1. b \in Blocks(x) /\ b < k /\ b \in 0 .. k
    BY <1>6, <1>7
  <2>2. StartOp(x, b) \in BlockOps(x, b) /\ EndOp(x, b) \in BlockOps(x, b)
    BY <2>1, BlockIsRun, EndOfBlock
  <2>3. ASSUME NEW p \in BlockOps(x, b)
        PROVE  p < n
    <3>1. p \in Ops(x) /\ OpToBlock(x)[p] < OpToBlock(x)[n - 1]
      BY <1>5, <2>1 DEF BlockOps
    <3>2. p < n - 1
      BY <1>2, <3>1, BlocksInOrder
    <3>3. p \in Int
      BY <3>1 DEF Ops
    <3> QED
      BY <1>2, <3>2, <3>3
  <2> QED
    BY <2>2, <2>3
<1>9. StartOp(x, k) < n
  <2>1. StartOp(x, k) <= n - 1
    BY <1>3, <1>5, BlockIsRun
  <2>2. StartOp(x, k) \in Ops(x)
    BY <1>3, BlockIsRun DEF BlockOps
  <2>3. StartOp(x, k) \in Int
    BY <2>2 DEF Ops
  <2> QED
    BY <1>2, <2>1, <2>3
<1>10. \A b \in 0 .. k : b \in 0 .. k - 1 \/ b = k
  BY <1>7
<1>11. \A b \in 0 .. k : b \in Blocks(x) /\ StartOp(x, b) < n
  BY <1>6, <1>8, <1>9, <1>10
<1> QED
  BY <1>2, <1>3, <1>4, <1>8, <1>11 DEF k

-----------------------------------------------------------------------------
(* The lines of the block that is being filled.                              *)

\* An op that a block does not take in changes nothing.
LEMMA BlockKeeps ==
  ASSUME NEW x, IsOpArray(x), NEW b \in Blocks(x), NEW n \in Nat, EndOp(x, b) < n,
         NEW r, BlockBelow(x, b, n, r)
  PROVE  BlockBelow(x, b, n + 1, r)
<1>1. EndOp(x, b) \in Nat
  BY EndOfBlock DEF BlockOps, Ops
<1>2. EndBelow(x, b, n + 1) = EndBelow(x, b, n)
  BY <1>1 DEF EndBelow
<1>3. LineOpsBelow(x, b, n + 1) = LineOpsBelow(x, b, n)
  BY <1>2 DEF LineOpsBelow
<1>4. StartOp(x, b) \in Nat
  BY BlockIsRun DEF BlockOps, Ops
<1>5. \A e \in LineEntries(x, b) : e.op < n /\ e.op < n + 1
  <2> TAKE e \in LineEntries(x, b)
  <2>1. e.op \in StartOp(x, b) .. EndOp(x, b)
    BY EntryIsLineOp
  <2> QED
    BY <1>1, <1>4, <2>1
<1>6. EntriesBelow(x, b, n + 1) = EntriesBelow(x, b, n)
  BY <1>5 DEF EntriesBelow
<1> QED
  BY <1>2, <1>3, <1>6 DEF BlockBelow, LinesBelow

\* An op within the block is its newest entry, if it has a line other than the
\* op with a line before it.
LEMMA EntryOfOp ==
  ASSUME NEW x, IsOpArray(x), NEW b \in Blocks(x),
         NEW n \in Nat, StartOp(x, b) <= n, n <= EndOp(x, b)
  PROVE  LET S == LineOps(x) \cap (StartOp(x, b) .. n - 1)
             new == n \in LineOps(x) /\ ~(S # {} /\ Line(x, Max(S)) = Line(x, n))
         IN  EntriesBelow(x, b, n + 1) =
               EntriesBelow(x, b, n) \cup (IF new THEN {[line |-> Line(x, n), op |-> n]} ELSE {})
<1> DEFINE ops == LineOps(x) \cap (StartOp(x, b) .. EndOp(x, b))
           earlier(q) == {r \in ops : r < q}
           repeats(q) == earlier(q) # {} /\ Line(x, Max(earlier(q))) = Line(x, q)
           entry(q) == [line |-> Line(x, q), op |-> q]
           S == LineOps(x) \cap (StartOp(x, b) .. n - 1)
           new == n \in LineOps(x) /\ ~(S # {} /\ Line(x, Max(S)) = Line(x, n))
<1>1. StartOp(x, b) \in Nat /\ EndOp(x, b) \in Nat
  BY BlockIsRun, EndOfBlock DEF BlockOps, Ops
<1>2. earlier(n) = S
  BY <1>1
<1>3. n \in LineOps(x) <=> n \in ops
  BY <1>1
<1>4. LineEntries(x, b) = {entry(q) : q \in {r \in ops : ~repeats(r)}}
  BY DEF LineEntries
<1>5. new <=> n \in {r \in ops : ~repeats(r)}
  BY <1>2, <1>3
<1>6. \A q \in ops : q \in Nat /\ (q < n + 1 <=> q < n \/ q = n)
  BY <1>1
<1> DEFINE N == {r \in ops : ~repeats(r)}
<1>7. N \subseteq ops
  OBVIOUS
<1> HIDE DEF ops, repeats, new, S, N
<1>8. \A q : entry(q).op = q
  OBVIOUS
<1>9. EntriesBelow(x, b, n) = {entry(q) : q \in {r \in N : r < n}}
  BY <1>4, <1>8 DEF EntriesBelow, N
<1>10. EntriesBelow(x, b, n + 1) = {entry(q) : q \in {r \in N : r < n + 1}}
  BY <1>4, <1>8 DEF EntriesBelow, N
<1>11. {r \in N : r < n + 1} = {r \in N : r < n} \cup (IF new THEN {n} ELSE {})
  BY <1>5, <1>6, <1>7 DEF N
<1>12. EntriesBelow(x, b, n + 1) =
         EntriesBelow(x, b, n) \cup (IF new THEN {entry(n)} ELSE {})
  BY <1>9, <1>10, <1>11
<1> QED
  BY <1>12 DEF new, S

LEMMA AppendedTo ==
  ASSUME NEW T, NEW s \in Seq(T), NEW e \in T
  PROVE  /\ Append(s, e) \in Seq(T) /\ Append(s, e) # <<>>
         /\ Last(Append(s, e)) = e
         /\ ToSet(Append(s, e)) = ToSet(s) \cup {e}
<1> DEFINE t == Append(s, e)
           n == Len(s)
<1>1. /\ n \in Nat /\ t \in Seq(T) /\ Len(t) = n + 1 /\ t[n + 1] = e
      /\ DOMAIN s = 1 .. n /\ DOMAIN t = 1 .. n + 1 /\ \A k \in 1 .. n : t[k] = s[k]
  OBVIOUS
<1> HIDE DEF t, n
<1>2. \A k \in 1 .. n + 1 : k \in 1 .. n \/ k = n + 1
  BY <1>1
<1>3. 1 .. n \subseteq 1 .. n + 1 /\ n + 1 \in 1 .. n + 1
  BY <1>1
<1>4. ToSet(t) = ToSet(s) \cup {e}
  BY <1>1, <1>2, <1>3 DEF ToSet
<1>5. t # <<>> /\ Last(t) = e
  BY <1>1 DEF Last
<1> QED
  BY <1>1, <1>4, <1>5 DEF t

LEMMA ToSetEmpty == ToSet(<<>>) = {}
BY DEF ToSet

LEMMA MaxNew ==
  ASSUME NEW S \in SUBSET Nat, NEW n \in Nat, \A s \in S : s < n
  PROVE  Max(S \cup {n}) = n
<1> DEFINE T == S \cup {n}
<1>1. T \in SUBSET Nat /\ T # {} /\ n \in T /\ \A t \in T : t <= n
  OBVIOUS
<1> HIDE DEF T
<1>2. Max(T) \in T /\ \A t \in T : t <= Max(T)
  BY <1>1, MaxIsGreatest
<1>3. Max(T) \in Nat /\ Max(T) <= n /\ n <= Max(T)
  BY <1>1, <1>2
<1> QED
  BY <1>3 DEF T

\* An open block takes in the next op.
LEMMA AddOpStep ==
  ASSUME NEW x, x = o, IsOpArray(x), NEW b \in Blocks(x),
         NEW n \in Nat, StartOp(x, b) < n, n <= EndOp(x, b),
         NEW r, BlockBelow(x, b, n, r), r.outs = <<>>
  PROVE  BlockBelow(x, b, n + 1, AddOp(r, n)) /\ AddOp(r, n).outs = <<>>
<1> DEFINE S == LineOps(x) \cap (StartOp(x, b) .. n - 1)
           relevant == Code(x, n) \notin LineIrrelevant
           repeats == r.lines # <<>> /\ Last(r.lines).line = Line(x, n)
           entry == [line |-> Line(x, n), op |-> n]
           lines == IF relevant /\ ~repeats THEN Append(r.lines, entry) ELSE r.lines
           r2 == AddOp(r, n)
<1>1. /\ StartOp(x, b) \in Nat /\ EndOp(x, b) \in Nat /\ n \in Ops(x)
      /\ x.last \in Nat /\ EndOp(x, b) < x.last
  <2>1. StartOp(x, b) \in Ops(x) /\ EndOp(x, b) \in Ops(x) /\ x.last \in Nat
    BY BlockIsRun, EndOfBlock, LeadersFinite DEF BlockOps
  <2> QED
    BY <2>1 DEF Ops
<1>2. r \in BlockRecords /\ r.lines \in Seq(LineRecords)
  BY DEF BlockBelow, BlockRecords
<1>3. EndBelow(x, b, n) = n - 1 /\ EndBelow(x, b, n + 1) = n
  BY <1>1 DEF EndBelow
<1>4. LineOpsBelow(x, b, n) = S
  BY <1>3 DEF LineOpsBelow
<1>5. n \in LineOps(x) <=> relevant
  BY <1>1 DEF LineOps
<1>6. LineOpsBelow(x, b, n + 1) = S \cup (IF relevant THEN {n} ELSE {})
  <2>1. StartOp(x, b) .. n = (StartOp(x, b) .. n - 1) \cup {n}
    BY <1>1
  <2> QED
    BY <1>3, <1>5, <2>1 DEF LineOpsBelow
<1>7. repeats <=> S # {} /\ Line(x, Max(S)) = Line(x, n)
  BY <1>4 DEF BlockBelow, LinesBelow
<1>8. /\ r2 \in BlockRecords /\ r2.start_op = r.start_op /\ r2.end_op = n
      /\ r2.is_entry = r.is_entry /\ r2.lines = lines /\ r2.outs = <<>>
  <2>1. entry \in LineRecords
    BY <1>1 DEF LineRecords, IsOpArray
  <2>2. lines \in Seq(LineRecords)
    BY <1>2, <2>1, AppendedTo
  <2>3. r2 = [r EXCEPT !.end_op = n, !.lines = lines]
    BY DEF AddOp
  <2> HIDE DEF lines, r2
  <2> QED
    BY <1>2, <2>2, <2>3 DEF BlockRecords
<1>9. EntriesBelow(x, b, n + 1) =
        EntriesBelow(x, b, n) \cup (IF relevant /\ ~repeats THEN {entry} ELSE {})
  <2> DEFINE new == n \in LineOps(x) /\ ~(S # {} /\ Line(x, Max(S)) = Line(x, n))
  <2>1. EntriesBelow(x, b, n + 1) = EntriesBelow(x, b, n) \cup (IF new THEN {entry} ELSE {})
    <3>1. StartOp(x, b) <= n
      BY <1>1
    <3> QED
      BY <3>1, EntryOfOp
  <2>2. new <=> relevant /\ ~repeats
    BY <1>5, <1>7
  <2> HIDE DEF new, relevant, repeats, entry
  <2> QED
    BY <2>1, <2>2
<1>10. ToSet(lines) = EntriesBelow(x, b, n + 1)
  <2>1. ToSet(r.lines) = EntriesBelow(x, b, n) /\ entry \in LineRecords
    BY <1>1 DEF BlockBelow, LinesBelow, LineRecords, IsOpArray
  <2>2. ToSet(Append(r.lines, entry)) = ToSet(r.lines) \cup {entry}
    BY <1>2, <2>1, AppendedTo
  <2> HIDE DEF relevant, repeats, entry
  <2>3. CASE relevant /\ ~repeats
    BY <1>9, <2>1, <2>2, <2>3
  <2>4. CASE ~(relevant /\ ~repeats)
    BY <1>9, <2>1, <2>4
  <2> QED
    BY <2>3, <2>4
<1>11. relevant => Max(LineOpsBelow(x, b, n + 1)) = n
  <2>1. S \in SUBSET Nat /\ \A s \in S : s < n
    BY <1>1
  <2> QED
    BY <1>6, <2>1, MaxNew
<1>12. lines = <<>> <=> LineOpsBelow(x, b, n + 1) = {}
  <2>1. relevant => LineOpsBelow(x, b, n + 1) # {} /\ lines # <<>>
    <3>1. Append(r.lines, entry) # <<>>
      <4>1. entry \in LineRecords
        BY <1>1 DEF LineRecords, IsOpArray
      <4> QED
        BY <1>2, <4>1, AppendedTo
    <3> QED
      BY <1>6, <3>1
  <2>2. ~relevant => LineOpsBelow(x, b, n + 1) = LineOpsBelow(x, b, n) /\ lines = r.lines
    BY <1>4, <1>6
  <2> QED
    BY <2>1, <2>2 DEF BlockBelow, LinesBelow
<1>13. lines # <<>> => Last(lines).line = Line(x, Max(LineOpsBelow(x, b, n + 1)))
  <2>1. CASE relevant /\ ~repeats
    <3>1. Last(Append(r.lines, entry)) = entry
      <4>1. entry \in LineRecords
        BY <1>1 DEF LineRecords, IsOpArray
      <4> QED
        BY <1>2, <4>1, AppendedTo
    <3> QED
      BY <1>11, <2>1, <3>1
  <2>2. CASE relevant /\ repeats
    BY <1>11, <2>2
  <2>3. CASE ~relevant
    <3>1. LineOpsBelow(x, b, n + 1) = LineOpsBelow(x, b, n) /\ lines = r.lines
      BY <1>4, <1>6, <2>3
    <3> QED
      BY <3>1 DEF BlockBelow, LinesBelow
  <2> QED
    BY <2>1, <2>2, <2>3
<1> HIDE DEF lines, r2
<1>14. LinesBelow(x, b, n + 1, lines)
  BY <1>10, <1>12, <1>13 DEF LinesBelow
<1>15. BlockBelow(x, b, n + 1, r2) /\ r2.outs = <<>>
  BY <1>3, <1>8, <1>14 DEF BlockBelow
<1> QED
  BY <1>15 DEF r2

\* A leader opens a block and is its first op.
LEMMA OpenBlockStep ==
  ASSUME NEW x, x = o, IsOpArray(x), NEW n \in Leaders(x)
  PROVE  LET b == OpToBlock(x)[n]
             r == AddOp(OpenBlock(n), n)
         IN  b \in Blocks(x) /\ BlockBelow(x, b, n + 1, r) /\ r.outs = <<>>
<1> DEFINE b == OpToBlock(x)[n]
           relevant == Code(x, n) \notin LineIrrelevant
           entry == [line |-> Line(x, n), op |-> n]
           lines == IF relevant THEN Append(<<>>, entry) ELSE <<>>
           r == AddOp(OpenBlock(n), n)
<1>1. n \in Ops(x) /\ StartOp(x, b) = n /\ n <= EndOp(x, b) /\ b \in Blocks(x)
  BY LeaderStarts, OpInBlock
<1>2. n \in Nat /\ EndOp(x, b) \in Nat
  BY <1>1, EndOfBlock DEF BlockOps, Ops
<1>3. entry \in LineRecords /\ <<>> \in Seq(LineRecords)
  BY <1>1, <1>2 DEF LineRecords, IsOpArray
<1>4. /\ r \in BlockRecords /\ r.start_op = n /\ r.end_op = n
      /\ (r.is_entry <=> n = 0 \/ Code(x, n) = "CATCH") /\ r.lines = lines /\ r.outs = <<>>
  <2>1. lines \in Seq(LineRecords)
    BY <1>3, AppendedTo
  <2> DEFINE first == n = 0 \/ Code(x, n) = "CATCH"
             ob == OpenBlock(n)
  <2>2. ob = [start_op |-> n, end_op |-> n, is_entry |-> first, lines |-> <<>>, outs |-> <<>>]
    BY DEF OpenBlock
  <2>3. first \in BOOLEAN /\ <<>> \in Seq(Int) /\ <<>> \in Seq(LineRecords)
    OBVIOUS
  <2>4. ob.lines = <<>>
    BY <2>2
  <2>5. r = [ob EXCEPT !.end_op = n, !.lines = lines]
    BY <2>4 DEF AddOp
  <2> HIDE DEF lines, r, first, ob
  <2>6. /\ ob \in BlockRecords /\ ob.start_op = n /\ ob.is_entry = first /\ ob.outs = <<>>
    BY <1>2, <2>2, <2>3 DEF BlockRecords
  <2>7. /\ r \in BlockRecords /\ r.start_op = n /\ r.end_op = n /\ r.is_entry = first
        /\ r.lines = lines /\ r.outs = <<>>
    BY <1>2, <2>1, <2>5, <2>6 DEF BlockRecords
  <2> QED
    BY <2>7 DEF first
<1>5. EndBelow(x, b, n + 1) = n
  BY <1>1, <1>2 DEF EndBelow
<1>6. LineOpsBelow(x, b, n + 1) = IF relevant THEN {n} ELSE {}
  <2>1. n .. n = {n}
    BY <1>2
  <2>2. n \in LineOps(x) <=> relevant
    BY <1>1 DEF LineOps
  <2> QED
    BY <1>1, <1>5, <2>1, <2>2 DEF LineOpsBelow
<1> DEFINE one == Append(<<>>, entry)
<1>15. one # <<>> /\ Last(one) = entry /\ ToSet(one) = {entry}
  <2> DEFINE none == <<>>
  <2> HIDE DEF entry, none
  <2>2. none \in Seq(LineRecords) /\ entry \in LineRecords
    BY <1>3 DEF none
  <2>3. /\ Append(none, entry) # <<>> /\ Last(Append(none, entry)) = entry
        /\ ToSet(Append(none, entry)) = ToSet(none) \cup {entry}
    BY <2>2, AppendedTo
  <2>1. one # <<>> /\ Last(one) = entry /\ ToSet(one) = ToSet(<<>>) \cup {entry}
    BY <2>3 DEF none
  <2> QED
    BY <2>1, ToSetEmpty
<1>16. lines = IF relevant THEN one ELSE <<>>
  OBVIOUS
<1>7. ToSet(lines) = IF relevant THEN {entry} ELSE {}
  <2> HIDE DEF lines, one, entry, relevant
  <2> QED
    BY <1>15, <1>16, ToSetEmpty
<1>8. EntriesBelow(x, b, n + 1) = IF relevant THEN {entry} ELSE {}
  <2>1. LineOps(x) \cap (n .. n - 1) = {}
    BY <1>2
  <2>2. n \in LineOps(x) <=> relevant
    BY <1>1 DEF LineOps
  <2>3. EntriesBelow(x, b, n) = {}
    <3>1. \A e \in LineEntries(x, b) : e.op >= n
      BY <1>1, <1>2, EntryIsLineOp
    <3>2. \A e \in LineEntries(x, b) : e.op \in Nat
      BY <1>1, <1>2, EntryIsLineOp
    <3> QED
      BY <1>2, <3>1, <3>2 DEF EntriesBelow
  <2>4. EntriesBelow(x, b, n + 1) = EntriesBelow(x, b, n) \cup (IF relevant THEN {entry} ELSE {})
    <3> DEFINE S == LineOps(x) \cap (StartOp(x, b) .. n - 1)
               new == n \in LineOps(x) /\ ~(S # {} /\ Line(x, Max(S)) = Line(x, n))
    <3>1. StartOp(x, b) <= n
      BY <1>1, <1>2
    <3>2. EntriesBelow(x, b, n + 1) = EntriesBelow(x, b, n) \cup (IF new THEN {entry} ELSE {})
      BY <1>1, <1>2, <3>1, EntryOfOp
    <3>3. S = {}
      BY <1>1, <2>1
    <3>4. new <=> relevant
      BY <2>2, <3>3
    <3> HIDE DEF new, relevant, entry
    <3> QED
      BY <3>2, <3>4
  <2> QED
    BY <2>3, <2>4
<1>9. lines # <<>> => relevant /\ Last(lines) = entry
  <2> HIDE DEF lines, one, entry, relevant
  <2> QED
    BY <1>15, <1>16
<1>10. lines = <<>> <=> ~relevant
  <2> HIDE DEF lines, one, entry, relevant
  <2> QED
    BY <1>15, <1>16
<1>11. relevant => Max(LineOpsBelow(x, b, n + 1)) = n
  <2>1. {} \cup {n} = {n} /\ {} \in SUBSET Nat
    OBVIOUS
  <2>2. Max({} \cup {n}) = n
    BY <1>2, <2>1, MaxNew
  <2> QED
    BY <1>6, <2>1, <2>2
<1> HIDE DEF lines, r
<1>12. LinesBelow(x, b, n + 1, lines)
  BY <1>6, <1>7, <1>8, <1>9, <1>10, <1>11 DEF LinesBelow
<1>13. r.is_entry = IsEntry(x, b)
  <2>1. IsEntry(x, b) <=> n = 0 \/ Code(x, n) = "CATCH"
    BY <1>1 DEF IsEntry
  <2>2. r.is_entry \in BOOLEAN /\ IsEntry(x, b) \in BOOLEAN
    BY <1>4 DEF BlockRecords, IsEntry
  <2> QED
    BY <1>4, <2>1, <2>2
<1>14. BlockBelow(x, b, n + 1, r)
  BY <1>1, <1>4, <1>5, <1>12, <1>13 DEF BlockBelow
<1> QED
  BY <1>1, <1>4, <1>14 DEF r

-----------------------------------------------------------------------------
(* The outs a block gets.                                                    *)

LEMMA Flattened ==
  ASSUME NEW T, NEW ss \in Seq(T), Len(ss) > 0, NEW t,
         t[1] = ss[1], \A i \in 2 .. Len(ss) : t[i] = t[i - 1] \o ss[i]
  PROVE  FlattenSeq(ss) = t[Len(ss)]
<1> DEFINE n == Len(ss)
           rule(f) == [i \in 1 .. n |-> IF i = 1 THEN ss[i] ELSE f[i - 1] \o ss[i]]
           g == [i \in 1 .. n |-> t[i]]
           flat == CHOOSE f : f = rule(f)
<1>1. n \in Nat /\ n # 0
  OBVIOUS
<1>2. FlattenSeq(ss) = flat[n]
  BY <1>1 DEF FlattenSeq
<1> HIDE DEF n
<1>3. g = rule(g)
  <2>1. \A i \in 1 .. n : g[i] = IF i = 1 THEN ss[i] ELSE g[i - 1] \o ss[i]
    <3> TAKE i \in 1 .. n
    <3>1. i # 1 => i \in 2 .. n /\ i - 1 \in 1 .. n
      BY <1>1
    <3> QED
      BY <3>1 DEF n
  <2> HIDE DEF g
  <2>2. g = [i \in 1 .. n |-> g[i]]
    BY DEF g
  <2> QED
    BY <2>1, <2>2
<1>4. flat = rule(flat)
  <2> HIDE DEF rule, g
  <2> QED
    BY <1>3
<1> HIDE DEF flat
<1>5. \A i \in 1 .. n : flat[i] = IF i = 1 THEN ss[i] ELSE flat[i - 1] \o ss[i]
  BY <1>4
<1> DEFINE bad == {i \in 1 .. n : flat[i] # t[i]}
<1>6. bad = {}
  <2> SUFFICES ASSUME bad # {} PROVE FALSE
    OBVIOUS
  <2>1. bad \in SUBSET Nat
    BY <1>1
  <2> HIDE DEF bad
  <2>2. PICK i \in bad : \A j \in bad : i <= j
    BY <2>1, LeastNatural
  <2>3. i \in 1 .. n /\ flat[i] # t[i]
    BY <2>2 DEF bad
  <2>4. CASE i = 1
    BY <1>5, <2>3, <2>4
  <2>5. CASE i # 1
    <3>1. i \in 2 .. n /\ i - 1 \in 1 .. n /\ ~(i <= i - 1)
      BY <1>1, <2>3, <2>5
    <3>2. flat[i - 1] = t[i - 1]
      BY <2>2, <3>1 DEF bad
    <3>3. flat[i] = flat[i - 1] \o ss[i]
      BY <1>5, <2>3, <2>5
    <3>4. t[i] = t[i - 1] \o ss[i]
      BY <3>1 DEF n
    <3> QED
      BY <2>3, <3>2, <3>3, <3>4
  <2> QED
    BY <2>4, <2>5
<1>7. n \in 1 .. n
  BY <1>1
<1>8. flat[n] = t[n]
  BY <1>6, <1>7
<1> QED
  BY <1>2, <1>8 DEF n

LEMMA ConcatOne ==
  ASSUME NEW m \in Nat, NEW u, NEW w, \A k \in 1 .. m + 1 : u[k] \in Int, w = u[m + 1]
  PROVE  [k \in 1 .. m |-> u[k]] \o <<w>> = [k \in 1 .. m + 1 |-> u[k]]
<1> DEFINE s == [k \in 1 .. m |-> u[k]]
           t == [k \in 1 .. m + 1 |-> u[k]]
<1>1. \A k \in 1 .. m : k \in 1 .. m + 1
  OBVIOUS
<1>2. s \in Seq(Int) /\ Len(s) = m /\ \A k \in 1 .. m : s[k] = u[k]
  BY <1>1
<1>3. w \in Int /\ <<w>> \in Seq(Int) /\ Len(<<w>>) = 1 /\ <<w>>[1] = w
  OBVIOUS
<1>4. /\ DOMAIN t = 1 .. m + 1 /\ \A k \in 1 .. m + 1 : t[k] = u[k]
      /\ t = [k \in 1 .. m + 1 |-> t[k]]
  OBVIOUS
<1> HIDE DEF s, t
<1>5. s \o <<w>> \in Seq(Int) /\ Len(s \o <<w>>) = m + 1
  BY <1>2, <1>3
<1>6. \A k \in 1 .. m + 1 : (s \o <<w>>)[k] = IF k <= m THEN s[k] ELSE <<w>>[k - m]
  BY <1>2, <1>3
<1>7. \A k \in 1 .. m + 1 : (s \o <<w>>)[k] = u[k]
  <2> TAKE k \in 1 .. m + 1
  <2>1. CASE k <= m
    <3>1. k \in 1 .. m
      BY <2>1
    <3> QED
      BY <1>2, <1>6, <2>1, <3>1
  <2>2. CASE ~(k <= m)
    <3>1. k = m + 1 /\ k - m = 1
      BY <2>2
    <3>2. (s \o <<w>>)[k] = <<w>>[1]
      BY <1>6, <2>2, <3>1
    <3> QED
      BY <1>3, <3>1, <3>2
  <2> QED
    BY <2>1, <2>2
<1> DEFINE c == s \o <<w>>
<1>8. c = [k \in 1 .. m + 1 |-> c[k]]
  <2> HIDE DEF c
  <2>1. c \in Seq(Int) /\ Len(c) = m + 1
    BY <1>5 DEF c
  <2> QED
    BY <2>1
<1>9. \A k \in 1 .. m + 1 : c[k] = t[k]
  BY <1>4, <1>7
<1> HIDE DEF c
<1>10. c = t
  BY <1>4, <1>8, <1>9
<1> QED
  BY <1>10 DEF c, s, t

\* A sequence of at most one value each, put together, is that of the values.
Holds(ss, n, ks, v) ==
  /\ ks \in SUBSET (1 .. n) /\ v \in [1 .. n -> Int] /\ ss \in Seq(Seq(Int)) /\ Len(ss) = n
  /\ \A i \in 1 .. n : ss[i] = IF i \in ks THEN <<v[i]>> ELSE <<>>

ValuesAt(ks, v) == [k \in 1 .. Cardinality(ks) |-> v[Nth(ks, k)]]

LEMMA FlattenKept ==
  ASSUME NEW n \in Nat \ {0}, NEW ks, NEW v, NEW ss, Holds(ss, n, ks, v)
  PROVE  FlattenSeq(ss) = ValuesAt(ks, v)
<1>0. /\ ks \in SUBSET (1 .. n) /\ v \in [1 .. n -> Int] /\ ss \in Seq(Seq(Int)) /\ Len(ss) = n
      /\ \A i \in 1 .. n : ss[i] = IF i \in ks THEN <<v[i]>> ELSE <<>>
  BY DEF Holds
<1> USE <1>0
<1> DEFINE u == [k \in 1 .. Cardinality(ks) |-> v[Nth(ks, k)]]
           upTo(m) == [k \in 1 .. m |-> u[k]]
           t == [i \in 1 .. n |-> upTo(RankIn(ks, i))]
<1>1. ks \in SUBSET Nat /\ IsFiniteSet(ks) /\ Cardinality(ks) \in Nat
  <2>1. IsFiniteSet(1 .. n) /\ 1 .. n \subseteq Nat
    BY FS_Interval
  <2>2. ks \subseteq 1 .. n
    OBVIOUS
  <2>3. IsFiniteSet(ks)
    BY <2>1, <2>2, FS_Subset
  <2> QED
    BY <2>1, <2>2, <2>3, FS_CardinalityType
<1>2. \A k \in 1 .. Cardinality(ks) : u[k] \in Int /\ Nth(ks, k) \in ks
  BY <1>1, NthElement
<1>3. ASSUME NEW i \in 0 .. n
      PROVE  RankIn(ks, i) \in Nat /\ RankIn(ks, i) <= Cardinality(ks)
  <2>1. i \in Nat
    OBVIOUS
  <2>2. RankIn(ks, i) \in 0 .. Cardinality(ks)
    BY <1>1, <2>1, RankGrows
  <2> QED
    BY <1>1, <2>2
<1>4. ASSUME NEW i \in 1 .. n
      PROVE  /\ i \in ks => /\ RankIn(ks, i) = RankIn(ks, i - 1) + 1
                            /\ u[RankIn(ks, i)] = v[i]
             /\ i \notin ks => RankIn(ks, i) = RankIn(ks, i - 1)
             /\ RankIn(ks, i - 1) \in Nat
  <2>1. i \in Nat \ {0} /\ i - 1 \in 0 .. n
    OBVIOUS
  <2>2. RankIn(ks, i) = RankIn(ks, i - 1) + (IF i \in ks THEN 1 ELSE 0)
    BY <1>1, <2>1, NextLeader
  <2>3. i \in ks => RankIn(ks, i) \in 1 .. Cardinality(ks) /\ Nth(ks, RankIn(ks, i)) = i
    BY <1>1, NthElement
  <2>4. RankIn(ks, i - 1) \in Nat
    BY <1>3, <2>1
  <2> DEFINE r == RankIn(ks, i)
             s == RankIn(ks, i - 1)
  <2>5. i \in ks => u[r] = v[i]
    BY <2>3
  <2> HIDE DEF r, s, u
  <2> QED
    BY <2>2, <2>4, <2>5 DEF r, s
<1>5. ASSUME NEW i \in 1 .. n
      PROVE  upTo(RankIn(ks, i)) = upTo(RankIn(ks, i - 1)) \o ss[i]
  <2>1. CASE i \in ks
    <3> DEFINE m == RankIn(ks, i - 1)
    <3>1. m \in Nat /\ RankIn(ks, i) = m + 1 /\ v[i] = u[m + 1]
      BY <1>4, <2>1
    <3>2. m + 1 <= Cardinality(ks)
      BY <1>3, <3>1
    <3> HIDE DEF m, u
    <3>3. \A k \in 1 .. m + 1 : u[k] \in Int
      BY <1>1, <1>2, <3>1, <3>2
    <3>4. upTo(m) \o <<v[i]>> = upTo(m + 1)
      BY <3>1, <3>3, ConcatOne
    <3>5. ss[i] = <<v[i]>>
      BY <2>1
    <3> QED
      BY <3>1, <3>4, <3>5 DEF m
  <2>2. CASE i \notin ks
    <3> DEFINE m == RankIn(ks, i - 1)
    <3>5. i \in 0 .. n
      OBVIOUS
    <3>6. RankIn(ks, i) <= Cardinality(ks)
      BY <1>3, <3>5
    <3>1. m \in Nat /\ RankIn(ks, i) = m /\ m <= Cardinality(ks)
      BY <1>4, <2>2, <3>6
    <3>2. ss[i] = <<>>
      BY <2>2
    <3> HIDE DEF m, u
    <3>3. upTo(m) \in Seq(Int)
      BY <1>1, <1>2, <3>1
    <3>4. upTo(m) \o <<>> = upTo(m)
      BY <3>3
    <3> QED
      BY <3>1, <3>2, <3>4 DEF m
  <2> QED
    BY <2>1, <2>2
<1>6. RankIn(ks, 0) = 0
  <2>2. \A y \in ks : y \in Nat \ {0}
    OBVIOUS
  <2>3. \A y \in ks : ~(y <= 0)
    BY <2>2
  <2>1. {y \in ks : y <= 0} = {}
    BY <2>3, Zenon
  <2> QED
    BY <2>1, FS_EmptySet DEF RankIn
<1>7. RankIn(ks, n) = Cardinality(ks)
  <2>2. \A y \in ks : y <= n
    OBVIOUS
  <2>1. {y \in ks : y <= n} = ks
    BY <2>2
  <2> QED
    BY <2>1 DEF RankIn
<1> HIDE DEF u
<1>8. upTo(0) = <<>>
  <2>1. 1 .. 0 = {}
    OBVIOUS
  <2> QED
    BY <2>1
<1>9. t[1] = ss[1]
  <2>4. 1 \in 1 .. n /\ 1 - 1 = 0
    OBVIOUS
  <2>1. upTo(RankIn(ks, 1)) = upTo(RankIn(ks, 0)) \o ss[1]
    BY <1>5, <2>4
  <2>2. ss[1] \in Seq(Int)
    BY <2>4
  <2>3. <<>> \o ss[1] = ss[1]
    BY <2>2
  <2>5. t[1] = upTo(RankIn(ks, 1))
    BY <2>4
  <2> HIDE DEF t, upTo
  <2> QED
    BY <1>6, <1>8, <2>1, <2>3, <2>5
<1>10. \A i \in 2 .. n : t[i] = t[i - 1] \o ss[i]
  <2> TAKE i \in 2 .. n
  <2>1. i \in 1 .. n /\ i - 1 \in 1 .. n
    OBVIOUS
  <2>2. upTo(RankIn(ks, i)) = upTo(RankIn(ks, i - 1)) \o ss[i]
    BY <1>5, <2>1
  <2> QED
    BY <2>1, <2>2
<1>11. t[n] = upTo(Cardinality(ks))
  BY <1>7
<1> HIDE DEF t
<1>12. FlattenSeq(ss) = t[n]
  <2>3. n > 0
    OBVIOUS
  <2>1. Len(ss) > 0 /\ \A i \in 2 .. Len(ss) : t[i] = t[i - 1] \o ss[i]
    BY <1>10, <2>3, Zenon
  <2>2. FlattenSeq(ss) = t[Len(ss)]
    BY <1>9, <2>1, Flattened
  <2> QED
    BY <2>2
<1>13. upTo(Cardinality(ks)) = u
  BY DEF u
<1> QED
  BY <1>11, <1>12, <1>13 DEF u, ValuesAt

LEMMA OutsFilled ==
  ASSUME NEW x, x = o, IsOpArray(x), NEW b \in Blocks(x),
         op_to_block = [p \in 0 .. x.last - 1 |-> OpToBlock(x)[p]]
  PROVE  Outs(x, b) =
           IF IsControlFlow(x, EndOp(x, b))
           THEN FlattenSeq([i \in DOMAIN Jumps(x, EndOp(x, b)) |-> OutOf(Jumps(x, EndOp(x, b))[i])])
           ELSE IF EndOp(x, b) + 1 < x.last THEN <<op_to_block[EndOp(x, b) + 1]>>
           ELSE <<>>
<1> DEFINE e == EndOp(x, b)
           js == Jumps(x, e)
           ks == Kept(x, js)
           n == Len(js)
           v == [i \in 1 .. n |-> IF i \in ks THEN BlockOrExit(x, js[i]) ELSE 0]
           ss == [i \in DOMAIN js |-> OutOf(js[i])]
<1>1. e \in Ops(x) /\ e \in Nat /\ x.last \in Nat
  BY EndOfBlock, LeadersFinite DEF BlockOps, Ops
<1>2. CASE ~IsControlFlow(x, e)
  <2>1. e + 1 < x.last => e + 1 \in 0 .. x.last - 1
    BY <1>1
  <2>2. e + 1 < x.last => op_to_block[e + 1] = OpToBlock(x)[e + 1]
    BY <2>1
  <2> HIDE DEF e
  <2>3. Outs(x, b) = IF e + 1 < x.last THEN <<OpToBlock(x)[e + 1]>> ELSE <<>>
    BY <1>2 DEF Outs, e
  <2> QED
    BY <1>2, <2>2, <2>3 DEF e
<1>3. CASE IsControlFlow(x, e)
  <2>1. js \in Seq(Nat \cup {EXIT})
    BY <1>1, JumpsFit
  <2>2. n \in Nat /\ DOMAIN js = 1 .. n /\ \A i \in 1 .. n : js[i] \in Nat \cup {EXIT}
    BY <2>1
  <2>3. Outs(x, b) = [k \in 1 .. Cardinality(ks) |-> BlockOrExit(x, js[Nth(ks, k)])]
    BY <1>3 DEF Outs, BlockOrExit
  <2>4. ks \in SUBSET (1 .. n) /\ \A i \in ks : js[i] \in Ops(x) \cup {EXIT}
    BY <2>2 DEF Kept
  <2>5. \A i \in 1 .. n : i \notin ks => js[i] \notin Ops(x) /\ js[i] # EXIT
    BY <2>2 DEF Kept
  <2>6. \A i \in ks : BlockOrExit(x, js[i]) \in Int
    <3> TAKE i \in ks
    <3>1. CASE js[i] = EXIT
      BY <3>1 DEF BlockOrExit, EXIT
    <3>2. CASE js[i] # EXIT
      <4>1. OpToBlock(x)[js[i]] \in Blocks(x)
        BY <2>4, <3>2, BlockOfOp
      <4> QED
        BY <3>2, <4>1 DEF BlockOrExit, Blocks
    <3> QED
      BY <3>1, <3>2
  <2>7. \A i \in 1 .. n : OutOf(js[i]) = IF i \in ks THEN <<v[i]>> ELSE <<>>
    <3> TAKE i \in 1 .. n
    <3>1. CASE i \in ks /\ js[i] = EXIT
      BY <3>1 DEF BlockOrExit, OutOf
    <3>2. CASE i \in ks /\ js[i] # EXIT
      <4>1. js[i] \in Ops(x) /\ js[i] \in 0 .. x.last - 1
        BY <2>4, <3>2 DEF Ops
      <4>2. op_to_block[js[i]] = OpToBlock(x)[js[i]]
        BY <4>1
      <4>3. v[i] = OpToBlock(x)[js[i]]
        BY <3>2 DEF BlockOrExit
      <4> HIDE DEF js, ks, v
      <4> QED
        BY <3>2, <4>1, <4>2, <4>3 DEF OutOf
    <3>3. CASE i \notin ks
      BY <2>5, <3>3 DEF OutOf
    <3> QED
      BY <3>1, <3>2, <3>3
  <2>8. v \in [1 .. n -> Int]
    BY <2>6
  <2>9. ss \in Seq(Seq(Int)) /\ Len(ss) = n
    <3>1. \A i \in 1 .. n : OutOf(js[i]) \in Seq(Int)
      <4> TAKE i \in 1 .. n
      <4>1. v[i] \in Int
        BY <2>8
      <4> HIDE DEF v, ks, js, n
      <4>2. <<v[i]>> \in Seq(Int) /\ <<>> \in Seq(Int)
        BY <4>1
      <4> QED
        BY <2>7, <4>2
    <3>2. ss = [i \in 1 .. n |-> OutOf(js[i])]
      BY <2>2
    <3> HIDE DEF ss, n, js
    <3> QED
      BY <2>2, <3>1, <3>2
  <2>10. \A i \in 1 .. n : ss[i] = IF i \in ks THEN <<v[i]>> ELSE <<>>
    BY <2>2, <2>7
  <2>11. \A k \in 1 .. Cardinality(ks) : Nth(ks, k) \in ks
    <3>1. ks \in SUBSET Nat /\ IsFiniteSet(ks)
      <4>1. IsFiniteSet(1 .. n) /\ 1 .. n \subseteq Nat
        BY <2>2, FS_Interval
      <4> QED
        BY <2>4, <4>1, FS_Subset
    <3> QED
      BY <3>1, NthElement
  <2>12. Outs(x, b) = [k \in 1 .. Cardinality(ks) |-> v[Nth(ks, k)]]
    <3>1. \A k \in 1 .. Cardinality(ks) : v[Nth(ks, k)] = BlockOrExit(x, js[Nth(ks, k)])
      BY <2>4, <2>11
    <3> HIDE DEF v, ks
    <3> QED
      BY <2>3, <3>1
  <2>13. FlattenSeq(ss) = [k \in 1 .. Cardinality(ks) |-> v[Nth(ks, k)]]
    <3>1. CASE n = 0
      <4>1. ks = {}
        BY <2>4, <3>1
      <4>2. Cardinality(ks) = 0
        BY <4>1, FS_EmptySet
      <4>3. FlattenSeq(ss) = ss
        BY <2>9, <3>1 DEF FlattenSeq
      <4>4. ss = <<>>
        <5> HIDE DEF ss
        <5> QED
          BY <2>9, <3>1
      <4>5. 1 .. 0 = {}
        OBVIOUS
      <4> HIDE DEF ss, ks, v
      <4>6. [k \in 1 .. Cardinality(ks) |-> v[Nth(ks, k)]] = <<>>
        BY <4>2, <4>5
      <4> QED
        BY <4>3, <4>4, <4>6
    <3>2. CASE n # 0
      <4>1. n \in Nat \ {0}
        BY <2>2, <3>2
      <4> HIDE DEF ss, ks, v, n
      <4>2. Holds(ss, n, ks, v)
        BY <2>4, <2>8, <2>9, <2>10 DEF Holds
      <4>3. FlattenSeq(ss) = ValuesAt(ks, v)
        BY <4>1, <4>2, FlattenKept
      <4> QED
        BY <4>3 DEF ValuesAt
    <3> QED
      BY <3>1, <3>2
  <2> QED
    BY <1>3, <2>12, <2>13
<1> QED
  BY <1>2, <1>3

\* The jumps of a block fit in outs[]: the bound of the loop cuts nothing off.
LEMMA NothingCut ==
  ASSUME NEW x, IsOpArray(x), NEW b \in Blocks(x)
  PROVE  LET outs == Outs(x, b)
         IN  /\ SubSeq(outs, 1, IF Len(outs) < MaxOuts THEN Len(outs) ELSE MaxOuts) = outs
             /\ outs \in Seq(Int)
<1> DEFINE outs == Outs(x, b)
<1>1. PICK n \in 0 .. MaxOuts : outs \in [1 .. n -> Blocks(x) \cup {EXIT}]
  BY OutsType
<1>2. Blocks(x) \cup {EXIT} \subseteq Int
  BY LeadersFinite DEF Blocks, EXIT
<1>3. n \in Nat /\ n <= MaxOuts
  BY <1>1, MaxOutsAssumption
<1> HIDE DEF outs
<1>4. outs \in Seq(Int) /\ Len(outs) = n
  BY <1>1, <1>2, <1>3
<1>5. SubSeq(outs, 1, n) = outs
  BY <1>3, <1>4
<1>6. n < MaxOuts \/ n = MaxOuts
  BY <1>3, MaxOutsAssumption
<1> QED
  BY <1>4, <1>5, <1>6 DEF outs

-----------------------------------------------------------------------------
(* Every step of a loop keeps what the loops have found.                     *)

LEMMA ScanInit == Init => ScanInv
<1> SUFFICES ASSUME Init PROVE ScanInv
  OBVIOUS
<1>1. IsOpArray(o)
  BY OpArraysAssumption DEF Init
<1>2. phase = "leaders" /\ pos = 0 /\ pos \in Ops(o)
  BY <1>1, LeadersFinite DEF Init, Ops
<1>3. 0 .. 0 - 1 = {}
  OBVIOUS
<1>4. is_leader = LeadersBelow(o, pos)
  BY <1>2, <1>3 DEF Init, LeadersBelow
<1>5. Assigned(0)
  <2>1. block_id = BlocksBelow(o, 0) - 1
    BY DEF Init, BlocksBelow
  <2>4. closed \in BOOLEAN /\ ~closed
    BY DEF Init
  <2>2. op_to_block = [p \in 0 .. 0 - 1 |-> OpToBlock(o)[p]]
    BY <1>3 DEF Init
  <2>3. DOMAIN blocks = {} /\ 0 .. block_id = {}
    BY DEF Init
  <2>5. closed \in BOOLEAN /\ (closed <=> 0 > 0 /\ ClosedBelow(o, block_id, 0))
    BY <2>4
  <2>6. \A b \in DOMAIN blocks : BlockBelow(o, b, 0, blocks[b])
    BY <2>3
  <2> QED
    BY <2>1, <2>2, <2>3, <2>5, <2>6 DEF Assigned
<1>6. OutsBelow(0)
  BY DEF Init, OutsBelow
<1>7. ExecLinesBelow(0)
  <2>1. \A q \in LineOps(o) : ~(q < 0)
    BY <1>1, LeadersFinite DEF LineOps, Ops
  <2>2. LinesOf(o, 0) = {}
    BY <2>1 DEF LinesOf
  <2>3. ToSet(exec_lines) = {} /\ exec_lines \in Seq(Nat)
    BY ToSetEmpty DEF Init
  <2> QED
    BY <2>2, <2>3 DEF ExecLinesBelow
<1>8. num_blocks = 0
  BY DEF Init
<1> QED
  BY <1>1, <1>2, <1>4, <1>5, <1>6, <1>7, <1>8 DEF ScanInv, PosInv, Phases

LEMMA LeadersStep ==
  ASSUME NEW x, IsOpArray(x), NEW n \in Ops(x)
  PROVE  /\ LeadersBelow(x, n + 1) =
              LeadersBelow(x, n) \cup (IF Code(x, n) = "CATCH" THEN {n} ELSE {})
                                 \cup (ToSet(Jumps(x, n)) \cap Ops(x))
         /\ n + 1 = x.last => LeadersBelow(x, n + 1) = Leaders(x)
<1> DEFINE before(m) == 0 .. m - 1
           catches(m) == {p \in before(m) : Code(x, p) = "CATCH"}
           targets(m) == {t \in Ops(x) : \E p \in before(m) : t \in Range(Jumps(x, p))}
           catch == IF Code(x, n) = "CATCH" THEN {n} ELSE {}
           jumps == Range(Jumps(x, n)) \cap Ops(x)
<1>1. n \in Nat /\ x.last \in Nat
  BY LeadersFinite DEF Ops
<1>2. \A p \in Int : p \in 0 .. n + 1 - 1 <=> p \in 0 .. n - 1 \/ p = n
  BY <1>1
<1>3. ToSet(Jumps(x, n)) = Range(Jumps(x, n))
  BY DEF ToSet, Range
<1>4. catches(n + 1) = catches(n) \cup catch
  BY <1>1, <1>2
<1>5. targets(n + 1) = targets(n) \cup jumps
  BY <1>1, <1>2
<1>6. \A m \in Nat : LeadersBelow(x, m) = {0} \cup catches(m) \cup targets(m)
  BY DEF LeadersBelow
<1>7. ASSUME n + 1 = x.last
      PROVE  LeadersBelow(x, n + 1) = Leaders(x)
  <2>1. before(n + 1) = Ops(x)
    BY <1>1, <1>7 DEF Ops
  <2> HIDE DEF before
  <2>2. catches(n + 1) = {p \in Ops(x) : Code(x, p) = "CATCH"}
    BY <2>1
  <2>3. targets(n + 1) = {t \in Ops(x) : \E p \in Ops(x) : t \in Range(Jumps(x, p))}
    BY <2>1
  <2>4. n + 1 \in Nat
    BY <1>1
  <2> HIDE DEF catches, targets
  <2> QED
    BY <1>6, <2>2, <2>3, <2>4 DEF Leaders
<1> HIDE DEF catches, targets, catch
<1>8. LeadersBelow(x, n + 1) = LeadersBelow(x, n) \cup catch \cup jumps
  <2>1. n + 1 \in Nat
    BY <1>1
  <2> HIDE DEF jumps
  <2> QED
    BY <1>1, <1>4, <1>5, <1>6, <2>1
<1> QED
  BY <1>3, <1>7, <1>8 DEF catch

\* The next index, or the next loop.
LEMMA Advances ==
  ASSUME NEW bound \in Nat, NEW next, pos \in 0 .. bound - 1, Advance(bound, next)
  PROVE  \/ pos + 1 \in 0 .. bound - 1 /\ pos' = pos + 1 /\ phase' = phase
         \/ pos + 1 = bound /\ pos' = 0 /\ phase' = next
BY DEF Advance

LEMMA KeepsBlocks ==
  ASSUME NEW n, UNCHANGED <<o, block_id, closed, op_to_block, blocks>>
  PROVE  /\ Assigned(n) => Assigned(n)'
         /\ OutsBelow(n) => OutsBelow(n)'
BY DEF Assigned, OutsBelow

LEMMA KeepsLines ==
  ASSUME NEW n, UNCHANGED <<o, exec_lines>>
  PROVE  ExecLinesBelow(n) => ExecLinesBelow(n)'
BY DEF ExecLinesBelow

LEMMA MarkLeadersKeeps == ScanInv /\ MarkLeaders => ScanInv'
<1> SUFFICES ASSUME ScanInv, MarkLeaders PROVE ScanInv'
  OBVIOUS
<1>1. /\ IsOpArray(o) /\ phase = "leaders" /\ pos \in Ops(o) /\ is_leader = LeadersBelow(o, pos)
      /\ num_blocks = 0 /\ Assigned(0) /\ OutsBelow(0) /\ ExecLinesBelow(0)
  BY DEF ScanInv, PosInv, MarkLeaders
<1>2. /\ o' = o /\ UNCHANGED <<num_blocks, block_id, closed, op_to_block, blocks, exec_lines>>
      /\ Advance(o.last, "count")
  BY DEF MarkLeaders
<1>3. is_leader' = LeadersBelow(o, pos + 1)
  BY <1>1, LeadersStep DEF MarkLeaders
<1>4. Assigned(0)' /\ OutsBelow(0)' /\ ExecLinesBelow(0)'
  BY <1>1, <1>2, KeepsBlocks, KeepsLines
<1>5. o.last \in Nat \ {0} /\ 0 \in Ops(o)
  BY <1>1, LeadersFinite DEF Ops
<1>6. \/ pos + 1 \in Ops(o) /\ pos' = pos + 1 /\ phase' = "leaders"
      \/ pos + 1 = o.last /\ pos' = 0 /\ phase' = "count"
  BY <1>1, <1>2, <1>5, Advances DEF Ops
<1>7. CASE pos + 1 \in Ops(o) /\ pos' = pos + 1 /\ phase' = "leaders"
  BY <1>1, <1>2, <1>3, <1>4, <1>7 DEF ScanInv, PosInv, Phases
<1>8. CASE pos + 1 = o.last /\ pos' = 0 /\ phase' = "count"
  <2>1. is_leader' = Leaders(o)
    BY <1>1, <1>3, <1>8, LeadersStep
  <2>2. BlocksBelow(o, 0) = 0
    BY DEF BlocksBelow
  <2> QED
    BY <1>1, <1>2, <1>4, <1>5, <1>8, <2>1, <2>2 DEF ScanInv, PosInv, Phases
<1> QED
  BY <1>6, <1>7, <1>8

LEMMA CountBlocksKeeps == ScanInv /\ CountBlocks => ScanInv'
<1> SUFFICES ASSUME ScanInv, CountBlocks PROVE ScanInv'
  OBVIOUS
<1>1. /\ IsOpArray(o) /\ phase = "count" /\ pos \in Ops(o) /\ is_leader = Leaders(o)
      /\ num_blocks = BlocksBelow(o, pos) /\ Assigned(0) /\ OutsBelow(0) /\ ExecLinesBelow(0)
  BY DEF ScanInv, PosInv, CountBlocks
<1>2. /\ o' = o /\ UNCHANGED <<is_leader, block_id, closed, op_to_block, blocks, exec_lines>>
      /\ Advance(o.last, "assign")
  BY DEF CountBlocks
<1>3. num_blocks' = BlocksBelow(o, pos + 1)
  BY <1>1, BlocksStep DEF CountBlocks
<1>4. Assigned(0)' /\ OutsBelow(0)' /\ ExecLinesBelow(0)'
  BY <1>1, <1>2, KeepsBlocks, KeepsLines
<1>5. o.last \in Nat \ {0} /\ 0 \in Ops(o)
  BY <1>1, LeadersFinite DEF Ops
<1>6. \/ pos + 1 \in Ops(o) /\ pos' = pos + 1 /\ phase' = "count"
      \/ pos + 1 = o.last /\ pos' = 0 /\ phase' = "assign"
  BY <1>1, <1>2, <1>5, Advances DEF Ops
<1>7. CASE pos + 1 \in Ops(o) /\ pos' = pos + 1 /\ phase' = "count"
  BY <1>1, <1>2, <1>3, <1>4, <1>7 DEF ScanInv, PosInv, Phases
<1>8. CASE pos + 1 = o.last /\ pos' = 0 /\ phase' = "assign"
  <2>1. num_blocks' = NumBlocks(o)
    BY <1>1, <1>3, <1>8, BlocksStep
  <2>2. Assigned(pos)'
    BY <1>4, <1>8 DEF Assigned
  <2> QED
    BY <1>1, <1>2, <1>4, <1>5, <1>8, <2>1, <2>2 DEF ScanInv, PosInv, Phases
<1> QED
  BY <1>6, <1>7, <1>8

\* The block of an op with what the ops before it left, and its state after it.
LEMMA CurrentBlock ==
  ASSUME NEW x, x = o, IsOpArray(x), NEW n \in Ops(x), Assigned(n), OutsBelow(0)
  PROVE  LET leader == n \in Leaders(x)
             k == OpToBlock(x)[n]
             open == leader \/ ~closed
             block == IF leader THEN OpenBlock(n) ELSE blocks[k]
             next == IF open THEN AddOp(block, n) ELSE block
         IN  /\ k = IF leader THEN block_id + 1 ELSE block_id
             /\ BlockBelow(x, k, n + 1, next) /\ next.outs = <<>>
             /\ ~open \/ IsControlFlow(x, n) <=> ClosedBelow(x, k, n + 1)
<1> DEFINE leader == n \in Leaders(x)
           k == OpToBlock(x)[n]
           e == EndOp(x, k)
           open == leader \/ ~closed
           block == IF leader THEN OpenBlock(n) ELSE blocks[k]
           next == IF open THEN AddOp(block, n) ELSE block
           Goal == /\ BlockBelow(x, k, n + 1, next) /\ next.outs = <<>>
                   /\ ~open \/ IsControlFlow(x, n) <=> ClosedBelow(x, k, n + 1)
<1>1. /\ n \in Nat /\ k \in Blocks(x) /\ n \in BlockOps(x, k) /\ e \in Nat
      /\ e \in BlockOps(x, k)
      /\ IsControlFlow(x, n) => e <= n
      /\ ~IsControlFlow(x, e) => n <= e
  BY OpInBlock, EndOfBlock
<1>2. k = IF leader THEN block_id + 1 ELSE block_id
  <2>1. block_id = BlocksBelow(x, n) - 1 /\ BlocksBelow(x, n) \in Nat
    BY BlocksStep DEF Assigned
  <2>2. BlocksBelow(x, n + 1) = BlocksBelow(x, n) + (IF leader THEN 1 ELSE 0)
        /\ BlocksBelow(x, n + 1) = k + 1
    BY BlocksStep
  <2>3. k \in Nat
    BY <1>1, LeadersFinite DEF Blocks
  <2> HIDE DEF leader, k
  <2> QED
    BY <2>1, <2>2, <2>3
<1>3. ASSUME n <= e
      PROVE  IsControlFlow(x, n) <=> ClosedBelow(x, k, n + 1)
  <2>1. IsControlFlow(x, n) => e = n
    BY <1>1, <1>3
  <2>2. e < n + 1 => e = n
    BY <1>1, <1>3
  <2>3. e = n => e < n + 1
    BY <1>1
  <2> QED
    BY <2>1, <2>2, <2>3 DEF ClosedBelow
<1>4. ASSUME leader
      PROVE  Goal
  <2>1. n <= e
    BY <1>4, LeaderStarts
  <2>2. open /\ next = AddOp(OpenBlock(n), n)
    BY <1>4
  <2> DEFINE r == AddOp(OpenBlock(n), n)
  <2>3. BlockBelow(x, k, n + 1, r) /\ r.outs = <<>>
    BY <1>4, OpenBlockStep
  <2>4. IsControlFlow(x, n) <=> ClosedBelow(x, k, n + 1)
    BY <1>3, <2>1
  <2> HIDE DEF open, k, next, r
  <2> QED
    BY <2>2, <2>3, <2>4 DEF r
<1>5. ASSUME ~leader
      PROVE  Goal
  <2>1. n # 0 /\ n \in 1 .. x.last
    <3>1. n # 0 /\ n < x.last /\ x.last \in Nat
      BY <1>1, <1>5, LeadersFinite DEF Ops
    <3> QED
      BY <1>1, <3>1
  <2>2. OpToBlock(x)[n - 1] = k
    <3>1. block_id = BlocksBelow(x, n) - 1
      BY DEF Assigned
    <3>2. BlocksBelow(x, n) = OpToBlock(x)[n - 1] + 1 /\ OpToBlock(x)[n - 1] \in Blocks(x)
      BY <2>1, BlocksBegun
    <3>3. OpToBlock(x)[n - 1] \in Int
      BY <3>2, LeadersFinite DEF Blocks
    <3> HIDE DEF k
    <3> QED
      BY <1>2, <1>5, <3>1, <3>2, <3>3
  <2>3. StartOp(x, k) < n
    <3> DEFINE c == OpToBlock(x)[n - 1]
    <3>1. \A b \in 0 .. c : StartOp(x, b) < n
      BY <2>1, BlocksBegun
    <3>2. k \in 0 .. k
      BY <1>1, LeadersFinite DEF Blocks
    <3> HIDE DEF k
    <3> QED
      BY <2>2, <3>1, <3>2
  <2>4. k = block_id /\ k \in DOMAIN blocks
    <3>1. k \in Nat
      BY <1>1, LeadersFinite DEF Blocks
    <3> HIDE DEF k
    <3> QED
      BY <1>2, <1>5, <3>1 DEF Assigned
  <2>5. BlockBelow(x, k, n, blocks[k]) /\ blocks[k].outs = <<>>
    <3>1. ~(k < 0)
      BY <1>1, LeadersFinite DEF Blocks
    <3> HIDE DEF k
    <3> QED
      BY <2>4, <3>1 DEF Assigned, OutsBelow
  <2>6. closed <=> ClosedBelow(x, k, n)
    BY <1>1, <2>1, <2>4 DEF Assigned
  <2> DEFINE r == blocks[k]
  <2>7. ASSUME closed
        PROVE  Goal
    <3>1. e < n /\ IsControlFlow(x, e)
      BY <2>6, <2>7 DEF ClosedBelow
    <3>2. ClosedBelow(x, k, n + 1)
      BY <1>1, <3>1 DEF ClosedBelow
    <3>3. BlockBelow(x, k, n + 1, r)
      BY <1>1, <2>5, <3>1, BlockKeeps
    <3>4. ~open /\ next = r
      BY <1>5, <2>7
    <3> HIDE DEF open, next, k, r
    <3>5. r.outs = <<>>
      BY <2>5 DEF r
    <3> QED
      BY <3>2, <3>3, <3>4, <3>5
  <2>8. ASSUME ~closed
        PROVE  Goal
    <3>1. n <= e
      BY <1>1, <2>6, <2>8 DEF ClosedBelow
    <3>2. IsControlFlow(x, n) <=> ClosedBelow(x, k, n + 1)
      BY <1>3, <3>1
    <3>3. BlockBelow(x, k, n + 1, AddOp(r, n)) /\ AddOp(r, n).outs = <<>>
      BY <1>1, <2>3, <2>5, <3>1, AddOpStep
    <3>4. open /\ next = AddOp(r, n)
      BY <1>5, <2>8
    <3> HIDE DEF open, next, k, r
    <3> QED
      BY <3>2, <3>3, <3>4
  <2> QED
    BY <2>7, <2>8
<1> QED
  BY <1>2, <1>4, <1>5

\* The blocks before that of an op have taken in all their ops.
LEMMA OlderBlocks ==
  ASSUME NEW x, x = o, IsOpArray(x), NEW n \in Ops(x), Assigned(n), OutsBelow(0),
         NEW b \in 0 .. OpToBlock(x)[n], b # OpToBlock(x)[n]
  PROVE  b \in DOMAIN blocks /\ BlockBelow(x, b, n + 1, blocks[b]) /\ blocks[b].outs = <<>>
<1> DEFINE k == OpToBlock(x)[n]
<1>1. /\ n \in Nat /\ n \in BlockOps(x, k) /\ k \in Nat /\ x.last \in Nat /\ n < x.last
      /\ k = IF n \in Leaders(x) THEN block_id + 1 ELSE block_id
  <2>1. n \in BlockOps(x, k) /\ n \in Nat /\ k \in Blocks(x)
    BY OpInBlock
  <2>2. k \in Nat /\ x.last \in Nat
    BY <2>1, LeadersFinite DEF Blocks
  <2>3. n < x.last
    BY <2>1, <2>2 DEF Ops
  <2> QED
    BY <2>1, <2>2, <2>3, CurrentBlock
<1>2. b < k /\ b \in Nat /\ b \in 0 .. k - 1
  BY <1>1
<1>3. b \in Blocks(x) /\ EndOp(x, b) < n + 1
  <2>1. PICK m \in 1 .. x.last : m = n + 1 /\ m - 1 = n
    BY <1>1
  <2> DEFINE c == OpToBlock(x)[m - 1]
  <2>2. c = k
    BY <2>1
  <2>3. /\ \A d \in 0 .. c : d \in Blocks(x) /\ StartOp(x, d) < m
        /\ \A d \in 0 .. c - 1 : EndOp(x, d) < m
    BY BlocksBegun
  <2> HIDE DEF k, c
  <2>4. b \in 0 .. c /\ b \in 0 .. c - 1
    BY <1>1, <1>2, <2>2
  <2>5. b \in Blocks(x) /\ EndOp(x, b) < m
    BY <2>3, <2>4
  <2> QED
    BY <2>1, <2>5
<1>4. EndOp(x, b) \in BlockOps(x, b) /\ EndOp(x, b) \in Nat
  BY <1>3, EndOfBlock DEF BlockOps, Ops
<1>5. EndOp(x, b) # n
  BY <1>1, <1>2, <1>4 DEF BlockOps
<1>6. EndOp(x, b) < n
  BY <1>1, <1>3, <1>4, <1>5
<1>7. b \in DOMAIN blocks
  <2>1. block_id = BlocksBelow(x, n) - 1 /\ DOMAIN blocks = 0 .. block_id /\ BlocksBelow(x, n) \in Nat
    BY BlocksStep DEF Assigned
  <2> HIDE DEF k
  <2>2. block_id \in Int /\ b <= block_id
    BY <1>1, <1>2, <2>1
  <2> QED
    BY <1>2, <2>1, <2>2
<1>8. BlockBelow(x, b, n, blocks[b]) /\ blocks[b].outs = <<>>
  BY <1>2, <1>7 DEF Assigned, OutsBelow
<1> QED
  BY <1>1, <1>3, <1>6, <1>7, <1>8, BlockKeeps

LEMMA AssignStep ==
  ASSUME IsOpArray(o), pos \in Ops(o), is_leader = Leaders(o), Assigned(pos), OutsBelow(0), AssignOps
  PROVE  \A n \in Nat : n = pos + 1 => Assigned(n)' /\ OutsBelow(0)'
<1> PICK x, n : x = o /\ n = pos
  OBVIOUS
<1> DEFINE leader == n \in Leaders(x)
           k == OpToBlock(x)[n]
           open == leader \/ ~closed
           block == IF leader THEN OpenBlock(n) ELSE blocks[k]
           next == IF open THEN AddOp(block, n) ELSE block
<1>1. /\ IsOpArray(x) /\ n \in Ops(x) /\ n \in Nat /\ is_leader = Leaders(x)
      /\ Assigned(n) /\ OutsBelow(0) /\ o' = x
  BY LeadersFinite DEF Ops, AssignOps
<1>2. /\ k = IF leader THEN block_id + 1 ELSE block_id
      /\ BlockBelow(x, k, n + 1, next) /\ next.outs = <<>>
      /\ ~open \/ IsControlFlow(x, n) <=> ClosedBelow(x, k, n + 1)
  BY <1>1, CurrentBlock
<1>3. \A b \in 0 .. k : b # k =>
        b \in DOMAIN blocks /\ BlockBelow(x, b, n + 1, blocks[b]) /\ blocks[b].outs = <<>>
  BY <1>1, OlderBlocks
<1>4. k \in Nat /\ BlocksBelow(x, n + 1) = k + 1
  <2>1. k \in Blocks(x)
    BY <1>1, OpInBlock
  <2> QED
    BY <1>1, <2>1, LeadersFinite, BlocksStep DEF Blocks
<1>5. /\ block_id' = k
      /\ op_to_block' = [p \in 0 .. n |-> IF p = n THEN k ELSE op_to_block[p]]
      /\ blocks' = [b \in 0 .. k |-> IF b # k THEN blocks[b] ELSE next]
      /\ closed' = (~open \/ IsControlFlow(x, n))
  <2>1. (IF leader THEN block_id + 1 ELSE block_id) = k
    BY <1>2
  <2>2. leader <=> pos \in is_leader
    BY <1>1
  <2> HIDE DEF leader, k
  <2> QED
    BY <1>1, <2>1, <2>2 DEF AssignOps
<1> HIDE DEF next, open, k
<1>6. op_to_block' = [p \in 0 .. n |-> OpToBlock(x)[p]]
  <2>1. op_to_block = [p \in 0 .. n - 1 |-> OpToBlock(x)[p]]
    BY <1>1 DEF Assigned
  <2>2. \A p \in 0 .. n : p # n => p \in 0 .. n - 1
    BY <1>1
  <2>3. \A p \in 0 .. n : (IF p = n THEN k ELSE op_to_block[p]) = OpToBlock(x)[p]
    BY <2>1, <2>2 DEF k
  <2> QED
    BY <1>5, <2>3
<1>7. DOMAIN blocks' = 0 .. block_id'
  BY <1>5
<1>8. \A b \in 0 .. k : BlockBelow(x, b, n + 1, blocks'[b]) /\ blocks'[b].outs = <<>>
  BY <1>2, <1>3, <1>5
<1>9. closed' \in BOOLEAN /\ (closed' <=> n + 1 > 0 /\ ClosedBelow(x, k, n + 1))
  <2>1. n + 1 > 0
    BY <1>1
  <2>2. closed' \in BOOLEAN
    BY <1>5, Zenon
  <2>3. closed' <=> ClosedBelow(x, k, n + 1)
    BY <1>2, <1>5, Zenon
  <2> QED
    BY <2>1, <2>2, <2>3
<1>10. ASSUME NEW m \in Nat, m = n + 1
       PROVE  Assigned(m)'
  <2>1. m - 1 = n
    BY <1>1, <1>10
  <2>2. op_to_block' = [p \in 0 .. m - 1 |-> OpToBlock(x)[p]]
    BY <1>6, <2>1
  <2>3. block_id' = BlocksBelow(x, m) - 1
    BY <1>4, <1>5, <1>10
  <2>4. \A b \in DOMAIN blocks' : BlockBelow(x, b, m, blocks'[b])
    BY <1>5, <1>7, <1>8, <1>10
  <2>5. closed' \in BOOLEAN /\ (closed' <=> m > 0 /\ ClosedBelow(x, block_id', m))
    BY <1>5, <1>9, <1>10
  <2> QED
    BY <1>1, <1>7, <2>2, <2>3, <2>4, <2>5 DEF Assigned
<1>12. OutsBelow(0)'
  <2>1. \A b \in 0 .. k : ~(b < 0)
    OBVIOUS
  <2> QED
    BY <1>5, <1>7, <1>8, <2>1 DEF OutsBelow
<1> QED
  BY <1>10, <1>12

LEMMA AssignOpsKeeps == ScanInv /\ AssignOps => ScanInv'
<1> SUFFICES ASSUME ScanInv, AssignOps PROVE ScanInv'
  OBVIOUS
<1>1. /\ IsOpArray(o) /\ phase = "assign" /\ pos \in Ops(o) /\ is_leader = Leaders(o)
      /\ num_blocks = NumBlocks(o) /\ Assigned(pos) /\ OutsBelow(0) /\ ExecLinesBelow(0)
  BY DEF ScanInv, PosInv, AssignOps
<1>2. /\ o' = o /\ UNCHANGED <<is_leader, num_blocks, exec_lines>>
      /\ Advance(o.last, "outs")
  BY DEF AssignOps
<1>3. o.last \in Nat \ {0} /\ 0 \in Blocks(o) /\ pos + 1 \in Nat
  BY <1>1, LeadersFinite DEF Ops, Blocks
<1> PICK n \in Nat : n = pos + 1
  BY <1>3
<1>4. Assigned(n)' /\ OutsBelow(0)' /\ ExecLinesBelow(0)'
  BY <1>1, <1>2, AssignStep, KeepsLines
<1>5. \/ n \in Ops(o) /\ pos' = n /\ phase' = "assign"
      \/ n = o.last /\ pos' = 0 /\ phase' = "outs"
  BY <1>1, <1>2, <1>3, Advances DEF Ops
<1>6. CASE n \in Ops(o) /\ pos' = n /\ phase' = "assign"
  <2>1. Assigned(pos)'
    BY <1>4, <1>6 DEF Assigned
  <2> QED
    BY <1>1, <1>2, <1>4, <1>6, <2>1 DEF ScanInv, PosInv, Phases
<1>7. CASE n = o.last /\ pos' = 0 /\ phase' = "outs"
  <2>1. Assigned(o.last)' /\ OutsBelow(pos)'
    BY <1>2, <1>4, <1>7 DEF Assigned, OutsBelow
  <2> QED
    BY <1>1, <1>2, <1>3, <1>4, <1>7, <2>1 DEF ScanInv, PosInv, Phases
<1> QED
  BY <1>5, <1>6, <1>7

LEMMA AllAssigned ==
  ASSUME NEW x, x = o, IsOpArray(x), Assigned(x.last)
  PROVE  /\ x.last \in Nat \ {0} /\ NumBlocks(x) \in Nat \ {0}
         /\ block_id = NumBlocks(x) - 1 /\ DOMAIN blocks = Blocks(x)
         /\ op_to_block = [p \in Ops(x) |-> OpToBlock(x)[p]]
         /\ \A b \in Blocks(x) :
              /\ BlockBelow(x, b, x.last, blocks[b]) /\ blocks[b].end_op = EndOp(x, b)
<1>1. x.last \in Nat \ {0} /\ NumBlocks(x) \in Nat \ {0}
  BY LeadersFinite
<1>2. BlocksBelow(x, x.last) = NumBlocks(x)
  <2>1. PICK n \in Ops(x) : n + 1 = x.last
    <3>1. x.last - 1 \in Ops(x) /\ x.last - 1 + 1 = x.last
      BY <1>1 DEF Ops
    <3> QED
      BY <3>1
  <2>2. BlocksBelow(x, n + 1) = NumBlocks(x)
    BY <2>1, BlocksStep
  <2> QED
    BY <2>1, <2>2
<1>3. block_id = NumBlocks(x) - 1 /\ DOMAIN blocks = Blocks(x)
  BY <1>2 DEF Assigned, Blocks
<1>4. op_to_block = [p \in Ops(x) |-> OpToBlock(x)[p]]
  BY DEF Assigned, Ops
<1>5. \A b \in Blocks(x) : BlockBelow(x, b, x.last, blocks[b])
  BY <1>3 DEF Assigned
<1>6. \A b \in Blocks(x) : EndBelow(x, b, x.last) = EndOp(x, b)
  BY <1>1, EndOfBlock DEF EndBelow, BlockOps, Ops
<1>7. \A b \in Blocks(x) : blocks[b].end_op = EndOp(x, b)
  BY <1>5, <1>6 DEF BlockBelow
<1> QED
  BY <1>1, <1>3, <1>4, <1>5, <1>7

LEMMA FillStep ==
  ASSUME NEW x, x = o, IsOpArray(x), NEW b \in Blocks(x), b = pos,
         Assigned(x.last), OutsBelow(b), FillOuts
  PROVE  Assigned(x.last)' /\ \A n \in Nat : n = b + 1 => OutsBelow(n)'
<1> DEFINE e == EndOp(x, b)
           outs == Outs(x, b)
           r == [blocks[b] EXCEPT !.outs = outs]
<1>1. /\ DOMAIN blocks = Blocks(x) /\ blocks[b].end_op = e
      /\ op_to_block = [p \in 0 .. x.last - 1 |-> OpToBlock(x)[p]]
      /\ \A c \in Blocks(x) : BlockBelow(x, c, x.last, blocks[c])
  BY AllAssigned DEF Ops
<1>2. outs = IF IsControlFlow(x, e)
             THEN FlattenSeq([i \in DOMAIN Jumps(x, e) |-> OutOf(Jumps(x, e)[i])])
             ELSE IF e + 1 < x.last THEN <<op_to_block[e + 1]>>
             ELSE <<>>
  BY <1>1, OutsFilled
<1>3. /\ SubSeq(outs, 1, IF Len(outs) < MaxOuts THEN Len(outs) ELSE MaxOuts) = outs
      /\ outs \in Seq(Int)
  BY NothingCut
<1> HIDE DEF outs, e
<1>4. /\ blocks' = [blocks EXCEPT ![b].outs = outs]
      /\ o' = x /\ UNCHANGED <<block_id, closed, op_to_block>>
  <2> DEFINE found == IF IsControlFlow(o, e)
                      THEN FlattenSeq([i \in DOMAIN Jumps(o, e) |-> OutOf(Jumps(o, e)[i])])
                      ELSE IF e + 1 < o.last THEN <<op_to_block[e + 1]>>
                      ELSE <<>>
  <2>1. found = outs
    BY <1>2
  <2>2. blocks[pos].end_op = e
    BY <1>1
  <2>3. blocks' = [blocks EXCEPT ![b].outs =
                     SubSeq(found, 1, IF Len(found) < MaxOuts THEN Len(found) ELSE MaxOuts)]
    BY <2>2 DEF FillOuts
  <2> HIDE DEF found
  <2> QED
    BY <1>3, <2>1, <2>3 DEF FillOuts
<1>5. BlockBelow(x, b, x.last, r) /\ r.outs = outs
  <2>1. blocks[b] \in BlockRecords /\ BlockBelow(x, b, x.last, blocks[b])
    BY <1>1 DEF BlockBelow
  <2>2. /\ r \in BlockRecords /\ r.outs = outs
        /\ r.start_op = blocks[b].start_op /\ r.end_op = blocks[b].end_op
        /\ r.is_entry = blocks[b].is_entry /\ r.lines = blocks[b].lines
    BY <1>3, <2>1 DEF BlockRecords
  <2> HIDE DEF r
  <2> QED
    BY <2>1, <2>2 DEF BlockBelow
<1>6. /\ DOMAIN blocks' = Blocks(x) /\ blocks'[b] = r
      /\ \A c \in Blocks(x) : c # b => blocks'[c] = blocks[c]
  BY <1>1, <1>4
<1> HIDE DEF r
<1>7. \A c \in Blocks(x) : BlockBelow(x, c, x.last, blocks'[c])
  BY <1>1, <1>5, <1>6
<1>8. Assigned(x.last)'
  <2>1. /\ block_id = BlocksBelow(x, x.last) - 1
        /\ DOMAIN blocks = 0 .. block_id
        /\ closed \in BOOLEAN /\ (closed <=> x.last > 0 /\ ClosedBelow(x, block_id, x.last))
    BY DEF Assigned
  <2> QED
    BY <1>1, <1>4, <1>6, <1>7, <2>1 DEF Assigned
<1>9. ASSUME NEW n \in Nat, n = b + 1
      PROVE  OutsBelow(n)'
  <2>1. Blocks(x) \subseteq Int
    BY DEF Blocks
  <2>2. \A c \in Blocks(x) : blocks'[c].outs = IF c < n THEN Outs(x, c) ELSE <<>>
    <3> TAKE c \in Blocks(x)
    <3>1. CASE c = b
      <4>1. c < n
        BY <1>9, <2>1, <3>1
      <4> QED
        BY <1>5, <1>6, <3>1, <4>1 DEF outs
    <3>2. CASE c # b
      <4>1. c < n <=> c < b
        BY <1>9, <2>1, <3>2
      <4>2. blocks[c].outs = IF c < b THEN Outs(x, c) ELSE <<>>
        BY <1>1 DEF OutsBelow
      <4> QED
        BY <1>6, <3>2, <4>1, <4>2
    <3> QED
      BY <3>1, <3>2
  <2> QED
    BY <1>4, <1>6, <2>2 DEF OutsBelow
<1> QED
  BY <1>8, <1>9

LEMMA FillOutsKeeps == ScanInv /\ FillOuts => ScanInv'
<1> SUFFICES ASSUME ScanInv, FillOuts PROVE ScanInv'
  OBVIOUS
<1>1. /\ IsOpArray(o) /\ phase = "outs" /\ pos \in Blocks(o) /\ is_leader = Leaders(o)
      /\ num_blocks = NumBlocks(o) /\ Assigned(o.last) /\ OutsBelow(pos) /\ ExecLinesBelow(0)
  BY DEF ScanInv, PosInv, FillOuts
<1>2. /\ o' = o /\ UNCHANGED <<is_leader, num_blocks, exec_lines>>
      /\ Advance(num_blocks, "lines")
  BY DEF FillOuts
<1>3. o.last \in Nat \ {0} /\ 0 \in Ops(o) /\ NumBlocks(o) \in Nat \ {0} /\ pos + 1 \in Nat
  BY <1>1, LeadersFinite DEF Ops, Blocks
<1> PICK n \in Nat : n = pos + 1
  BY <1>3
<1>4. Assigned(o.last)' /\ OutsBelow(n)' /\ ExecLinesBelow(0)'
  <2>1. PICK x : x = o
    OBVIOUS
  <2>2. PICK b : b = pos
    OBVIOUS
  <2>3. Assigned(x.last)' /\ OutsBelow(n)'
    BY <1>1, <2>1, <2>2, FillStep
  <2>4. x = o'
    BY <1>2, <2>1
  <2>5. Assigned(o.last)'
    BY <2>3, <2>4 DEF Assigned
  <2> QED
    BY <1>1, <1>2, <2>3, <2>5, KeepsLines
<1>5. \/ n \in Blocks(o) /\ pos' = n /\ phase' = "outs"
      \/ n = NumBlocks(o) /\ pos' = 0 /\ phase' = "lines"
  BY <1>1, <1>2, <1>3, Advances DEF Blocks
<1>6. CASE n \in Blocks(o) /\ pos' = n /\ phase' = "outs"
  <2>1. OutsBelow(pos)'
    BY <1>4, <1>6 DEF OutsBelow
  <2> QED
    BY <1>1, <1>2, <1>4, <1>6, <2>1 DEF ScanInv, PosInv, Phases
<1>7. CASE n = NumBlocks(o) /\ pos' = 0 /\ phase' = "lines"
  <2>1. OutsBelow(NumBlocks(o))' /\ ExecLinesBelow(pos)'
    BY <1>2, <1>4, <1>7 DEF OutsBelow, ExecLinesBelow
  <2> QED
    BY <1>1, <1>2, <1>3, <1>4, <1>7, <2>1 DEF ScanInv, PosInv, Phases
<1> QED
  BY <1>5, <1>6, <1>7

LEMMA CollectStep ==
  ASSUME NEW x, x = o, IsOpArray(x), NEW p \in Ops(x), p = pos, ExecLinesBelow(p), CollectExecLines,
         NEW n \in Nat, n = p + 1
  PROVE  exec_lines' \in Seq(Nat) /\ ToSet(exec_lines') = LinesOf(x, n)
<1> DEFINE l == Line(x, p)
           relevant == Code(x, p) \notin LineIrrelevant
           repeats == exec_lines # <<>> /\ Last(exec_lines) = l
<1>1. p \in Nat /\ l \in Nat /\ exec_lines \in Seq(Nat) /\ ToSet(exec_lines) = LinesOf(x, p)
  BY LeadersFinite DEF Ops, IsOpArray, ExecLinesBelow
<1>2. p \in LineOps(x) <=> relevant
  BY DEF LineOps
<1>3. {q \in LineOps(x) : q < n} = {q \in LineOps(x) : q < p} \cup (IF relevant THEN {p} ELSE {})
  <2>1. \A q \in LineOps(x) : q \in Int
    BY LeadersFinite DEF LineOps, Ops
  <2> HIDE DEF relevant
  <2> QED
    BY <1>1, <1>2, <2>1
<1>4. LinesOf(x, n) = LinesOf(x, p) \cup (IF relevant THEN {l} ELSE {})
  <2> DEFINE S == {q \in LineOps(x) : q < n}
             T == {q \in LineOps(x) : q < p}
  <2>1. LinesOf(x, n) = {Line(x, q) : q \in S} /\ LinesOf(x, p) = {Line(x, q) : q \in T}
    BY DEF LinesOf
  <2>2. S = T \cup (IF relevant THEN {p} ELSE {})
    BY <1>3
  <2> HIDE DEF S, T, relevant
  <2> QED
    BY <2>1, <2>2
<1>5. exec_lines' = IF ~relevant \/ repeats THEN exec_lines ELSE Append(exec_lines, l)
  BY DEF CollectExecLines
<1>6. repeats => l \in ToSet(exec_lines)
  <2> SUFFICES ASSUME repeats PROVE l \in ToSet(exec_lines)
    OBVIOUS
  <2>1. exec_lines # <<>> /\ l = exec_lines[Len(exec_lines)]
    BY DEF Last
  <2>2. Len(exec_lines) \in DOMAIN exec_lines
    BY <1>1, <2>1
  <2> HIDE DEF l
  <2> QED
    BY <2>1, <2>2 DEF ToSet
<1>7. Append(exec_lines, l) \in Seq(Nat) /\ ToSet(Append(exec_lines, l)) = ToSet(exec_lines) \cup {l}
  BY <1>1, AppendedTo
<1> HIDE DEF relevant, repeats, l
<1>8. CASE ~relevant
  BY <1>1, <1>4, <1>5, <1>8
<1>9. CASE relevant /\ repeats
  BY <1>1, <1>4, <1>5, <1>6, <1>9
<1>10. CASE relevant /\ ~repeats
  BY <1>1, <1>4, <1>5, <1>7, <1>10
<1> QED
  BY <1>8, <1>9, <1>10

LEMMA CollectExecLinesKeeps == ScanInv /\ CollectExecLines => ScanInv'
<1> SUFFICES ASSUME ScanInv, CollectExecLines PROVE ScanInv'
  OBVIOUS
<1>1. /\ IsOpArray(o) /\ phase = "lines" /\ pos \in Ops(o) /\ is_leader = Leaders(o)
      /\ num_blocks = NumBlocks(o) /\ Assigned(o.last) /\ OutsBelow(NumBlocks(o))
      /\ ExecLinesBelow(pos)
  BY DEF ScanInv, PosInv, CollectExecLines
<1>2. /\ o' = o /\ UNCHANGED <<is_leader, num_blocks, block_id, closed, op_to_block, blocks>>
      /\ Advance(o.last, "done")
  BY DEF CollectExecLines
<1>3. o.last \in Nat \ {0} /\ pos + 1 \in Nat
  BY <1>1, LeadersFinite DEF Ops
<1> PICK n \in Nat : n = pos + 1
  BY <1>3
<1>4. Assigned(o.last)' /\ OutsBelow(NumBlocks(o))'
  BY <1>1, <1>2 DEF Assigned, OutsBelow
<1>5. ExecLinesBelow(n)'
  <2>1. PICK x, p : x = o /\ p = pos
    OBVIOUS
  <2>2. exec_lines' \in Seq(Nat) /\ ToSet(exec_lines') = LinesOf(x, n)
    BY <1>1, <2>1, CollectStep
  <2> QED
    BY <1>2, <2>1, <2>2 DEF ExecLinesBelow
<1>6. \/ n \in Ops(o) /\ pos' = n /\ phase' = "lines"
      \/ n = o.last /\ pos' = 0 /\ phase' = "done"
  BY <1>1, <1>2, <1>3, Advances DEF Ops
<1>7. CASE n \in Ops(o) /\ pos' = n /\ phase' = "lines"
  <2>1. ExecLinesBelow(pos)'
    BY <1>5, <1>7 DEF ExecLinesBelow
  <2> QED
    BY <1>1, <1>2, <1>4, <1>7, <2>1 DEF ScanInv, PosInv, Phases
<1>8. CASE n = o.last /\ pos' = 0 /\ phase' = "done"
  <2>1. ExecLinesBelow(o.last)'
    BY <1>2, <1>5, <1>8 DEF ExecLinesBelow
  <2> QED
    BY <1>1, <1>2, <1>4, <1>8, <2>1 DEF ScanInv, PosInv, Phases
<1> QED
  BY <1>6, <1>7, <1>8

LEMMA ScanStep == ScanInv /\ [Next]_vars => ScanInv'
<1>1. ScanInv /\ UNCHANGED vars => ScanInv'
  BY DEF ScanInv, PosInv, Assigned, OutsBelow, ExecLinesBelow, vars
<1> QED
  BY <1>1, MarkLeadersKeeps, CountBlocksKeeps, AssignOpsKeeps, FillOutsKeeps,
     CollectExecLinesKeeps DEF Next

LEMMA ScanInvariant == Spec => []ScanInv
BY ScanInit, ScanStep, PTL DEF Spec

-----------------------------------------------------------------------------

(* The single forward scan of analysis.c, with its closed flag and running   *)
(* block id, computes the blocks, their successors and their lines as module *)
(* Analysis defines them, for every op_array.                                *)
THEOREM ScanIsAnalysis == Spec => []ScanComputesAnalysis
<1>1. ScanInv => ScanComputesAnalysis
  <2> SUFFICES ASSUME ScanInv, phase = "done" PROVE Result = Analyse(o)
    BY DEF ScanComputesAnalysis
  <2>1. /\ IsOpArray(o) /\ num_blocks = NumBlocks(o) /\ Assigned(o.last)
        /\ OutsBelow(NumBlocks(o)) /\ ExecLinesBelow(o.last)
    BY DEF ScanInv
  <2>2. PICK x : x = o
    OBVIOUS
  <2>3. /\ IsOpArray(x) /\ DOMAIN blocks = Blocks(x) /\ x.last \in Nat
        /\ op_to_block = [p \in Ops(x) |-> OpToBlock(x)[p]]
        /\ \A b \in Blocks(x) : BlockBelow(x, b, x.last, blocks[b]) /\ blocks[b].end_op = EndOp(x, b)
    BY <2>1, <2>2, AllAssigned
  <2>4. op_to_block = OpToBlock(x)
    BY <2>3 DEF OpToBlock
  <2>5. \A b \in Blocks(x) : blocks[b].outs = Outs(x, b)
    <3>1. \A b \in Blocks(x) : b < NumBlocks(x)
      BY <2>3, LeadersFinite DEF Blocks
    <3> QED
      BY <2>1, <2>2, <2>3, <3>1 DEF OutsBelow
  <2>6. \A b \in Blocks(x) : ToSet(blocks[b].lines) = LineEntries(x, b)
    <3> TAKE b \in Blocks(x)
    <3>1. \A e \in LineEntries(x, b) : e.op < x.last
      BY <2>3, EntryIsLineOp DEF LineOps, Ops
    <3>2. EntriesBelow(x, b, x.last) = LineEntries(x, b)
      BY <3>1 DEF EntriesBelow
    <3> QED
      BY <2>3, <3>2 DEF BlockBelow, LinesBelow
  <2>7. \A b \in Blocks(x) : blocks[b].start_op = StartOp(x, b) /\ blocks[b].is_entry = IsEntry(x, b)
    BY <2>3 DEF BlockBelow
  <2>8. ToSet(exec_lines) = ExecLines(x)
    <3>1. \A q \in LineOps(x) : q < x.last
      BY <2>3 DEF LineOps, Ops
    <3>2. {q \in LineOps(x) : q < x.last} = LineOps(x)
      BY <3>1
    <3> QED
      BY <2>1, <2>2, <3>2 DEF ExecLinesBelow, LinesOf, ExecLines
  <2>9. /\ [b \in DOMAIN blocks |-> blocks[b].outs] = [b \in Blocks(x) |-> Outs(x, b)]
        /\ [b \in DOMAIN blocks |-> blocks[b].start_op] = [b \in Blocks(x) |-> StartOp(x, b)]
        /\ [b \in DOMAIN blocks |-> blocks[b].end_op] = [b \in Blocks(x) |-> EndOp(x, b)]
        /\ [b \in DOMAIN blocks |-> blocks[b].is_entry] = [b \in Blocks(x) |-> IsEntry(x, b)]
        /\ [b \in DOMAIN blocks |-> ToSet(blocks[b].lines)] = [b \in Blocks(x) |-> LineEntries(x, b)]
    BY <2>3, <2>5, <2>6, <2>7
  <2> QED
    BY <2>1, <2>2, <2>4, <2>8, <2>9 DEF Result, Analyse
<1> QED
  BY <1>1, ScanInvariant, PTL

\* Where the analysis knows all jumps, an op the function can execute lies at or
\* before the end of its block: the ops after it are dead.
LEMMA ReachableInBlock ==
  ASSUME NEW x, x = o, IsOpArray(x), KnowsJumps(x), NEW p \in Reachable
  PROVE  p \in Ops(x) /\ p <= EndOp(x, OpToBlock(x)[p])
<1> DEFINE R == {r \in Ops(x) : r <= EndOp(x, OpToBlock(x)[r])}
<1>1. \A t \in Leaders(x) : t \in R
  BY LeaderStarts
<1>2. Entries \subseteq R
  <2>1. Entries \subseteq Leaders(x)
    BY DEF Entries, Leaders
  <2> QED
    BY <1>1, <2>1
<1>3. ASSUME NEW r \in R, NEW q \in Successors(r)
      PROVE  q \in R
  <2>1. r \in Ops(x) /\ r <= EndOp(x, OpToBlock(x)[r]) /\ q \in Ops(x)
    BY <1>3 DEF Successors
  <2>2. CASE Code(x, r) = "FAST_RET"
    <3>1. PICK s \in Ops(x) : Code(x, s) = "FAST_CALL" /\ q = s + 1
      BY <1>3, <2>2 DEF Successors
    <3>2. Jumps(x, s) = <<x.opcodes[s].to[1], q>>
      BY <3>1 DEF Jumps
    <3>3. q \in Range(<<x.opcodes[s].to[1], q>>)
      BY DEF Range
    <3>4. q \in Leaders(x)
      BY <2>1, <3>2, <3>3, JumpsLead
    <3> QED
      BY <1>1, <3>4
  <2>3. CASE Code(x, r) # "FAST_RET"
    <3>1. q \in NextOps(x.opcodes[r], r) \cap Ops(x)
      BY <1>3, <2>3 DEF Successors
    <3>2. \/ q \in Leaders(x)
          \/ OpToBlock(x)[q] = OpToBlock(x)[r] /\ q <= EndOp(x, OpToBlock(x)[r])
      BY <2>1, <3>1, KnownMove
    <3> QED
      BY <1>1, <2>1, <3>2
  <2> QED
    BY <2>2, <2>3
<1>4. R \in SUBSET Ops(o)
  OBVIOUS
<1> HIDE DEF R
<1>5. p \in R
  BY <1>2, <1>3, <1>4 DEF Reachable
<1> QED
  BY <1>5 DEF R

\* A move to the start of a block is along an out of the block it leaves.
LEMMA MoveHasOut ==
  ASSUME NEW x, IsOpArray(x), KnowsJumps(x), NEW p \in Ops(x),
         NEW q \in NextOps(x.opcodes[p], p) \cap Ops(x), EndOp(x, OpToBlock(x)[p]) = p
  PROVE  LET outs == Outs(x, OpToBlock(x)[p])
         IN  \E i \in DOMAIN outs : outs[i] = OpToBlock(x)[q]
<1> DEFINE b == OpToBlock(x)[p]
<1>1. b \in Blocks(x)
  BY OpInBlock
<1>2. CASE IsControlFlow(x, p)
  <2>1. q \in Range(Jumps(x, EndOp(x, b)))
    BY <1>2, KnownJumps
  <2> QED
    BY <1>1, <1>2, <2>1, JumpHasOut
<1>3. CASE ~IsControlFlow(x, p)
  <2>1. q = p + 1
    BY <1>3 DEF NextOps, KnowsJumps, IsControlFlow, Code
  <2>2. p + 1 < x.last
    BY <2>1, LeadersFinite DEF Ops
  <2>3. Outs(x, b) = <<OpToBlock(x)[q]>>
    BY <1>3, <2>1, <2>2 DEF Outs
  <2>4. 1 \in DOMAIN <<OpToBlock(x)[q]>> /\ <<OpToBlock(x)[q]>>[1] = OpToBlock(x)[q]
    OBVIOUS
  <2> QED
    BY <2>3, <2>4
<1> QED
  BY <1>2, <1>3

(* In a function whose jumps the analysis knows, control enters a block only *)
(* at its leader, leaves it only at its end and moves between blocks only    *)
(* along an edge of outs[]: one bit per block and edge describes the run.    *)
THEOREM FlowStaysOnEdges == Spec => []FlowFollowsEdges
<1>1. ScanInv => FlowFollowsEdges
  <2> SUFFICES ASSUME ScanInv, phase = "done", KnowsJumps(o),
                      NEW p \in Reachable, Code(o, p) # "FAST_RET", NEW q \in Successors(p)
               PROVE  LET from == op_to_block[p]
                          to == op_to_block[q]
                      IN  \/ from = to /\ q = p + 1 /\ p < blocks[from].end_op
                          \/ /\ p = blocks[from].end_op
                             /\ q = blocks[to].start_op
                             /\ \E i \in DOMAIN blocks[from].outs : blocks[from].outs[i] = to
    BY DEF FlowFollowsEdges
  <2>1. IsOpArray(o) /\ Assigned(o.last) /\ OutsBelow(NumBlocks(o))
    BY DEF ScanInv
  <2>2. PICK x : x = o
    OBVIOUS
  <2> DEFINE from == OpToBlock(x)[p]
             to == OpToBlock(x)[q]
  <2>3. /\ IsOpArray(x) /\ KnowsJumps(x) /\ DOMAIN blocks = Blocks(x)
        /\ op_to_block = [r \in Ops(x) |-> OpToBlock(x)[r]]
        /\ \A b \in Blocks(x) : BlockBelow(x, b, x.last, blocks[b]) /\ blocks[b].end_op = EndOp(x, b)
    BY <2>1, <2>2, AllAssigned
  <2>4. p \in Ops(x) /\ p <= EndOp(x, from) /\ q \in NextOps(x.opcodes[p], p) \cap Ops(x)
    <3>1. p \in Ops(x) /\ p <= EndOp(x, from)
      BY <2>2, <2>3, ReachableInBlock
    <3>2. q \in NextOps(x.opcodes[p], p) \cap Ops(x)
      BY <2>2 DEF Successors
    <3> QED
      BY <3>1, <3>2
  <2>5. from \in Blocks(x) /\ to \in Blocks(x) /\ p \in Nat /\ EndOp(x, from) \in Nat
    BY <2>3, <2>4, OpInBlock
  <2>6. op_to_block[p] = from /\ op_to_block[q] = to
    BY <2>3, <2>4
  <2>7. /\ blocks[from].end_op = EndOp(x, from) /\ blocks[to].start_op = StartOp(x, to)
        /\ blocks[from].outs = Outs(x, from)
    <3>1. from < NumBlocks(x)
      BY <2>3, <2>5, LeadersFinite DEF Blocks
    <3>2. blocks[to].start_op = StartOp(x, to)
      BY <2>3, <2>5 DEF BlockBelow
    <3> HIDE DEF from, to
    <3>3. blocks[from].outs = Outs(x, from)
      BY <2>1, <2>2, <2>3, <2>5, <3>1 DEF OutsBelow
    <3> QED
      BY <2>3, <2>5, <3>2, <3>3
  <2>8. CASE q = p + 1 /\ to = from /\ q <= EndOp(x, from)
    <3>1. p < EndOp(x, from)
      BY <2>5, <2>8
    <3> HIDE DEF from, to
    <3> QED
      BY <2>6, <2>7, <2>8, <3>1
  <2>9. CASE q \in Leaders(x) /\ EndOp(x, from) = p
    <3>1. q = StartOp(x, to)
      BY <2>3, <2>9, LeaderStarts
    <3>2. \E i \in DOMAIN Outs(x, from) : Outs(x, from)[i] = to
      BY <2>3, <2>4, <2>9, MoveHasOut
    <3> HIDE DEF from, to
    <3> QED
      BY <2>6, <2>7, <2>9, <3>1, <3>2
  <2> QED
    BY <2>3, <2>4, <2>8, <2>9, KnownMove
<1> QED
  BY <1>1, ScanInvariant, PTL

-----------------------------------------------------------------------------

LEMMA BlocksFit ==
  ASSUME NEW x, IsOpArray(x)
  PROVE  NumBlocks(x) <= x.last
<1>1. IsFiniteSet(Ops(x)) /\ Cardinality(Ops(x)) = x.last
  BY LeadersFinite, FirstNaturals DEF Ops
<1>2. Cardinality(Leaders(x)) <= Cardinality(Ops(x))
  BY <1>1, LeadersFinite, FS_Subset
<1> QED
  BY <1>1, <1>2, LeadersFinite

\* The blocks of the ops assigned so far are blocks of the op_array.
LEMMA AssignedType ==
  ASSUME NEW x, x = o, IsOpArray(x), NEW n \in 0 .. x.last, Assigned(n)
  PROVE  /\ block_id \in -1 .. x.last - 1 /\ closed \in BOOLEAN
         /\ DOMAIN op_to_block \subseteq Ops(x) /\ DOMAIN blocks = 0 .. block_id
         /\ \A p \in DOMAIN op_to_block : op_to_block[p] \in DOMAIN blocks
         /\ \A b \in DOMAIN blocks :
              /\ b \in Blocks(x) /\ blocks[b].start_op \in Ops(x)
              /\ blocks[b].end_op \in blocks[b].start_op .. x.last - 1
<1>1. x.last \in Nat \ {0} /\ NumBlocks(x) \in Nat \ {0} /\ NumBlocks(x) <= x.last
  BY LeadersFinite, BlocksFit
<1>2. /\ block_id = BlocksBelow(x, n) - 1 /\ closed \in BOOLEAN /\ DOMAIN blocks = 0 .. block_id
      /\ op_to_block = [p \in 0 .. n - 1 |-> OpToBlock(x)[p]]
      /\ \A b \in DOMAIN blocks : BlockBelow(x, b, n, blocks[b])
  BY DEF Assigned
<1>3. CASE n = 0
  <2>1. BlocksBelow(x, n) = 0 /\ 0 .. n - 1 = {}
    BY <1>3 DEF BlocksBelow
  <2>2. block_id = -1 /\ 0 .. block_id = {} /\ DOMAIN op_to_block = {}
    BY <1>2, <2>1
  <2> QED
    BY <1>1, <1>2, <2>2
<1>4. CASE n # 0
  <2> DEFINE k == OpToBlock(x)[n - 1]
  <2>1. n \in 1 .. x.last /\ n \in Nat
    BY <1>1, <1>4
  <2>2. /\ n - 1 \in Ops(x) /\ k \in Blocks(x) /\ BlocksBelow(x, n) = k + 1
        /\ \A b \in 0 .. k : b \in Blocks(x) /\ StartOp(x, b) < n
    BY <2>1, BlocksBegun
  <2>3. k \in Nat /\ k <= x.last - 1
    BY <1>1, <2>2 DEF Blocks
  <2>4. block_id = k
    <3> HIDE DEF k
    <3> QED
      BY <1>2, <2>2, <2>3
  <2>5. ASSUME NEW p \in 0 .. n - 1
        PROVE  p \in Ops(x) /\ op_to_block[p] \in 0 .. k
    <3>1. p \in Ops(x) /\ p \in Nat /\ p <= n - 1 /\ n - 1 \in Nat
      BY <1>1, <2>1 DEF Ops
    <3>2. OpToBlock(x)[p] = RankIn(Leaders(x), p) - 1 /\ k = RankIn(Leaders(x), n - 1) - 1
      BY <2>2, <3>1, BlockOfOp
    <3>3. RankIn(Leaders(x), p) <= RankIn(Leaders(x), n - 1)
      BY <3>1, LeadersFinite, RankGrows
    <3>4. OpToBlock(x)[p] \in Nat
      BY <1>1, <3>1, BlockOfOp DEF Blocks
    <3>5. op_to_block[p] = OpToBlock(x)[p]
      BY <1>2
    <3>6. RankIn(Leaders(x), p) \in Nat /\ RankIn(Leaders(x), n - 1) \in Nat
      BY <3>1, LeadersFinite, RankGrows
    <3> DEFINE rp == RankIn(Leaders(x), p)
               rn == RankIn(Leaders(x), n - 1)
               bp == OpToBlock(x)[p]
    <3> HIDE DEF rp, rn, bp, k
    <3>7. bp \in 0 .. k
      <4>1. bp = rp - 1 /\ k = rn - 1 /\ rp <= rn /\ bp \in Nat /\ rp \in Nat /\ rn \in Nat
        BY <3>2, <3>3, <3>4, <3>6 DEF bp, rp, rn
      <4> QED
        BY <4>1
    <3> QED
      BY <3>1, <3>5, <3>7 DEF bp
  <2>6. ASSUME NEW b \in 0 .. k
        PROVE  /\ b \in Blocks(x) /\ blocks[b].start_op \in Ops(x)
               /\ blocks[b].end_op \in blocks[b].start_op .. x.last - 1
    <3>1. b \in Blocks(x) /\ StartOp(x, b) < n
      BY <2>2
    <3>2. blocks[b].start_op = StartOp(x, b) /\ blocks[b].end_op = EndBelow(x, b, n)
      BY <1>2, <2>4 DEF BlockBelow
    <3>3. StartOp(x, b) \in Ops(x) /\ EndOp(x, b) \in Ops(x) /\ StartOp(x, b) <= EndOp(x, b)
      BY <3>1, BlockIsRun, EndOfBlock DEF BlockOps
    <3>4. EndBelow(x, b, n) \in StartOp(x, b) .. x.last - 1
      BY <1>1, <2>1, <3>1, <3>3 DEF EndBelow, Ops
    <3> QED
      BY <3>1, <3>2, <3>3, <3>4
  <2> HIDE DEF k
  <2>7. DOMAIN op_to_block = 0 .. n - 1 /\ DOMAIN blocks = 0 .. k
    BY <1>2, <2>4
  <2>8. block_id \in -1 .. x.last - 1
    BY <1>1, <2>3, <2>4
  <2> QED
    BY <1>2, <2>5, <2>6, <2>7, <2>8
<1> QED
  BY <1>3, <1>4

\* Outs are only filled when all the blocks they lead to are there.
LEMMA OutsInBlocks ==
  ASSUME NEW x, IsOpArray(x), NEW b \in Blocks(x), NEW s, s = Outs(x, b) \/ s = <<>>
  PROVE  /\ Len(s) <= MaxOuts
         /\ \A i \in DOMAIN s : s = Outs(x, b) /\ s[i] \in Blocks(x) \cup {EXIT}
<1>1. PICK n \in 0 .. MaxOuts : Outs(x, b) \in [1 .. n -> Blocks(x) \cup {EXIT}]
  BY OutsType
<1>2. n \in Nat /\ n <= MaxOuts /\ MaxOuts >= 0
  BY <1>1, MaxOutsAssumption
<1>3. CASE s = Outs(x, b)
  <2>1. Len(s) = n /\ DOMAIN s = 1 .. n
    BY <1>1, <1>2, <1>3
  <2> QED
    BY <1>1, <1>2, <1>3, <2>1
<1>4. CASE s = <<>>
  BY <1>2, <1>4
<1> QED
  BY <1>3, <1>4

(* Block ids, op indices and outs stay within the arrays analysis.c sized    *)
(* for them, at every iteration of its loops.                                *)
THEOREM ScanTypeCorrect == Spec => []TypeOK
<1>1. ScanInv => TypeOK
  <2> SUFFICES ASSUME ScanInv PROVE TypeOK
    OBVIOUS
  <2>1. IsOpArray(o) /\ phase \in Phases /\ PosInv
    BY DEF ScanInv
  <2>2. /\ o.last \in Nat \ {0} /\ NumBlocks(o) \in Nat \ {0} /\ NumBlocks(o) <= o.last
        /\ Leaders(o) \subseteq Ops(o)
    BY <2>1, LeadersFinite, BlocksFit
  <2>3. pos \in 0 .. o.last /\ (phase # "outs" => pos \in Ops(o))
    BY <2>1, <2>2 DEF PosInv, Ops, Blocks
  <2>4. is_leader \subseteq Ops(o)
    <3>1. CASE phase = "leaders"
      <4>1. is_leader = LeadersBelow(o, pos) /\ pos \in Ops(o)
        BY <2>3, <3>1 DEF ScanInv
      <4>2. 0 .. pos - 1 \subseteq Ops(o) /\ 0 \in Ops(o)
        BY <2>2, <4>1 DEF Ops
      <4> QED
        BY <4>1, <4>2 DEF LeadersBelow
    <3>2. CASE phase # "leaders"
      BY <2>2, <3>2 DEF ScanInv
    <3> QED
      BY <3>1, <3>2
  <2>5. num_blocks \in 0 .. o.last
    <3>1. CASE phase = "leaders"
      BY <2>2, <3>1 DEF ScanInv
    <3>2. CASE phase = "count"
      <4>1. num_blocks = BlocksBelow(o, pos) /\ pos \in Ops(o)
        BY <2>3, <3>2 DEF ScanInv
      <4>2. BlocksBelow(o, pos) \in Nat /\ BlocksBelow(o, pos) <= NumBlocks(o)
        BY <2>1, <4>1, BlocksStep
      <4> QED
        BY <2>2, <4>1, <4>2
    <3>3. CASE phase \notin {"leaders", "count"}
      BY <2>2, <3>3 DEF ScanInv
    <3> QED
      BY <3>1, <3>2, <3>3
  <2>6. PICK n \in 0 .. o.last :
          /\ Assigned(n)
          /\ phase \in {"outs", "lines", "done"} => n = o.last
    <3>1. CASE phase \in {"leaders", "count"}
      <4>1. Assigned(0) /\ 0 \in 0 .. o.last
        BY <2>2, <3>1 DEF ScanInv
      <4> QED
        BY <3>1, <4>1
    <3>2. CASE phase = "assign"
      <4>1. Assigned(pos)
        BY <3>2 DEF ScanInv
      <4> QED
        BY <2>3, <3>2, <4>1
    <3>3. CASE phase \in {"outs", "lines", "done"}
      <4>1. Assigned(o.last) /\ o.last \in 0 .. o.last
        BY <2>2, <3>3 DEF ScanInv
      <4> QED
        BY <4>1
    <3> QED
      BY <2>1, <3>1, <3>2, <3>3 DEF Phases
  <2>7. PICK x : x = o
    OBVIOUS
  <2>8. /\ block_id \in -1 .. x.last - 1 /\ closed \in BOOLEAN
        /\ DOMAIN op_to_block \subseteq Ops(x) /\ DOMAIN blocks = 0 .. block_id
        /\ \A p \in DOMAIN op_to_block : op_to_block[p] \in DOMAIN blocks
        /\ \A b \in DOMAIN blocks :
             /\ b \in Blocks(x) /\ blocks[b].start_op \in Ops(x)
             /\ blocks[b].end_op \in blocks[b].start_op .. x.last - 1
    BY <2>1, <2>6, <2>7, AssignedType
  <2>9. ASSUME NEW b \in DOMAIN blocks
        PROVE  /\ \A i \in DOMAIN blocks[b].outs : blocks[b].outs[i] \in DOMAIN blocks \cup {EXIT}
               /\ Len(blocks[b].outs) <= MaxOuts
    <3> DEFINE s == blocks[b].outs
    <3>1. b \in Blocks(x)
      BY <2>8
    <3>2. CASE phase \in {"outs", "lines", "done"}
      <4>1. s = Outs(x, b) \/ s = <<>>
        BY <2>7, <3>2 DEF ScanInv, OutsBelow
      <4>2. DOMAIN blocks = Blocks(x)
        BY <2>1, <2>6, <2>7, <3>2, AllAssigned
      <4> HIDE DEF s
      <4>3. Len(s) <= MaxOuts /\ \A i \in DOMAIN s : s[i] \in Blocks(x) \cup {EXIT}
        BY <2>1, <2>7, <3>1, <4>1, OutsInBlocks
      <4> QED
        BY <4>2, <4>3 DEF s
    <3>3. CASE phase \notin {"outs", "lines", "done"}
      <4>1. ~(b < 0)
        BY <3>1 DEF Blocks
      <4>2. s = <<>>
        BY <3>3, <4>1 DEF ScanInv, OutsBelow
      <4> HIDE DEF s
      <4> QED
        BY <4>2, MaxOutsAssumption DEF s
    <3> QED
      BY <3>2, <3>3
  <2> QED
    BY <2>1, <2>3, <2>4, <2>5, <2>7, <2>8, <2>9 DEF TypeOK
<1> QED
  BY <1>1, ScanInvariant, PTL
=============================================================================
