------------------------- MODULE CoverageLines_proof -------------------------
(***************************************************************************)
(* Proofs about what xdebug_get_code_coverage returns, for any program     *)
(* with the properties each theorem names: what is reported against what   *)
(* ran.                                                                    *)
(***************************************************************************)
EXTENDS CoverageLines, Coverage_proof

LEMMA LinesOfNext == [LNext]_allVars => [Next]_vars
BY DEF allVars, LNext

LEMMA RecorderSound ==
  ASSUME KeysDistinct
  PROVE  LSpec => []IInv
<1>1. LInit => Init
  BY DEF LInit
<1>2. [LNext]_allVars => [Next]_vars
  BY LinesOfNext
<1>3. LSpec => Spec
  BY <1>1, <1>2, PTL DEF LSpec, Spec
<1> QED
  BY <1>3, CachesSound, PTL

\* The tables change by a mark, or are dropped.
LEMMA TablesStep ==
  ASSUME [Next]_vars
  PROVE  \/ files' = files
         \/ DOMAIN files' = {} /\ ~(request /\ request')
         \/ VMDispatch /\ MarkRecords /\ UNCHANGED filterVars
<1>1. CASE Dispatch
  <2>1. CASE MarkReturnsEarly
    BY <2>1 DEF MarkReturnsEarly, recorderVars, dataVars
  <2>2. CASE MarkReprimesSlot
    BY <2>2 DEF MarkReprimesSlot, dataVars
  <2> QED
    BY <1>1, <2>1, <2>2 DEF Dispatch
<1>2. CASE Run
  BY <1>2 DEF Run, recorderVars, dataVars
<1>3. CASE \E flags \in FlagSets : StartCoverage(flags)
  BY <1>3 DEF StartCoverage
<1>4. CASE StopCoverage
  BY <1>4 DEF StopCoverage, dataVars
<1>5. CASE SetFilter
  BY <1>5 DEF SetFilter, recorderVars, dataVars
<1>6. CASE RInit \/ RShutdown
  BY <1>6, EmptyFunction DEF RInit, RShutdown, VMStartRequest, VMEndRequest
<1>7. CASE UNCHANGED vars
  BY <1>7 DEF vars, recorderVars, dataVars
<1> QED
  BY <1>1, <1>2, <1>3, <1>4, <1>5, <1>6, <1>7 DEF Next

\* What a request has seen is kept until it ends.
LEMMA HistoryStep ==
  ASSUME [LNext]_allVars, request'
  PROVE  /\ ran \subseteq ran'
         /\ moved \subseteq moved'
         /\ interrupted \subseteq interrupted'
BY DEF LNext, allVars, historyVars

\* A mark stands for an op that ran.
LEMMA MarkRan ==
  ASSUME IInv, LNext, VMDispatch, MarkRecords
  PROVE  /\ request /\ request' /\ ~dispatched /\ dispatched'
         /\ UNCHANGED <<stack, request>>
         /\ <<Top.fn, Top.pc>> \in ran'
<1>1. request /\ request' /\ ~dispatched /\ dispatched' /\ UNCHANGED <<stack, request>>
  BY DispatchedBlock DEF IInv, TypeOK, VMDispatch, Hooked
<1>2. coverage_active /\ Wanted(FileOf[Top.fn]) /\ ~Top.exc
  BY DEF MarkRecords, ReachesAnalysis
<1> QED
  BY <1>1, <1>2 DEF LNext, RanNow

\* What a mark does to the table of a function.
LEMMA MarkedTable ==
  ASSUME KeysDistinct, IInv, VMDispatch, MarkRecords, NEW f \in Funcs,
         SlotOf(f) \in DOMAIN files'
  PROVE  LET g == Top.fn
             b == Analysis[g].op_to_block[Top.pc]
         IN  /\ g = f => files'[SlotOf(f)] = AfterMark(f, b)
             /\ g # f => SlotOf(f) \in DOMAIN files /\ files'[SlotOf(f)] = files[SlotOf(f)]
<1> DEFINE g == Top.fn
           b == Analysis[g].op_to_block[Top.pc]
<1>1. g \in Funcs
  BY DispatchedBlock DEF IInv, TypeOK
<1>2. files' = [s \in DOMAIN files \cup {SlotOf(g)} |->
                  IF s = SlotOf(g) THEN AfterMark(g, b) ELSE files[s]]
  BY DEF MarkRecords
<1>3. g # f => SlotOf(g) # SlotOf(f)
  BY <1>1 DEF KeysDistinct
<1> QED
  BY <1>2, <1>3

-----------------------------------------------------------------------------
(* No block is reported of which nothing ran.                                *)

HitBlocksRan ==
  \A f \in Funcs : SlotOf(f) \in DOMAIN files =>
    \A b \in files[SlotOf(f)].block_hit :
      \E p \in BlockOps(OpArray[f], b) : <<f, p>> \in ran

LEMMA HitBlocksRanStep ==
  ASSUME KeysDistinct, IInv, IInv', HitBlocksRan, [LNext]_allVars
  PROVE  HitBlocksRan'
<1>1. CASE DOMAIN files' = {}
  BY <1>1 DEF HitBlocksRan
<1>2. CASE DOMAIN files' # {}
  <2>1. request'
    BY <1>2 DEF IInv, MarksOfRequest
  <2>2. ran \subseteq ran'
    BY <2>1, HistoryStep
  <2>3. CASE files' = files
    BY <2>2, <2>3 DEF HitBlocksRan
  <2>4. CASE VMDispatch /\ MarkRecords /\ files' # files
    <3> DEFINE g == Top.fn
               c == Analysis[g].op_to_block[Top.pc]
    <3> SUFFICES ASSUME NEW f \in Funcs, SlotOf(f) \in DOMAIN files',
                        NEW b \in files'[SlotOf(f)].block_hit
                 PROVE  \E p \in BlockOps(OpArray[f], b) : <<f, p>> \in ran'
      BY DEF HitBlocksRan
    <3>1. LNext
      BY <2>4 DEF allVars, vars, recorderVars, dataVars
    <3>2. <<g, Top.pc>> \in ran'
      BY <2>4, <3>1, MarkRan
    <3>3. g \in Funcs /\ c \in BlocksOf(g) /\ c = OpToBlock(OpArray[g])[Top.pc]
      BY <2>4, DispatchedBlock DEF IInv, TypeOK
    <3>4. Top.pc \in Ops(OpArray[g])
      BY <2>4, TopFrame DEF VMDispatch, Hooked, IInv, TypeOK
    <3>5. Top.pc \in BlockOps(OpArray[g], c)
      BY <3>3, <3>4 DEF BlockOps
    <3>6. CASE g # f
      BY <2>2, <2>4, <3>6, MarkedTable DEF HitBlocksRan
    <3>7. CASE g = f
      <4>1. b \in RuntimeFor(f).block_hit \cup {c}
        BY <2>4, <3>3, <3>7, MarkedTable, MarkedRuntime DEF IInv
      <4>2. CASE b = c
        BY <3>2, <3>5, <3>7, <4>2
      <4>3. CASE b # c
        BY <2>2, <4>1, <4>3 DEF RuntimeFor, HitBlocksRan
      <4> QED
        BY <4>2, <4>3
    <3> QED
      BY <3>6, <3>7
  <2> QED
    BY <1>2, <2>3, <2>4, TablesStep, LinesOfNext
<1> QED
  BY <1>1, <1>2

(* Whatever is thrown, stopped, filtered or restarted: of every block that   *)
(* is reported as covered an op has run under coverage.                      *)
THEOREM CoveredBlocksReallyRan ==
  ASSUME KeysDistinct
  PROVE  LSpec => []CoveredBlocksRan
<1>1. LInit => HitBlocksRan
  BY EmptyFunction DEF LInit, Init, HitBlocksRan
<1>2. IInv /\ IInv' /\ HitBlocksRan /\ [LNext]_allVars => HitBlocksRan'
  BY HitBlocksRanStep
<1>3. HitBlocksRan => CoveredBlocksRan
  BY DEF HitBlocksRan, CoveredBlocksRan
<1> QED
  BY <1>1, <1>2, <1>3, RecorderSound, PTL DEF LSpec

-----------------------------------------------------------------------------
(* Where the frames are.                                                     *)

LEMMA StepOfCall == AfterInternalCall => VMStep
<1> SUFFICES ASSUME AfterInternalCall PROVE Continue
  BY DEF VMStep
<1>1. CurrentOp.code = "ICALL"
  BY DEF AfterInternalCall, Running
<1>2. Top.pc + 1 \in NextOps(CurrentOp, Top.pc)
  BY <1>1 DEF NextOps, ControlFlow
<1>3. Running(OpCodes \ {"RETURN", "THROW", "FAST_CALL", "FAST_RET"})
  BY <1>1 DEF AfterInternalCall, Running, OpCodes
<1> QED
  BY <1>2, <1>3 DEF AfterInternalCall, Continue

\* The engine moves, a handler runs, or a request starts or ends.
LEMMA EngineStep ==
  ASSUME [Next]_vars
  PROVE  \/ VMDispatch /\ UNCHANGED filterVars
         \/ VMStep
         \/ VMStartRequest /\ ~coverage_active'
         \/ VMEndRequest
         \/ UNCHANGED vars
BY StepOfCall DEF Next, Dispatch, Run, StartCoverage, StopCoverage, SetFilter, RInit, RShutdown

\* Every frame is at an op up to the end of its block.
InBlocks ==
  \A i \in DOMAIN stack :
    LET o == OpArray[stack[i].fn]
    IN  stack[i].pc <= EndOp(o, OpToBlock(o)[stack[i].pc])

LEMMA LandsInside ==
  ASSUME LandsInBlocks, NEW f \in Funcs, NEW p \in Ops(OpArray[f]), NEW q \in Ops(OpArray[f]),
         p <= EndOp(OpArray[f], OpToBlock(OpArray[f])[p]),
         q \in NextOps(OpArray[f].opcodes[p], p) \/ q = OpArray[f].opcodes[p].catch
  PROVE  q <= EndOp(OpArray[f], OpToBlock(OpArray[f])[q])
<1> DEFINE o == OpArray[f]
<1>1. IsOpArray(o)
  BY VMAssumption
<1>2. CASE IsControlFlow(o, p) \/ q # p + 1
  BY <1>2 DEF LandsInBlocks
<1>3. CASE ~IsControlFlow(o, p) /\ q = p + 1 /\ q \in Leaders(o)
  BY <1>1, <1>3, LeaderStarts
<1>4. CASE ~IsControlFlow(o, p) /\ q = p + 1 /\ q \notin Leaders(o)
  <2>1. OpToBlock(o)[p + 1] = OpToBlock(o)[p] /\ p + 1 <= EndOp(o, OpToBlock(o)[p])
    BY <1>1, <1>4, StraightOn
  <2> QED
    BY <1>4, <2>1
<1> QED
  BY <1>2, <1>3, <1>4

LEMMA EntryOp ==
  ASSUME NEW f \in Funcs
  PROVE  /\ 0 \in Ops(OpArray[f]) /\ 0 \in Leaders(OpArray[f])
         /\ StartOp(OpArray[f], OpToBlock(OpArray[f])[0]) = 0
         /\ 0 <= EndOp(OpArray[f], OpToBlock(OpArray[f])[0])
BY VMAssumption, LeadersFinite, LeaderStarts

LEMMA InBlocksStep ==
  ASSUME LandsInBlocks, VMTypeOK, VMTypeOK', CallersAtCalls, InBlocks, VMStep
  PROVE  InBlocks'
<1> DEFINE inside(f, p) == p <= EndOp(OpArray[f], OpToBlock(OpArray[f])[p])
<1>1. \A j \in DOMAIN stack : inside(stack[j].fn, stack[j].pc)
  BY DEF InBlocks
<1> SUFFICES ASSUME NEW i \in DOMAIN stack' PROVE inside(stack'[i].fn, stack'[i].pc)
  BY DEF InBlocks
<1>2. i \in DOMAIN stack =>
        /\ stack[i] \in Frames
        /\ stack[i].fn \in Funcs
        /\ stack[i].pc \in Ops(OpArray[stack[i].fn])
  BY FrameAtIndex
<1>3. CASE Keeps(i)
  BY <1>1, <1>3 DEF Keeps
<1>4. ASSUME NEW q, Moves(i, q)
      PROVE  inside(stack'[i].fn, stack'[i].pc)
  <2> DEFINE f == stack[i].fn
             p == stack[i].pc
  <2>1. /\ i \in DOMAIN stack /\ q \in Ops(OpArray[f])
        /\ q \in NextOps(OpArray[f].opcodes[p], p)
        /\ stack'[i] = [stack[i] EXCEPT !.pc = q]
    BY <1>4 DEF Moves, OpOf
  <2>2. stack'[i].fn = f /\ stack'[i].pc = q
    BY <1>2, <2>1 DEF Frames
  <2>3. inside(f, p)
    BY <1>1, <2>1
  <2>4. inside(f, q)
    BY <1>2, <2>1, <2>3, LandsInside
  <2> QED
    BY <2>2, <2>4
<1>5. CASE Enters(i)
  <2>1. PICK f \in Callees[Top.fn] : stack'[i] = FrameAt(f, 0)
    BY <1>5 DEF Enters
  <2>2. stack'[i].fn = f /\ stack'[i].pc = 0
    BY <2>1 DEF FrameAt
  <2>3. f \in Funcs
    <3>1. stack' \in [1 .. Len(stack') -> Frames]
      BY LenProperties DEF VMTypeOK
    <3> QED
      BY <2>2, <3>1 DEF Frames
  <2> QED
    BY <2>2, <2>3, EntryOp
<1>6. CASE Throws(i)
  <2>1. stack'[i].fn = stack[i].fn /\ stack'[i].pc = stack[i].pc /\ i \in DOMAIN stack
    BY <1>2, <1>6 DEF Throws, Frames
  <2> QED
    BY <1>1, <2>1
<1>7. CASE Catches(i)
  <2> DEFINE f == stack[i].fn
             p == stack[i].pc
             q == OpArray[f].opcodes[p].catch
  <2>1. i \in DOMAIN stack /\ stack'[i] = FrameAt(f, q) /\ q # NONE
    BY <1>7 DEF Catches, OpOf
  <2>2. stack'[i].fn = f /\ stack'[i].pc = q
    BY <2>1 DEF FrameAt
  <2>3. q \in Ops(OpArray[f]) /\ f \in Funcs /\ p \in Ops(OpArray[f])
    BY <1>2, <2>1, <2>2 DEF VMTypeOK
  <2> HIDE DEF f, p
  <2>4. inside(f, p)
    BY <1>1, <2>1 DEF f, p
  <2> QED
    BY <2>2, <2>3, <2>4, LandsInside
<1> QED
  BY <1>3, <1>4, <1>5, <1>6, <1>7, FrameSteps

HistoryOfRequest == ~request => ran = {} /\ moved = {} /\ interrupted = {}

EngineInv == CallersAtCalls /\ InBlocks /\ HistoryOfRequest

LEMMA EngineInvStep ==
  ASSUME LandsInBlocks, TypeOK, TypeOK', EngineInv, [LNext]_allVars
  PROVE  EngineInv'
<1>1. VMTypeOK /\ VMTypeOK' /\ CallersAtCalls /\ InBlocks
  BY DEF TypeOK, EngineInv
<1>2. HistoryOfRequest'
  <2>1. CASE LNext
    BY <2>1 DEF LNext, HistoryOfRequest
  <2>2. CASE UNCHANGED allVars
    BY <2>2 DEF allVars, vars, vmVars, historyVars, EngineInv, HistoryOfRequest
  <2> QED
    BY <2>1, <2>2
<1>3. CallersAtCalls' /\ InBlocks'
  <2>1. CASE VMStep
    BY <1>1, <2>1, CallersStep, InBlocksStep
  <2>2. CASE stack' = stack
    <3>1. Depth' = Depth
      BY <2>2 DEF Depth
    <3> QED
      BY <1>1, <2>2, <3>1 DEF CallersAtCalls, InBlocks
  <2>3. CASE VMStartRequest
    <3>1. stack' = <<FrameAt(Main, 0)>>
      BY <2>3 DEF VMStartRequest
    <3>2. DOMAIN stack' = {1} /\ Depth' = 1 /\ stack'[1].fn = Main /\ stack'[1].pc = 0
      BY <3>1 DEF FrameAt, Depth
    <3>3. Main \in Funcs
      BY VMAssumption
    <3> QED
      BY <3>2, <3>3, EntryOp DEF CallersAtCalls, InBlocks
  <2> QED
    BY <2>1, <2>2, <2>3, EngineStep, LinesOfNext DEF VMDispatch, VMEndRequest, vars, vmVars
<1> QED
  BY <1>2, <1>3 DEF EngineInv

LEMMA EngineInvInit == LInit => EngineInv
BY EmptyFunction DEF LInit, Init, VMInit, EngineInv, CallersAtCalls, InBlocks, HistoryOfRequest

-----------------------------------------------------------------------------
(* What ran is in the tables.                                                *)

RanHit ==
  \A x \in ran :
    LET o == OpArray[x[1]]
        b == OpToBlock(o)[x[2]]
    IN  /\ x[1] \in Funcs /\ x[2] \in Ops(o) /\ x[2] <= EndOp(o, b)
        /\ SlotOf(x[1]) \in DOMAIN files
        /\ b \in files[SlotOf(x[1])].block_hit

\* Nothing runs unnoticed: a handler that returns early has nothing to record.
LEMMA RanNowHit ==
  ASSUME KeysDistinct, IInv, IInv', InBlocks, LNext, NEW x \in RanNow
  PROVE  LET o == OpArray[x[1]]
             b == OpToBlock(o)[x[2]]
         IN  /\ x[1] \in Funcs /\ x[2] \in Ops(o) /\ x[2] <= EndOp(o, b)
             /\ SlotOf(x[1]) \in DOMAIN files'
             /\ b \in files'[SlotOf(x[1])].block_hit
<1> DEFINE f == Top.fn
           p == Top.pc
           b == OpToBlock(OpArray[f])[p]
<1>1. /\ x = <<f, p>> /\ ~dispatched /\ dispatched'
      /\ coverage_active /\ Wanted(FileOf[f]) /\ ~Top.exc
  BY DEF RanNow
<1>2. Dispatch
  <2>1. ~VMStep /\ ~AfterInternalCall /\ ~VMStartRequest /\ ~VMEndRequest
    BY <1>1 DEF VMStep, Continue, Call, Return, Throw, Unwind, Bailout, AfterInternalCall, GoTo,
                VMStartRequest, VMEndRequest
  <2> QED
    BY <2>1 DEF LNext, Next, Run, StartCoverage, StopCoverage, SetFilter, RInit, RShutdown
<1>3. VMDispatch /\ stack # <<>>
  BY <1>2 DEF Dispatch, VMDispatch, Hooked
<1>4. /\ f \in Funcs /\ p \in Ops(OpArray[f]) /\ request
      /\ b \in BlocksOf(f) /\ Analysis[f].op_to_block[p] = b
  BY <1>3, TopFrame, DispatchedBlock DEF IInv, TypeOK
<1>5. p <= EndOp(OpArray[f], b)
  <2>1. Depth \in DOMAIN stack
    BY <1>3, TopFrame DEF IInv, TypeOK
  <2> QED
    BY <2>1 DEF InBlocks, Top
<1>6. CASE Saturated(f) /\ files' = files
  <2>1. SlotOf(f) \in DOMAIN files /\ files[SlotOf(f)].block_hit = BlocksOf(f)
    BY <1>4, <1>6 DEF IInv, SaturationSound
  <2> QED
    BY <1>1, <1>4, <1>5, <1>6, <2>1
<1>7. CASE MarkReturnsEarly
  <2>1. sat_last_opcodes = f \/ Saturated(f)
    BY <1>1, <1>7 DEF MarkReturnsEarly
  <2>2. f # NoFunc
    BY <1>4, CoverageAssumption
  <2>3. Saturated(f)
    BY <1>1, <1>4, <2>1, <2>2 DEF IInv, FastPathSound
  <2> QED
    BY <1>6, <1>7, <2>3 DEF MarkReturnsEarly, recorderVars, dataVars
<1>8. CASE MarkReprimesSlot
  BY <1>6, <1>8 DEF MarkReprimesSlot, dataVars
<1>9. CASE MarkRecords
  <2>1. SlotOf(f) \in DOMAIN files'
    BY <1>9 DEF MarkRecords
  <2>2. files'[SlotOf(f)] = AfterMark(f, b)
    BY <1>3, <1>4, <1>9, <2>1, MarkedTable
  <2>3. b \in AfterMark(f, b).block_hit
    BY <1>4, MarkedRuntime DEF IInv
  <2> QED
    BY <1>1, <1>4, <1>5, <2>1, <2>2, <2>3
<1> QED
  BY <1>2, <1>7, <1>8, <1>9 DEF Dispatch

\* Blocks stay hit as long as the request goes on.
LEMMA HitsKept ==
  ASSUME KeysDistinct, IInv, [Next]_vars, request, request', NEW f \in Funcs,
         SlotOf(f) \in DOMAIN files
  PROVE  /\ SlotOf(f) \in DOMAIN files'
         /\ files[SlotOf(f)].block_hit \subseteq files'[SlotOf(f)].block_hit
<1>1. CASE files' = files
  BY <1>1
<1>2. CASE VMDispatch /\ MarkRecords
  <2> DEFINE g == Top.fn
             c == Analysis[g].op_to_block[Top.pc]
  <2>1. SlotOf(f) \in DOMAIN files'
    BY <1>2 DEF MarkRecords
  <2>2. CASE g # f
    BY <1>2, <2>1, <2>2, MarkedTable
  <2>3. CASE g = f
    <3>1. files'[SlotOf(f)] = AfterMark(f, c) /\ c \in BlocksOf(f)
      BY <1>2, <2>1, <2>3, MarkedTable, DispatchedBlock DEF IInv, TypeOK
    <3>2. AfterMark(f, c).block_hit = RuntimeFor(f).block_hit \cup {c}
      BY <3>1, MarkedRuntime DEF IInv
    <3> QED
      BY <2>1, <3>1, <3>2 DEF RuntimeFor
  <2> QED
    BY <2>2, <2>3
<1> QED
  BY <1>1, <1>2, TablesStep

LEMMA RanHitStep ==
  ASSUME KeysDistinct, IInv, IInv', EngineInv, RanHit, [LNext]_allVars
  PROVE  RanHit'
<1>1. CASE ~request'
  <2>1. CASE LNext
    BY <1>1, <2>1 DEF LNext, RanHit
  <2>2. CASE UNCHANGED allVars
    BY <2>2 DEF allVars, vars, recorderVars, dataVars, historyVars, RanHit
  <2> QED
    BY <2>1, <2>2
<1>2. CASE request'
  <2> SUFFICES ASSUME NEW x \in ran'
               PROVE  LET o == OpArray[x[1]]
                          b == OpToBlock(o)[x[2]]
                      IN  /\ x[1] \in Funcs /\ x[2] \in Ops(o) /\ x[2] <= EndOp(o, b)
                          /\ SlotOf(x[1]) \in DOMAIN files'
                          /\ b \in files'[SlotOf(x[1])].block_hit
    BY DEF RanHit
  <2>1. CASE x \in ran
    <3>1. request
      BY <2>1 DEF EngineInv, HistoryOfRequest
    <3> QED
      BY <1>2, <2>1, <3>1, HitsKept, LinesOfNext DEF RanHit
  <2>2. CASE x \notin ran
    <3>1. LNext /\ x \in RanNow
      BY <1>2, <2>2 DEF LNext, allVars, historyVars
    <3> QED
      BY <3>1, RanNowHit DEF EngineInv
  <2> QED
    BY <2>1, <2>2
<1> QED
  BY <1>1, <1>2

\* A line that ran is reported, unless a clamp of its function is in its block.
LEMMA RanIsReported ==
  ASSUME IInv, RanHit, KeysDistinct, NEW x \in ran
  PROVE  LET f == x[1]
             b == Analysis[f].op_to_block[x[2]]
             clamps == (IF f \in DOMAIN Frontiers THEN {Frontiers[f]} ELSE {})
                         \cup (IF f \in DOMAIN start_floors THEN {start_floors[f]} ELSE {})
         IN  \/ x[2] \notin LineOps(OpArray[f])
             \/ Line(OpArray[f], x[2]) \in CoveredLines(FileOf[f]) \ UnusedLines(FileOf[f])
             \/ clamps \cap (Analysis[f].start_op[b] .. Analysis[f].end_op[b]) # {}
<1>1. PICK f : f = x[1]
  OBVIOUS
<1>2. PICK p : p = x[2]
  OBVIOUS
<1> DEFINE o == OpArray[f]
<1>3. PICK b : b = OpToBlock(o)[p]
  OBVIOUS
<1>4. /\ f \in Funcs /\ p \in Ops(o) /\ p <= EndOp(o, b)
      /\ SlotOf(f) \in DOMAIN files /\ b \in files[SlotOf(f)].block_hit
  BY <1>1, <1>2, <1>3 DEF RanHit
<1>5. IsOpArray(o)
  BY <1>4, VMAssumption
<1>6. b \in Blocks(o) /\ StartOp(o, b) <= p /\ StartOp(o, b) \in Nat /\ EndOp(o, b) \in Nat /\ p \in Nat
  BY <1>3, <1>4, <1>5, OpInBlock
<1>7. /\ Analysis[f].op_to_block[p] = b
      /\ Analysis[f].start_op[b] = StartOp(o, b)
      /\ Analysis[f].end_op[b] = EndOp(o, b)
      /\ Analysis[f].lines[b] = LineEntries(o, b)
  BY <1>3, <1>4, <1>6 DEF Analysis, Analyse
<1>8. SUFFICES ASSUME p \in LineOps(o),
                      f \in DOMAIN Frontiers => Frontiers[f] \notin StartOp(o, b) .. EndOp(o, b),
                      f \in DOMAIN start_floors => start_floors[f] \notin StartOp(o, b) .. EndOp(o, b)
               PROVE  Line(o, p) \in CoveredLines(FileOf[f]) \ UnusedLines(FileOf[f])
  BY <1>1, <1>2, <1>7
<1>9. PICK e \in LineEntries(o, b) : e.line = Line(o, p)
  BY <1>4, <1>5, <1>6, <1>8, EntryOfLine
<1>10. e \in ReportedEntries(f)
  <2>1. ~PastFrontier(f, b, e.op) /\ ~BeforeFloor(f, b, e.op)
    BY <1>7, <1>8 DEF PastFrontier, BeforeFloor
  <2>2. files[SlotOf(f)].fn = f
    <3>1. files[SlotOf(f)].fn \in Funcs
      BY <1>4 DEF IInv, TypeOK, Runtimes
    <3> QED
      BY <1>4, <3>1 DEF IInv, RuntimesOwned, KeysDistinct
  <2> QED
    BY <1>4, <1>7, <1>9, <2>1, <2>2 DEF ReportedEntries
<1>11. Line(o, p) \in CoveredLines(FileOf[f])
  BY <1>4, <1>9, <1>10 DEF CoveredLines
<1>12. Line(o, p) \notin UnusedLines(FileOf[f])
  BY <1>11 DEF UnusedLines
<1> QED
  BY <1>11, <1>12

(* Where no jump lands behind a terminator: a line that ran is left out or   *)
(* called unused only when a frame in flight, or one that was in flight when *)
(* coverage started, is in its own block.                                    *)
THEOREM LinesMissedOnlyByClamps ==
  ASSUME KeysDistinct, LandsInBlocks
  PROVE  LSpec => []MissedOnlyByClamp
<1> DEFINE Inv == EngineInv /\ RanHit
<1>1. LInit => Inv
  BY EngineInvInit DEF LInit, RanHit
<1>2. IInv /\ IInv' /\ Inv /\ [LNext]_allVars => Inv'
  BY EngineInvStep, RanHitStep DEF IInv
<1>3. IInv /\ Inv => MissedOnlyByClamp
  BY RanIsReported DEF MissedOnlyByClamp
<1> QED
  BY <1>1, <1>2, <1>3, RecorderSound, PTL DEF LSpec

-----------------------------------------------------------------------------
(* What is reported has run, where the analysis knows all jumps.             *)

Blk(f, p) == OpToBlock(OpArray[f])[p]
Span(f, b) == StartOp(OpArray[f], b) .. EndOp(OpArray[f], b)

LEMMA FlowLands ==
  ASSUME FlowKnown
  PROVE  LandsInBlocks
<1> SUFFICES ASSUME NEW f \in Funcs, NEW p \in Ops(OpArray[f]),
                    NEW q \in Ops(OpArray[f]),
                    \/ q \in NextOps(OpArray[f].opcodes[p], p)
                    \/ q = OpArray[f].opcodes[p].catch,
                    IsControlFlow(OpArray[f], p) \/ q # p + 1
             PROVE  q <= EndOp(OpArray[f], OpToBlock(OpArray[f])[q])
  BY DEF LandsInBlocks
<1> DEFINE o == OpArray[f]
<1>1. IsOpArray(o) /\ KnowsJumps(o)
  BY VMAssumption DEF FlowKnown
<1>2. CASE q = o.opcodes[p].catch
  <2>1. q # NONE
    BY <1>1, LeadersFinite DEF Ops, NONE
  <2>2. Code(o, q) = "CATCH"
    BY <1>2, <2>1 DEF FlowKnown
  <2>3. q \in Leaders(o)
    BY <2>2 DEF Leaders
  <2> QED
    BY <1>1, <2>3, LeaderStarts
<1>3. CASE q \in NextOps(o.opcodes[p], p)
  <2>1. IsControlFlow(o, p)
    <3>1. ~IsControlFlow(o, p) => NextOps(o.opcodes[p], p) = {p + 1}
      BY <1>1 DEF NextOps, KnowsJumps, IsControlFlow, Code
    <3> QED
      BY <1>3, <3>1
  <2>2. q \in Leaders(o)
    BY <1>1, <1>3, <2>1, KnownJumps, JumpsLead
  <2> QED
    BY <1>1, <2>2, LeaderStarts
<1> QED
  BY <1>2, <1>3

\* Op q of f has run, or a frame of f was past it when coverage started.
Seen(f, q) ==
  \/ <<f, q>> \in ran
  \/ f \in DOMAIN start_floors /\ start_floors[f] \in Span(f, Blk(f, q)) /\ q <= start_floors[f]

Watching(f) == coverage_active /\ Wanted(FileOf[f])
Open(f) == \E i \in DOMAIN stack : stack[i].fn = f

\* A frame of f that is watched is at op q, or before it in its block.
Ahead(f, q) ==
  /\ Watching(f)
  /\ \E i \in DOMAIN stack :
       stack[i].fn = f /\ Blk(f, stack[i].pc) = Blk(f, q) /\ stack[i].pc <= q

HitSeen(f) ==
  SlotOf(f) \in DOMAIN files =>
    \A b \in files[SlotOf(f)].block_hit : \A q \in Span(f, b) :
      IsHooked(OpArray[f], q) => Seen(f, q) \/ Ahead(f, q)

\* A watched frame has seen its block up to where it is.
FrameSeen(f) ==
  Watching(f) =>
    \A i \in DOMAIN stack : stack[i].fn = f =>
      \A q \in StartOp(OpArray[f], Blk(f, stack[i].pc)) .. stack[i].pc :
        IsHooked(OpArray[f], q) /\ (q < stack[i].pc \/ i < Depth \/ dispatched) => Seen(f, q)

ExcInterrupted == \A i \in DOMAIN stack : stack[i].exc => stack[i].fn \in interrupted

FloorsAtCalls ==
  \A f \in DOMAIN start_floors :
    start_floors[f] \in Ops(OpArray[f]) /\ Code(OpArray[f], start_floors[f]) \in {"CALL", "ICALL"}

SeenInv ==
  /\ ExcInterrupted /\ FloorsAtCalls
  /\ stack # <<>> => \A f \in Funcs \ interrupted : HitSeen(f) /\ FrameSeen(f)

-----------------------------------------------------------------------------

LEMMA BlockSpan ==
  ASSUME NEW f \in Funcs, NEW p \in Ops(OpArray[f])
  PROVE  /\ IsOpArray(OpArray[f])
         /\ Blk(f, p) \in Blocks(OpArray[f]) /\ Blk(f, p) \in BlocksOf(f)
         /\ p \in Nat
         /\ StartOp(OpArray[f], Blk(f, p)) \in Nat
         /\ StartOp(OpArray[f], Blk(f, p)) <= p
         /\ EndOp(OpArray[f], Blk(f, p)) \in Nat
         /\ \A q \in Span(f, Blk(f, p)) : q \in Ops(OpArray[f]) /\ Blk(f, q) = Blk(f, p)
         /\ p <= EndOp(OpArray[f], Blk(f, p)) =>
              /\ p \in Span(f, Blk(f, p))
              /\ \A q \in StartOp(OpArray[f], Blk(f, p)) .. p :
                   q \in Span(f, Blk(f, p)) /\ Blk(f, q) = Blk(f, p)
<1> DEFINE o == OpArray[f]
           b == OpToBlock(o)[p]
<1>1. IsOpArray(o)
  BY VMAssumption
<1>2. /\ b \in Blocks(o) /\ p \in Nat /\ StartOp(o, b) \in Nat /\ StartOp(o, b) <= p
      /\ EndOp(o, b) \in Nat /\ StartOp(o, b) .. EndOp(o, b) \subseteq BlockOps(o, b)
  BY <1>1, OpInBlock
<1>3. b \in BlocksOf(f)
  BY AnalysisFacts
<1>4. \A q \in BlockOps(o, b) : q \in Ops(o) /\ OpToBlock(o)[q] = b
  BY DEF BlockOps
<1>5. \A q \in StartOp(o, b) .. EndOp(o, b) : q \in Ops(o) /\ OpToBlock(o)[q] = b
  BY <1>2, <1>4
<1>6. ASSUME p <= EndOp(o, b), NEW q \in StartOp(o, b) .. p
      PROVE  q \in StartOp(o, b) .. EndOp(o, b) /\ OpToBlock(o)[q] = b
  BY <1>2, <1>5, <1>6
<1>7. p <= EndOp(o, b) => p \in StartOp(o, b) .. EndOp(o, b)
  BY <1>2
<1> QED
  BY <1>1, <1>2, <1>3, <1>5, <1>6, <1>7 DEF Blk, Span

LEMMA InFlightFinite == VMTypeOK => \A f \in Funcs : IsFiniteSet(OpsInFlight(f))
<1> SUFFICES ASSUME VMTypeOK, NEW f \in Funcs PROVE IsFiniteSet(OpsInFlight(f))
  OBVIOUS
<1>1. OpsInFlight(f) \subseteq Ops(OpArray[f])
  BY DEF OpsInFlight, VMTypeOK
<1>2. OpArray[f].last \in Nat
  BY VMAssumption DEF IsOpArray
<1> QED
  BY <1>1, <1>2, FirstNaturals, FS_Subset DEF Ops

LEMMA AtMostOne ==
  ASSUME NEW S, IsFiniteSet(S), Cardinality(S) <= 1, NEW x \in S, NEW y \in S
  PROVE  x = y
<1>1. SUFFICES ASSUME x # y PROVE FALSE
  OBVIOUS
<1>2. IsFiniteSet({x}) /\ Cardinality({x}) = 1
  BY FS_Singleton
<1>3. IsFiniteSet({x, y}) /\ Cardinality({x, y}) = 2
  <2>1. {x, y} = {x} \cup {y}
    OBVIOUS
  <2>2. IsFiniteSet({x} \cup {y}) /\ Cardinality({x} \cup {y}) = 1 + 1
    BY <1>1, <1>2, FS_AddElement, y \notin {x}
  <2> QED
    BY <2>1, <2>2
<1>4. {x, y} \subseteq S
  OBVIOUS
<1>5. Cardinality({x, y}) <= Cardinality(S)
  BY <1>4, FS_Subset
<1>6. Cardinality(S) \in Nat
  BY FS_CardinalityType
<1> QED
  BY <1>3, <1>5, <1>6

LEMMA InternalDepth ==
  ASSUME VMTypeOK, AfterInternalCall
  PROVE  Depth' = Depth
<1>1. Depth \in Nat /\ DOMAIN stack = 1 .. Depth
  BY LenProperties DEF VMTypeOK, Depth
<1>2. stack' \in Seq(Frames)
  BY AfterInternalCallType DEF VMTypeOK
<1>3. Depth' \in Nat /\ DOMAIN stack' = 1 .. Depth'
  BY <1>2, LenProperties DEF Depth
<1>4. DOMAIN stack' = DOMAIN stack
  BY DEF AfterInternalCall, GoTo
<1> QED
  BY <1>1, <1>3, <1>4, SameInterval

LEMMA InternalCallMoves ==
  ASSUME VMTypeOK, AfterInternalCall
  PROVE  /\ DOMAIN stack' = DOMAIN stack /\ Depth' = Depth
         /\ \A i \in DOMAIN stack : stack'[i].fn = stack[i].fn /\ stack'[i].exc = stack[i].exc
         /\ \A i \in DOMAIN stack : i # Depth => stack'[i] = stack[i]
         /\ ~Top.exc /\ Code(OpArray[Top.fn], Top.pc) = "ICALL"
         /\ \A f : Open(f)' <=> Open(f)
<1>1. stack # <<>> /\ ~Top.exc /\ Code(OpArray[Top.fn], Top.pc) = "ICALL"
      /\ stack' = [stack EXCEPT ![Depth].pc = Top.pc + 1]
  BY DEF AfterInternalCall, Running, CurrentOp, GoTo, Code
<1>2. DOMAIN stack' = DOMAIN stack
  BY <1>1
<1>3. Depth' = Depth
  BY InternalDepth
<1>4. \A i \in DOMAIN stack : stack[i] \in Frames
  BY FrameAtIndex
<1>5. \A i \in DOMAIN stack : stack'[i].fn = stack[i].fn /\ stack'[i].exc = stack[i].exc
  BY <1>1, <1>4 DEF Frames
<1> QED
  BY <1>1, <1>2, <1>3, <1>5 DEF Open

-----------------------------------------------------------------------------

LEMMA ExcStep ==
  ASSUME ExcInterrupted, TypeOK', [LNext]_allVars
  PROVE  ExcInterrupted'
<1>1. CASE stack' = <<>>
  BY <1>1, EmptyFunction DEF ExcInterrupted
<1>2. CASE LNext /\ stack' # <<>>
  <2>1. request'
    BY <1>2 DEF TypeOK, VMTypeOK
  <2>2. interrupted' = interrupted \cup InterruptedNow
    BY <1>2, <2>1 DEF LNext
  <2>3. \A i \in DOMAIN stack' : stack'[i].exc => stack'[i].fn \in InterruptedNow
    BY DEF InterruptedNow
  <2> QED
    BY <2>2, <2>3 DEF ExcInterrupted
<1>3. CASE UNCHANGED allVars
  BY <1>3 DEF allVars, vars, vmVars, historyVars, ExcInterrupted
<1> QED
  BY <1>1, <1>2, <1>3

LEMMA LowerFloorsFrom ==
  ASSUME TypeOK, NEW f \in DOMAIN LowerFloors
  PROVE  /\ f \in Funcs
         /\ \/ LowerFloors[f] \in OpsInFlight(f)
            \/ f \in DOMAIN start_floors /\ LowerFloors[f] = start_floors[f]
<1> DEFINE ops == OpsInFlight(f)
                    \cup (IF f \in DOMAIN start_floors THEN {start_floors[f]} ELSE {})
<1>1. f \in DOMAIN start_floors \cup InFlight
  BY DEF LowerFloors
<1>2. f \in Funcs
  BY <1>1 DEF TypeOK, InFlight
<1>3. LowerFloors[f] = CHOOSE p \in ops : \A q \in ops : p <= q
  BY <1>1 DEF LowerFloors
<1>4. ops \in SUBSET Nat
  <2>1. \A j \in DOMAIN stack : stack[j].pc \in Nat
    BY FrameAtIndex DEF TypeOK
  <2>2. OpsInFlight(f) \subseteq Nat
    BY <2>1 DEF OpsInFlight
  <2> QED
    BY <2>2 DEF TypeOK
<1>5. ops # {}
  BY <1>1 DEF InFlight
<1>6. \E p \in ops : \A q \in ops : p <= q
  BY <1>4, <1>5, LeastNatural
<1>7. LowerFloors[f] \in ops
  BY <1>3, <1>6
<1> QED
  BY <1>2, <1>7

\* The floors change only when coverage starts and when the request ends.
LEMMA FloorsChange ==
  ASSUME [Next]_vars
  PROVE  \/ UNCHANGED start_floors
         \/ start_floors' = <<>> /\ ~request'
         \/ \E flags \in FlagSets : StartCoverage(flags)
<1>1. CASE Dispatch
  BY <1>1 DEF Dispatch, MarkReturnsEarly, MarkReprimesSlot, MarkRecords, recorderVars, sessionVars
<1> QED
  BY <1>1 DEF Next, Run, StopCoverage, SetFilter, RInit, RShutdown, VMEndRequest, vars,
              recorderVars, sessionVars

LEMMA FloorsAtCallsStep ==
  ASSUME TypeOK, CallersAtCalls, FloorsAtCalls, [Next]_vars
  PROVE  FloorsAtCalls'
<1>1. CASE UNCHANGED start_floors
  BY <1>1 DEF FloorsAtCalls
<1>2. CASE start_floors' = <<>>
  BY <1>2, EmptyFunction DEF FloorsAtCalls
<1>3. CASE \E flags \in FlagSets : StartCoverage(flags)
  <2>1. AfterInternalCall /\ start_floors' = LowerFloors
    BY <1>3 DEF StartCoverage
  <2>2. /\ stack # <<>> /\ Code(OpArray[Top.fn], Top.pc) = "ICALL"
        /\ Depth \in Nat /\ DOMAIN stack = 1 .. Depth
    BY <2>1, LenProperties DEF AfterInternalCall, Running, CurrentOp, Code, TypeOK, VMTypeOK, Depth
  <2>3. ASSUME NEW i \in DOMAIN stack
        PROVE  /\ stack[i].pc \in Ops(OpArray[stack[i].fn])
               /\ Code(OpArray[stack[i].fn], stack[i].pc) \in {"CALL", "ICALL"}
    <3>1. i < Depth \/ i = Depth
      BY <2>2
    <3> QED
      BY <2>2, <3>1, FrameAtIndex DEF CallersAtCalls, Top, TypeOK
  <2>4. ASSUME NEW f \in DOMAIN LowerFloors
        PROVE  /\ LowerFloors[f] \in Ops(OpArray[f])
               /\ Code(OpArray[f], LowerFloors[f]) \in {"CALL", "ICALL"}
    <3>1. CASE LowerFloors[f] \in OpsInFlight(f)
      <4>1. PICK i \in DOMAIN stack : stack[i].fn = f /\ LowerFloors[f] = stack[i].pc
        BY <3>1 DEF OpsInFlight
      <4> QED
        BY <2>3, <4>1
    <3>2. CASE f \in DOMAIN start_floors /\ LowerFloors[f] = start_floors[f]
      BY <3>2 DEF FloorsAtCalls
    <3> QED
      BY <3>1, <3>2, LowerFloorsFrom
  <2> QED
    BY <2>1, <2>4 DEF FloorsAtCalls
<1> QED
  BY <1>1, <1>2, <1>3, FloorsChange

\* What one of the steps of the engine, or of the API, does to the watching of f.
LEMMA MovesWatch ==
  ASSUME TypeOK, LNext, request', NEW f \in Funcs, f \notin interrupted',
         \/ Run
         \/ \E flags \in FlagSets : StartCoverage(flags)
         \/ StopCoverage
         \/ SetFilter
  PROVE  /\ VMStep /\ files' = files /\ request /\ ~dispatched'
         /\ \/ (Watching(f)' <=> Watching(f)) /\ UNCHANGED start_floors
            \/ AfterInternalCall /\ ~Open(f)
            \/ /\ AfterInternalCall /\ Open(f) /\ coverage_active' /\ UNCHANGED filterVars
               /\ start_floors' = LowerFloors /\ f \notin DOMAIN start_floors
               /\ Cardinality(OpsInFlight(f)) <= 1
<1> DEFINE open == {stack[i].fn : i \in DOMAIN stack}
<1>1. interrupted' = interrupted \cup InterruptedNow
  BY DEF LNext
<1>2. Open(f) => f \in open
  BY DEF Open
<1>3. /\ coverage_active /\ ~coverage_active' => f \notin open
      /\ filterVars' # filterVars => f \notin open
      /\ sat_generation' # sat_generation =>
           ~(f \in open /\ (f \in DOMAIN start_floors \/ Cardinality(OpsInFlight(f)) > 1))
  BY <1>1 DEF InterruptedNow
<1>4. VMStep /\ request /\ ~dispatched'
  <2>1. VMStep
    BY LinesOfNext, EngineStep, StepOfCall
       DEF Run, StartCoverage, StopCoverage, SetFilter
  <2>2. UNCHANGED request /\ ~dispatched'
    BY <2>1 DEF VMStep, Continue, Call, Return, Throw, Unwind, Bailout, GoTo
  <2> QED
    BY <2>1, <2>2
<1>5. files' = files
  BY DEF Run, StartCoverage, StopCoverage, SetFilter, recorderVars, dataVars
<1>6. CASE Run
  BY <1>4, <1>5, <1>6 DEF Run, Watching, Wanted, filterVars, recorderVars, sessionVars
<1>7. CASE \E flags \in FlagSets : StartCoverage(flags)
  <2>1. PICK flags \in FlagSets : StartCoverage(flags)
    BY <1>7
  <2>2. /\ AfterInternalCall /\ coverage_active' /\ UNCHANGED filterVars
        /\ start_floors' = LowerFloors /\ sat_generation' = sat_generation + 1
    BY <2>1 DEF StartCoverage
  <2>3. CASE ~Open(f)
    BY <1>4, <1>5, <2>2, <2>3
  <2>4. CASE Open(f)
    <3>1. sat_generation' # sat_generation
      BY <2>1, CoverageAssumption DEF StartCoverage
    <3>2. f \notin DOMAIN start_floors /\ ~(Cardinality(OpsInFlight(f)) > 1)
      BY <1>2, <1>3, <2>4, <3>1
    <3>3. Cardinality(OpsInFlight(f)) \in Nat
      BY InFlightFinite, FS_CardinalityType DEF TypeOK
    <3>4. Cardinality(OpsInFlight(f)) <= 1
      BY <3>2, <3>3
    <3> QED
      BY <1>4, <1>5, <2>2, <2>4, <3>2, <3>4
  <2> QED
    BY <2>3, <2>4
<1>8. CASE StopCoverage
  <2>1. AfterInternalCall /\ ~coverage_active' /\ UNCHANGED <<filterVars, start_floors>>
    BY <1>8 DEF StopCoverage
  <2> QED
    BY <1>2, <1>3, <1>4, <1>5, <2>1 DEF Watching
<1>9. CASE SetFilter
  <2>1. AfterInternalCall /\ UNCHANGED <<coverage_active, start_floors>>
    BY <1>9 DEF SetFilter, recorderVars, sessionVars
  <2>2. filterVars' = filterVars => (Watching(f)' <=> Watching(f))
    BY <2>1 DEF filterVars, Watching, Wanted
  <2> QED
    BY <1>2, <1>3, <1>4, <1>5, <2>1, <2>2
<1> QED
  BY <1>6, <1>7, <1>8, <1>9

-----------------------------------------------------------------------------
\* How a frame of a function that is not interrupted moves.

Finished(i) == i < Depth \/ (i = Depth /\ dispatched = IsHooked(OpArray[stack[i].fn], stack[i].pc))

LastOfBlock(f, p) == EndOp(OpArray[f], Blk(f, p)) = p

Stays(i) ==
  /\ i \in DOMAIN stack /\ i < Depth' /\ stack'[i] = stack[i]
  /\ i < Depth \/ (i = Depth /\ dispatched)

Advances(f, i) ==
  /\ i \in DOMAIN stack /\ stack[i].fn = f /\ i = Depth' /\ ~dispatched' /\ Finished(i)
  /\ stack'[i].pc = stack[i].pc + 1
  /\ Blk(f, stack'[i].pc) = Blk(f, stack[i].pc)

Leaves(f, i) ==
  /\ i \in DOMAIN stack /\ stack[i].fn = f /\ i = Depth' /\ ~dispatched' /\ Finished(i)
  /\ LastOfBlock(f, stack[i].pc)
  /\ stack'[i].pc \in Leaders(OpArray[f])

Begins(f, i) ==
  /\ i = Depth + 1 /\ i = Depth' /\ ~dispatched'
  /\ f \in Callees[Top.fn]
  /\ stack'[i].pc = 0 /\ stack'[i].pc \in Leaders(OpArray[f])

NoneThrown(f) == \A i \in DOMAIN stack : stack[i].fn = f => ~stack[i].exc

LEMMA FrameGoesOn ==
  ASSUME FlowKnown, VMTypeOK, VMTypeOK', CallersAtCalls, InBlocks, VMStep, NEW f \in Funcs,
         NoneThrown(f), NoneThrown(f)', NEW i \in DOMAIN stack', stack'[i].fn = f
  PROVE  Stays(i) \/ Advances(f, i) \/ Leaves(f, i) \/ Begins(f, i)
<1> DEFINE o == OpArray[f]
<1>1. IsOpArray(o) /\ KnowsJumps(o)
  BY VMAssumption DEF FlowKnown
<1>2. ~stack'[i].exc
  BY DEF NoneThrown
<1>3. i \in DOMAIN stack => /\ stack[i] \in Frames
                            /\ stack[i].pc \in Ops(OpArray[stack[i].fn])
                            /\ i \in 1 .. Depth /\ Depth \in Nat
  BY FrameAtIndex, LenProperties DEF VMTypeOK, Depth
<1>4. CASE Keeps(i)
  <2>1. i < Depth \/ i = Depth
    BY <1>3, <1>4 DEF Keeps
  <2> QED
    BY <1>4, <2>1 DEF Keeps, Stays
<1>5. ASSUME NEW q, Moves(i, q)
      PROVE  Advances(f, i) \/ Leaves(f, i)
  <2>1. stack'[i].fn = stack[i].fn /\ stack'[i].pc = q /\ stack[i].fn = f
    BY <1>3, <1>5 DEF Moves, Frames
  <2>2. PICK p : p = stack[i].pc
    OBVIOUS
  <2>3. /\ p \in Ops(o) /\ q \in NextOps(o.opcodes[p], p) \cap Ops(o)
        /\ p <= EndOp(o, OpToBlock(o)[p])
    BY <1>3, <1>5, <2>1, <2>2 DEF Moves, OpOf, InBlocks
  <2>4. \/ q = p + 1 /\ OpToBlock(o)[q] = OpToBlock(o)[p]
        \/ q \in Leaders(o) /\ EndOp(o, OpToBlock(o)[p]) = p
    BY <1>1, <2>3, KnownMove
  <2>5. Finished(i)
    BY <1>5 DEF Moves, OpOf, Finished, IsHooked, Code
  <2> QED
    BY <1>5, <2>1, <2>2, <2>4, <2>5 DEF Moves, Advances, Leaves, LastOfBlock, Blk
<1>6. CASE Enters(i)
  <2>1. PICK g \in Callees[Top.fn] : stack'[i] = FrameAt(g, 0)
    BY <1>6 DEF Enters
  <2>2. g = f /\ stack'[i].pc = 0
    BY <2>1 DEF FrameAt
  <2> QED
    BY <1>6, <2>1, <2>2, EntryOp DEF Enters, Begins
<1>7. CASE Throws(i)
  <2>1. stack'[i].exc
    BY <1>3, <1>7 DEF Throws, Frames
  <2> QED
    BY <1>2, <2>1
<1>8. CASE Catches(i)
  <2>1. stack'[i].fn = stack[i].fn /\ stack[i].exc /\ i \in DOMAIN stack
    BY <1>8 DEF Catches, FrameAt
  <2> QED
    BY <2>1 DEF NoneThrown
<1> QED
  BY <1>4, <1>5, <1>6, <1>7, <1>8, FrameSteps

LEMMA FrameReturns ==
  ASSUME VMTypeOK, VMTypeOK', InBlocks, VMStep, stack' # <<>>, NEW f \in Funcs, NoneThrown(f),
         NEW i \in DOMAIN stack, stack[i].fn = f, i \notin DOMAIN stack'
  PROVE  /\ i = Depth /\ dispatched
         /\ LastOfBlock(f, stack[i].pc)
         /\ Code(OpArray[f], stack[i].pc) = "RETURN"
<1>1. i = Depth /\ dispatched /\ Code(OpArray[f], stack[i].pc) = "RETURN"
  BY FramesLeft DEF NoneThrown, OpOf, Code
<1>2. stack[i].pc \in Ops(OpArray[f]) /\ stack[i].pc <= EndOp(OpArray[f], Blk(f, stack[i].pc))
  BY FrameAtIndex DEF InBlocks, Blk
<1>3. IsOpArray(OpArray[f]) /\ IsControlFlow(OpArray[f], stack[i].pc)
  BY <1>1, VMAssumption DEF IsControlFlow, ControlFlow
<1>4. EndOp(OpArray[f], Blk(f, stack[i].pc)) <= stack[i].pc
  BY <1>2, <1>3, JumpEndsBlock DEF Blk
<1> QED
  BY <1>1, <1>2, <1>4, BlockSpan DEF LastOfBlock

LEMMA Uninterrupted ==
  ASSUME ExcInterrupted, NEW f \in Funcs, f \notin interrupted
  PROVE  NoneThrown(f)
BY DEF ExcInterrupted, NoneThrown

-----------------------------------------------------------------------------

LEMMA SeenKept ==
  ASSUME TypeOK, LNext, request', NEW f \in Funcs, f \notin interrupted'
  PROVE  \A q : Seen(f, q) => Seen(f, q)'
<1>1. ran \subseteq ran'
  BY HistoryStep
<1>2. f \in DOMAIN start_floors =>
        f \in DOMAIN start_floors' /\ start_floors'[f] = start_floors[f]
  <2>1. CASE UNCHANGED start_floors
    BY <2>1
  <2>2. CASE \E flags \in FlagSets : StartCoverage(flags)
    <3>1. start_floors' = LowerFloors
      BY <2>2 DEF StartCoverage
    <3>2. SUFFICES ASSUME f \in DOMAIN start_floors
                   PROVE  f \in DOMAIN LowerFloors /\ LowerFloors[f] = start_floors[f]
      BY <3>1
    <3>3. ~Open(f)
      <4>1. AfterInternalCall
        BY <2>2 DEF StartCoverage
      <4>2. sat_generation' # sat_generation
        BY <2>2, CoverageAssumption DEF StartCoverage
      <4>3. InterruptedNow \subseteq interrupted'
        BY DEF LNext
      <4>4. ~(f \in {stack[i].fn : i \in DOMAIN stack})
        BY <3>2, <4>2, <4>3 DEF InterruptedNow
      <4> QED
        BY <4>4 DEF Open
    <3>4. OpsInFlight(f) = {}
      BY <3>3 DEF OpsInFlight, Open
    <3>5. f \in DOMAIN LowerFloors
      BY <3>2 DEF LowerFloors
    <3> QED
      BY <3>4, <3>5, LowerFloorsFrom
  <2> QED
    BY <2>1, <2>2, FloorsChange, LinesOfNext
<1> QED
  BY <1>1, <1>2 DEF Seen

\* While f is watched, its frames see the ops they pass.
LEMMA FramesSee ==
  ASSUME FlowKnown, TypeOK, TypeOK', CallersAtCalls, InBlocks, VMStep, stack' # <<>>,
         NEW f \in Funcs, NoneThrown(f), NoneThrown(f)',
         Watching(f), FrameSeen(f), Watching(f)', \A q : Seen(f, q) => Seen(f, q)'
  PROVE  FrameSeen(f)'
<1> DEFINE o == OpArray[f]
<1> SUFFICES ASSUME NEW i \in DOMAIN stack', stack'[i].fn = f,
                    NEW q \in StartOp(o, Blk(f, stack'[i].pc)) .. stack'[i].pc,
                    IsHooked(o, q), q < stack'[i].pc \/ i < Depth' \/ dispatched'
             PROVE  Seen(f, q)'
  BY DEF FrameSeen
<1>1. VMTypeOK /\ VMTypeOK'
  BY DEF TypeOK
<1>2. IsOpArray(o)
  BY VMAssumption
<1>3. ASSUME NEW j \in DOMAIN stack, stack[j].fn = f,
             NEW r \in StartOp(o, Blk(f, stack[j].pc)) .. stack[j].pc,
             IsHooked(o, r), r < stack[j].pc \/ j < Depth \/ dispatched
      PROVE  Seen(f, r)
  BY <1>3 DEF FrameSeen
<1>4. i \in DOMAIN stack /\ stack[i].fn = f =>
        stack[i].pc \in Ops(o) /\ stack[i].pc \in Nat
  BY <1>1, FrameAtIndex
<1>5. CASE Stays(i)
  BY <1>3, <1>5 DEF Stays
<1>6. CASE Advances(f, i)
  <2>1. PICK p : p = stack[i].pc
    OBVIOUS
  <2>2. /\ stack'[i].pc = p + 1 /\ Blk(f, p + 1) = Blk(f, p) /\ p \in Nat /\ Finished(i)
        /\ i = Depth' /\ ~dispatched' /\ i \in DOMAIN stack /\ stack[i].fn = f
    BY <1>4, <1>6, <2>1 DEF Advances
  <2>3. StartOp(o, Blk(f, p)) \in Nat
    BY <1>4, <2>1, <2>2, BlockSpan
  <2>4. ~(i < Depth')
    BY <1>1, <2>2, LenProperties DEF VMTypeOK, Depth
  <2>5. q \in StartOp(o, Blk(f, p)) .. p
    BY <2>2, <2>3, <2>4
  <2>6. q < p \/ i < Depth \/ dispatched
    BY <2>1, <2>2, <2>5 DEF Finished
  <2> QED
    BY <1>3, <2>1, <2>2, <2>5, <2>6
<1>7. CASE Leaves(f, i) \/ Begins(f, i)
  <2>1. stack'[i].pc \in Leaders(o) /\ i = Depth' /\ ~dispatched'
    BY <1>7 DEF Leaves, Begins
  <2>2. StartOp(o, Blk(f, stack'[i].pc)) = stack'[i].pc
    BY <1>2, <2>1, LeaderStarts DEF Blk
  <2>3. stack'[i].pc \in Nat /\ ~(i < Depth')
    BY <1>1, <1>2, <2>1, LeadersFinite, LenProperties DEF VMTypeOK, Depth
  <2> QED
    BY <2>1, <2>2, <2>3
<1> QED
  BY <1>1, <1>5, <1>6, <1>7, FrameGoesOn

\* An op ahead of a frame has been seen when the frame leaves the block.
LEMMA AheadOrSeen ==
  ASSUME FlowKnown, TypeOK, TypeOK', CallersAtCalls, InBlocks, VMStep, stack' # <<>>,
         NEW f \in Funcs, NoneThrown(f), NoneThrown(f)',
         FrameSeen(f), Watching(f)', \A q : Seen(f, q) => Seen(f, q)',
         NEW r \in Ops(OpArray[f]), r <= EndOp(OpArray[f], Blk(f, r)), IsHooked(OpArray[f], r),
         Ahead(f, r)
  PROVE  Seen(f, r)' \/ Ahead(f, r)'
<1> DEFINE o == OpArray[f]
<1>1. VMTypeOK /\ VMTypeOK' /\ IsOpArray(o)
  BY VMAssumption DEF TypeOK
<1>2. PICK i \in DOMAIN stack :
        stack[i].fn = f /\ Blk(f, stack[i].pc) = Blk(f, r) /\ stack[i].pc <= r
  BY DEF Ahead
<1>3. PICK p : p = stack[i].pc
  OBVIOUS
<1>4. /\ p \in Ops(o) /\ p \in Nat /\ r \in Nat /\ Blk(f, p) = Blk(f, r) /\ p <= r
      /\ StartOp(o, Blk(f, p)) \in Nat /\ StartOp(o, Blk(f, p)) <= p
  BY <1>1, <1>2, <1>3, FrameAtIndex, BlockSpan
\* The op a frame is at is seen once it is finished.
<1>5. ASSUME Finished(i), r = p
      PROVE  Seen(f, r)'
  <2>1. i < Depth \/ dispatched
    BY <1>2, <1>3, <1>5 DEF Finished
  <2>2. r \in StartOp(o, Blk(f, stack[i].pc)) .. stack[i].pc
    BY <1>3, <1>4, <1>5
  <2>3. Seen(f, r)
    BY <1>2, <2>1, <2>2 DEF FrameSeen, Ahead
  <2> QED
    BY <2>3
<1>6. ASSUME Finished(i), LastOfBlock(f, p)
      PROVE  Seen(f, r)'
  <2>1. r <= p
    BY <1>4, <1>6 DEF LastOfBlock
  <2> QED
    BY <1>4, <1>5, <1>6, <2>1
<1>7. CASE i \in DOMAIN stack'
  <2>1. stack'[i].fn = f
    <3>1. i # Depth + 1
      BY <1>1, LenProperties DEF VMTypeOK, Depth
    <3>2. stack[i] \in Frames
      BY <1>1, FrameAtIndex
    <3> QED
      BY <1>1, <1>2, <1>7, <3>1, <3>2, FrameSteps
         DEF Keeps, Moves, Enters, Throws, Catches, Frames, FrameAt
  <2>2. CASE Stays(i)
    <3>1. stack'[i] = stack[i]
      BY <2>2 DEF Stays
    <3> QED
      BY <1>2, <1>7, <3>1 DEF Ahead
  <2>3. CASE Advances(f, i)
    <3>1. Finished(i) /\ stack'[i].pc = p + 1 /\ Blk(f, p + 1) = Blk(f, p)
      BY <1>3, <2>3 DEF Advances
    <3>2. CASE r = p
      BY <1>5, <3>1, <3>2
    <3>3. CASE r # p
      <4>1. p + 1 <= r
        BY <1>4, <3>3
      <4> QED
        BY <1>4, <1>7, <2>1, <3>1, <4>1 DEF Ahead
    <3> QED
      BY <3>2, <3>3
  <2>4. CASE Leaves(f, i)
    BY <1>3, <1>6, <2>4 DEF Leaves
  <2>5. ~Begins(f, i)
    BY <1>1, LenProperties DEF Begins, VMTypeOK, Depth
  <2> QED
    BY <1>1, <1>7, <2>1, <2>2, <2>3, <2>4, <2>5, FrameGoesOn
<1>8. CASE i \notin DOMAIN stack'
  <2>1. i = Depth /\ dispatched /\ LastOfBlock(f, p) /\ Code(o, p) = "RETURN"
    BY <1>1, <1>2, <1>3, <1>8, FrameReturns
  <2>2. Finished(i)
    BY <1>2, <1>3, <2>1 DEF Finished, IsHooked
  <2> QED
    BY <1>6, <2>1, <2>2
<1> QED
  BY <1>7, <1>8

\* A frame that has not left its block keeps the ops before it in the block.
LEMMA SeenOfMove ==
  ASSUME KeysDistinct, FlowKnown, IInv, IInv', EngineInv, SeenInv, ExcInterrupted', LNext,
         stack' # <<>>, request', NEW f \in Funcs \ interrupted',
         \/ Run
         \/ \E flags \in FlagSets : StartCoverage(flags)
         \/ StopCoverage
         \/ SetFilter
  PROVE  HitSeen(f)' /\ FrameSeen(f)'
<1> DEFINE o == OpArray[f]
<1>1. TypeOK /\ TypeOK' /\ VMTypeOK /\ VMTypeOK' /\ CallersAtCalls /\ InBlocks
  BY DEF IInv, TypeOK, EngineInv
<1>2. VMStep /\ files' = files /\ request /\ ~dispatched'
  BY <1>1, MovesWatch
<1>3. f \notin interrupted
  BY HistoryStep
<1>4. stack # <<>>
  BY <1>2 DEF VMStep, Continue, Call, Return, Throw, Unwind, Bailout, Running
<1>5. HitSeen(f) /\ FrameSeen(f) /\ ExcInterrupted
  BY <1>3, <1>4 DEF SeenInv
<1>6. NoneThrown(f) /\ NoneThrown(f)'
  BY <1>3, <1>5, Uninterrupted DEF ExcInterrupted, NoneThrown
<1>7. \A q : Seen(f, q) => Seen(f, q)'
  BY <1>1, SeenKept
\* The ops of the blocks hit are in the function, up to the end of their blocks.
<1>8. ASSUME SlotOf(f) \in DOMAIN files, NEW b \in files[SlotOf(f)].block_hit, NEW q \in Span(f, b)
      PROVE  q \in Ops(o) /\ Blk(f, q) = b /\ q <= EndOp(o, Blk(f, q))
  <2>1. files[SlotOf(f)].fn \in Funcs
    BY <1>1, <1>8 DEF TypeOK, Runtimes
  <2>2. b \in BlocksOf(files[SlotOf(f)].fn) /\ SlotOf(f) = SlotOf(files[SlotOf(f)].fn)
    BY <1>8 DEF IInv, RuntimesOwned
  <2>3. files[SlotOf(f)].fn = f
    BY <2>1, <2>2 DEF KeysDistinct
  <2>4. b \in Blocks(o) /\ IsOpArray(o)
    BY <2>2, <2>3, VMAssumption DEF BlocksOf, Analysis, Analyse, Blocks
  <2>5. EndOp(o, b) \in BlockOps(o, b) /\ StartOp(o, b) \in BlockOps(o, b)
    BY <2>4, EndOfBlock, BlockIsRun
  <2>6. StartOp(o, b) .. EndOp(o, b) \subseteq BlockOps(o, b)
    BY <2>4, <2>5, BlockIsRun
  <2>7. q \in BlockOps(o, b)
    BY <1>8, <2>6 DEF Span
  <2>8. q \in Ops(o) /\ Blk(f, q) = b
    BY <2>7 DEF BlockOps, Blk
  <2>9. q <= EndOp(o, b)
    BY <1>8 DEF Span
  <2> QED
    BY <2>8, <2>9
\* If no op is ahead of a frame, the blocks hit have been seen, and so they stay.
<1>9. ASSUME \A q : ~Ahead(f, q)
      PROVE  HitSeen(f)'
  BY <1>2, <1>5, <1>7, <1>9 DEF HitSeen
<1>10. CASE Watching(f) /\ Watching(f)'
  <2>1. FrameSeen(f)'
    BY <1>1, <1>2, <1>5, <1>6, <1>7, <1>10, FramesSee
  <2>2. HitSeen(f)'
    <3> SUFFICES ASSUME SlotOf(f) \in DOMAIN files, NEW b \in files[SlotOf(f)].block_hit,
                        NEW q \in Span(f, b), IsHooked(o, q)
                 PROVE  Seen(f, q)' \/ Ahead(f, q)'
      BY <1>2 DEF HitSeen
    <3>1. q \in Ops(o) /\ Blk(f, q) = b /\ q <= EndOp(o, Blk(f, q))
      BY <1>8
    <3>2. CASE Seen(f, q)
      BY <1>7, <3>2
    <3>3. CASE Ahead(f, q)
      BY <1>1, <1>2, <1>5, <1>6, <1>7, <1>10, <3>1, <3>3, AheadOrSeen
    <3> QED
      BY <1>5, <3>2, <3>3 DEF HitSeen
  <2> QED
    BY <2>1, <2>2
<1>11. CASE ~Watching(f) /\ ~Watching(f)'
  BY <1>9, <1>11 DEF Ahead, FrameSeen
<1>12. CASE AfterInternalCall /\ ~Open(f)
  <2>1. ~Open(f)'
    BY <1>1, <1>12, InternalCallMoves
  <2> QED
    BY <1>9, <1>12, <2>1 DEF Ahead, Open, FrameSeen
<1>13. CASE /\ AfterInternalCall /\ Open(f) /\ coverage_active' /\ UNCHANGED filterVars
            /\ start_floors' = LowerFloors /\ f \notin DOMAIN start_floors
            /\ Cardinality(OpsInFlight(f)) <= 1
            /\ ~Watching(f) /\ Watching(f)'
  <2>1. HitSeen(f)'
    BY <1>9, <1>13 DEF Ahead
  <2>2. Wanted(FileOf[f])
    BY <1>13 DEF Watching, Wanted, filterVars
  <2>3. PICK c \in DOMAIN stack : stack[c].fn = f
    BY <1>13 DEF Open
  <2>4. PICK p : p = stack[c].pc
    OBVIOUS
  <2>5. \A j \in DOMAIN stack : stack[j].fn = f => stack[j].pc = p
    <3>1. \A j \in DOMAIN stack : stack[j].fn = f => stack[j].pc \in OpsInFlight(f)
      BY <2>2 DEF OpsInFlight
    <3>2. IsFiniteSet(OpsInFlight(f)) /\ Cardinality(OpsInFlight(f)) <= 1
      BY <1>1, <1>13, InFlightFinite
    <3> QED
      BY <2>3, <2>4, <3>1, <3>2, AtMostOne
  <2>6. f \in DOMAIN start_floors' /\ start_floors'[f] = p
    <3>1. p \in OpsInFlight(f)
      BY <2>2, <2>3, <2>4 DEF OpsInFlight
    <3>2. f \in DOMAIN LowerFloors
      BY <3>1 DEF LowerFloors, InFlight
    <3>3. LowerFloors[f] \in OpsInFlight(f)
      BY <1>1, <1>13, <3>2, LowerFloorsFrom
    <3>4. LowerFloors[f] = p
      BY <2>5, <3>3 DEF OpsInFlight
    <3> QED
      BY <1>13, <3>2, <3>4
  <2>7. p \in Ops(o) /\ p <= EndOp(o, Blk(f, p)) /\ p \in Nat /\ StartOp(o, Blk(f, p)) \in Nat
    BY <1>1, <2>3, <2>4, FrameAtIndex, BlockSpan DEF InBlocks, Blk
  <2>8. \A q \in StartOp(o, Blk(f, p)) .. p : Seen(f, q)'
    <3>1. \A q \in StartOp(o, Blk(f, p)) .. p : Blk(f, q) = Blk(f, p) /\ q <= p
      BY <2>7, BlockSpan
    <3>2. p \in Span(f, Blk(f, p))
      BY <2>7, BlockSpan
    <3> QED
      BY <2>6, <3>1, <3>2 DEF Seen
  <2>9. FrameSeen(f)'
    <3> SUFFICES ASSUME NEW i \in DOMAIN stack', stack'[i].fn = f,
                        NEW q \in StartOp(o, Blk(f, stack'[i].pc)) .. stack'[i].pc,
                        q < stack'[i].pc \/ i < Depth'
                 PROVE  Seen(f, q)'
      BY <1>2 DEF FrameSeen
    <3>1. i \in DOMAIN stack /\ stack[i].fn = f /\ stack[i].pc = p /\ Depth' = Depth
      BY <1>1, <1>13, <2>5, InternalCallMoves
    <3>2. CASE Stays(i)
      <4>1. stack'[i].pc = p
        BY <3>1, <3>2 DEF Stays
      <4> QED
        BY <2>8, <4>1
    <3>3. CASE Advances(f, i)
      <4>1. stack'[i].pc = p + 1 /\ Blk(f, p + 1) = Blk(f, p) /\ i = Depth'
        BY <3>1, <3>3 DEF Advances
      <4>2. ~(i < Depth')
        BY <1>1, <4>1, LenProperties DEF VMTypeOK, Depth
      <4>3. q \in StartOp(o, Blk(f, p)) .. p
        BY <2>7, <4>1, <4>2
      <4> QED
        BY <2>8, <4>3
    <3>4. CASE Leaves(f, i)
      <4>1. stack'[i].pc \in Leaders(o) /\ i = Depth'
        BY <3>4 DEF Leaves
      <4>2. StartOp(o, Blk(f, stack'[i].pc)) = stack'[i].pc /\ stack'[i].pc \in Nat
        BY <4>1, LeaderStarts, LeadersFinite, VMAssumption DEF Blk
      <4>3. ~(i < Depth')
        BY <1>1, <4>1, LenProperties DEF VMTypeOK, Depth
      <4> QED
        BY <4>2, <4>3
    <3>5. ~Begins(f, i)
      BY <1>1, <3>1, LenProperties DEF Begins, VMTypeOK, Depth
    <3> QED
      BY <1>1, <1>2, <1>6, <3>2, <3>3, <3>4, <3>5, FrameGoesOn
  <2> QED
    BY <2>1, <2>9
<1>14. coverage_active' /\ UNCHANGED filterVars /\ Watching(f) => Watching(f)'
  BY DEF Watching, Wanted, filterVars
<1> HIDE DEF o
<1> QED
  BY <1>1, <1>10, <1>11, <1>12, <1>13, <1>14, MovesWatch

\* The handler marks the block of the op it runs for, and the op runs.
LEMMA SeenOfDispatch ==
  ASSUME KeysDistinct, FlowKnown, IInv, IInv', EngineInv, SeenInv, LNext,
         Dispatch, request', NEW f \in Funcs \ interrupted'
  PROVE  HitSeen(f)' /\ FrameSeen(f)'
<1> DEFINE o == OpArray[f]
<1>1. TypeOK /\ TypeOK' /\ VMTypeOK /\ CallersAtCalls /\ InBlocks /\ VMDispatch
  BY DEF IInv, TypeOK, EngineInv, Dispatch
<1>2. /\ stack # <<>> /\ stack' = stack /\ ~dispatched /\ dispatched' /\ Depth' = Depth
      /\ Top.exc \/ Code(OpArray[Top.fn], Top.pc) # "NOP"
  BY <1>1 DEF VMDispatch, Hooked, Depth, CurrentOp, Code
<1>3. UNCHANGED <<coverage_active, filterVars, start_floors>>
  BY DEF Dispatch, MarkReturnsEarly, MarkReprimesSlot, MarkRecords, recorderVars, sessionVars
<1>4. Watching(f)' <=> Watching(f)
  BY <1>3 DEF Watching, Wanted, filterVars
<1>5. f \notin interrupted
  BY HistoryStep
<1>6. HitSeen(f) /\ FrameSeen(f) /\ NoneThrown(f)
  BY <1>2, <1>5, Uninterrupted DEF SeenInv
<1>7. \A q : Seen(f, q) => Seen(f, q)'
  BY <1>1, SeenKept
<1>8. \A q : Ahead(f, q) => Ahead(f, q)'
  BY <1>2, <1>4 DEF Ahead
<1>9. /\ Depth \in DOMAIN stack /\ Depth \in Nat /\ DOMAIN stack = 1 .. Depth /\ Top = stack[Depth]
      /\ Top.fn \in Funcs /\ Top.pc \in Ops(OpArray[Top.fn])
  BY <1>1, <1>2, TopFrame DEF Top
<1>10. FrameSeen(f)'
  <2> SUFFICES ASSUME Watching(f), NEW i \in DOMAIN stack, stack[i].fn = f,
                      NEW q \in StartOp(o, Blk(f, stack[i].pc)) .. stack[i].pc,
                      IsHooked(o, q)
               PROVE  Seen(f, q)'
    BY <1>2, <1>4 DEF FrameSeen
  <2>1. CASE q < stack[i].pc \/ i < Depth
    BY <1>6, <1>7, <2>1 DEF FrameSeen
  <2>2. CASE ~(q < stack[i].pc) /\ ~(i < Depth)
    <3>1. i = Depth
      BY <1>9, <2>2
    <3>2. stack[i].pc \in Nat /\ StartOp(o, Blk(f, stack[i].pc)) \in Nat
      BY <1>1, FrameAtIndex, BlockSpan
    <3>3. q = stack[i].pc
      BY <2>2, <3>2
    <3>4. ~Top.exc /\ Top.fn = f /\ Top.pc = q
      BY <1>6, <1>9, <3>1, <3>3 DEF NoneThrown
    <3>5. <<f, q>> \in RanNow
      BY <1>2, <3>4 DEF RanNow, Watching
    <3>6. <<f, q>> \in ran'
      BY <3>5 DEF LNext
    <3> QED
      BY <3>6 DEF Seen
  <2> QED
    BY <2>1, <2>2
<1>11. HitSeen(f)'
  <2> SUFFICES ASSUME SlotOf(f) \in DOMAIN files', NEW b \in files'[SlotOf(f)].block_hit,
                      NEW q \in Span(f, b), IsHooked(o, q)
               PROVE  Seen(f, q)' \/ Ahead(f, q)'
    BY DEF HitSeen
  <2>1. CASE SlotOf(f) \in DOMAIN files /\ b \in files[SlotOf(f)].block_hit
    BY <1>6, <1>7, <1>8, <2>1 DEF HitSeen
  <2>2. CASE ~(SlotOf(f) \in DOMAIN files /\ b \in files[SlotOf(f)].block_hit)
    <3>1. files' # files
      BY <2>2
    <3>2. MarkRecords
      BY <3>1 DEF Dispatch, MarkReturnsEarly, MarkReprimesSlot, recorderVars, dataVars
    <3> DEFINE c == Analysis[Top.fn].op_to_block[Top.pc]
    <3>3. Top.fn = f /\ files'[SlotOf(f)] = AfterMark(f, c)
      BY <1>1, <2>2, <3>2, MarkedTable
    <3>4. c \in BlocksOf(f) /\ c = Blk(f, Top.pc)
      BY <1>1, <3>3, DispatchedBlock DEF Blk
    <3>5. AfterMark(f, c).block_hit = RuntimeFor(f).block_hit \cup {c}
      BY <1>1, <3>4, MarkedRuntime
    <3>6. b = Blk(f, Top.pc)
      BY <2>2, <3>3, <3>4, <3>5 DEF RuntimeFor
    <3>7. Watching(f) /\ Watching(f)'
      BY <1>4, <3>2, <3>3 DEF MarkRecords, ReachesAnalysis, Watching
    <3>8. q \in Ops(o) /\ Blk(f, q) = b /\ q \in Nat /\ Top.pc \in Nat
          /\ q >= StartOp(o, b) /\ StartOp(o, b) \in Nat
      BY <1>9, <3>3, <3>6, BlockSpan DEF Span
    <3>9. CASE q <= Top.pc
      <4>1. q \in StartOp(o, Blk(f, stack'[Depth].pc)) .. stack'[Depth].pc
        BY <1>2, <1>9, <3>6, <3>8, <3>9
      <4>2. Depth \in DOMAIN stack' /\ stack'[Depth].fn = f
        BY <1>2, <1>9, <3>3
      <4> QED
        BY <1>2, <1>10, <3>7, <4>1, <4>2 DEF FrameSeen
    <3>10. CASE Top.pc < q
      BY <1>2, <1>9, <3>3, <3>6, <3>7, <3>8, <3>10 DEF Ahead
    <3> QED
      BY <3>8, <3>9, <3>10
  <2> QED
    BY <2>1, <2>2
<1> QED
  BY <1>10, <1>11

LEMMA SeenInvStep ==
  ASSUME KeysDistinct, FlowKnown, IInv, IInv', EngineInv, SeenInv, [LNext]_allVars
  PROVE  SeenInv'
<1>1. TypeOK /\ TypeOK' /\ CallersAtCalls
  BY DEF IInv, EngineInv
<1>2. ExcInterrupted'
  BY <1>1, ExcStep DEF SeenInv
<1>3. FloorsAtCalls'
  BY <1>1, FloorsAtCallsStep, LinesOfNext DEF SeenInv
<1>4. SUFFICES ASSUME stack' # <<>>, NEW f \in Funcs \ interrupted'
               PROVE  HitSeen(f)' /\ FrameSeen(f)'
  BY <1>2, <1>3 DEF SeenInv
<1>5. request'
  BY <1>1, <1>4 DEF TypeOK, VMTypeOK
<1>6. CASE LNext
  <2>1. CASE Dispatch
    BY <1>5, <1>6, <2>1, SeenOfDispatch
  <2>2. CASE Run \/ (\E flags \in FlagSets : StartCoverage(flags)) \/ StopCoverage \/ SetFilter
    BY <1>2, <1>4, <1>5, <1>6, <2>2, SeenOfMove
  <2>3. CASE RInit
    <3>1. DOMAIN files' = {} /\ ~coverage_active'
      BY <2>3, EmptyFunction DEF RInit
    <3> QED
      BY <3>1 DEF HitSeen, FrameSeen, Watching
  <2>4. CASE RShutdown
    BY <1>5, <2>4 DEF RShutdown, VMEndRequest
  <2> QED
    BY <1>6, <2>1, <2>2, <2>3, <2>4 DEF LNext, Next
<1>7. CASE UNCHANGED allVars
  <2>1. HitSeen(f) /\ FrameSeen(f)
    BY <1>4, <1>7 DEF SeenInv, allVars, vars, vmVars, historyVars
  <2>2. /\ UNCHANGED <<stack, dispatched, coverage_active, files, start_floors, ran>>
        /\ UNCHANGED <<filter_active, filter_includes, filter_excludes>>
    BY <1>7 DEF allVars, vars, vmVars, filterVars, recorderVars, sessionVars, dataVars, historyVars
  <2>3. Depth' = Depth
    BY <2>2 DEF Depth
  <2>4. \A q : Seen(f, q)' <=> Seen(f, q)
    BY <2>2 DEF Seen
  <2>5. Watching(f)' <=> Watching(f)
    BY <2>2 DEF Watching, Wanted
  <2>6. \A q : Ahead(f, q)' <=> Ahead(f, q)
    BY <2>2, <2>5 DEF Ahead
  <2> QED
    BY <2>1, <2>2, <2>3, <2>4, <2>5, <2>6 DEF HitSeen, FrameSeen
<1> QED
  BY <1>6, <1>7

LEMMA SeenInvInit == LInit => SeenInv
BY EmptyFunction DEF LInit, Init, VMInit, SeenInv, ExcInterrupted, FloorsAtCalls

\* At a collection, what the clamps leave of a function watched whole has run.
LEMMA ReportedIsSeen ==
  ASSUME KeysDistinct, FlowKnown, CallsPrepared, IInv, EngineInv, SeenInv, AtCollection,
         NEW f \in Funcs \ interrupted, Cardinality(OpsInFlight(f)) <= 1,
         NEW e \in ReportedEntries(f)
  PROVE  <<f, e.op>> \in ran
<1> DEFINE o == OpArray[f]
<1>1. TypeOK /\ VMTypeOK /\ CallersAtCalls /\ InBlocks /\ stack # <<>>
  BY DEF IInv, TypeOK, EngineInv, AtCollection
<1>2. HitSeen(f) /\ FrameSeen(f)
  BY <1>1 DEF SeenInv
<1>3. PICK b \in files[SlotOf(f)].block_hit :
        /\ e \in Analysis[f].lines[b]
        /\ ~PastFrontier(f, b, e.op) /\ ~BeforeFloor(f, b, e.op)
        /\ SlotOf(f) \in DOMAIN files /\ files[SlotOf(f)].fn = f
  BY DEF ReportedEntries
<1>4. b \in Blocks(o) /\ IsOpArray(o)
  BY <1>3, VMAssumption DEF IInv, RuntimesOwned, BlocksOf, Analysis, Analyse, Blocks
<1>5. /\ Analysis[f].start_op[b] = StartOp(o, b)
      /\ Analysis[f].end_op[b] = EndOp(o, b)
      /\ Analysis[f].lines[b] = LineEntries(o, b)
  BY <1>4 DEF Analysis, Analyse
<1>6. PICK q : q = e.op
  OBVIOUS
<1>7. /\ q \in LineOps(o) /\ q \in StartOp(o, b) .. EndOp(o, b)
      /\ ~(/\ q - 1 \in LineOps(o) /\ q - 1 \in StartOp(o, b) .. EndOp(o, b)
           /\ Line(o, q - 1) = Line(o, q))
  BY <1>3, <1>4, <1>5, <1>6, EntryIsLineOp
<1>8. StartOp(o, b) .. EndOp(o, b) \subseteq BlockOps(o, b) /\ StartOp(o, b) \in Nat /\ EndOp(o, b) \in Nat
  <2>1. EndOp(o, b) \in BlockOps(o, b) /\ StartOp(o, b) \in BlockOps(o, b)
    BY <1>4, EndOfBlock, BlockIsRun
  <2>2. BlockOps(o, b) \subseteq Nat
    BY <1>4, LeadersFinite DEF BlockOps, Ops
  <2> QED
    BY <1>4, <2>1, <2>2, BlockIsRun
<1>9. q \in BlockOps(o, b) /\ q \in Ops(o) /\ Blk(f, q) = b /\ IsHooked(o, q) /\ q \in Nat
  BY <1>7, <1>8 DEF BlockOps, Blk, IsHooked, LineOps, LineIrrelevant
<1>10. Seen(f, q) => <<f, q>> \in ran
  <2> SUFFICES ASSUME f \in DOMAIN start_floors, start_floors[f] \in Span(f, b), q <= start_floors[f]
               PROVE  FALSE
    BY <1>9 DEF Seen
  <2>1. ~(q < start_floors[f])
    BY <1>3, <1>5, <1>6 DEF BeforeFloor, Span
  <2>2. q = start_floors[f]
    BY <1>8, <1>9, <2>1 DEF Span
  <2>3. Code(o, q) \in {"CALL", "ICALL"}
    BY <2>2 DEF SeenInv, FloorsAtCalls
  <2>4. q - 1 \in LineOps(o) /\ OpToBlock(o)[q - 1] = OpToBlock(o)[q] /\ Line(o, q - 1) = Line(o, q)
    BY <1>9, <2>3 DEF CallsPrepared
  <2>5. q - 1 \in BlockOps(o, b)
    BY <1>9, <2>4 DEF BlockOps, Blk, LineOps
  <2>6. StartOp(o, b) <= q - 1
    BY <1>4, <2>5, BlockIsRun
  <2>7. q - 1 \in StartOp(o, b) .. EndOp(o, b)
    BY <1>7, <1>8, <1>9, <2>6
  <2> QED
    BY <1>7, <2>4, <2>7
<1>11. CASE Ahead(f, q)
  <2>1. PICK i \in DOMAIN stack : stack[i].fn = f /\ Blk(f, stack[i].pc) = b /\ stack[i].pc <= q
    BY <1>9, <1>11 DEF Ahead
  <2>2. PICK p : p = stack[i].pc
    OBVIOUS
  <2>3. /\ p \in Ops(o) /\ p \in Nat /\ p <= EndOp(o, b) /\ StartOp(o, b) <= p
    BY <1>1, <2>1, <2>2, FrameAtIndex, BlockSpan DEF InBlocks, Blk
  <2>4. coverage_active /\ Wanted(FileOf[f])
    BY <1>11 DEF Ahead, Watching
  <2>5. p \in OpsInFlight(f)
    BY <2>1, <2>2, <2>4 DEF OpsInFlight
  <2>6. f \in DOMAIN Frontiers /\ Frontiers[f] = Greatest(OpsInFlight(f))
    BY <2>4, <2>5 DEF Frontiers, InFlight
  <2>7. \A x \in OpsInFlight(f) : x = p
    BY <1>1, <2>5, InFlightFinite, AtMostOne
  <2>8. Greatest(OpsInFlight(f)) = p
    <3>1. PICK S : S = OpsInFlight(f)
      OBVIOUS
    <3>2. \E x \in S : \A y \in S : y <= x
      BY <2>3, <2>5, <2>7, <3>1
    <3>3. (CHOOSE x \in S : \A y \in S : y <= x) \in S
      BY <3>2, Zenon
    <3>4. (CHOOSE x \in S : \A y \in S : y <= x) = p
      BY <2>7, <3>1, <3>3
    <3> QED
      BY <3>1, <3>4 DEF Greatest
  <2>9. ~(q > p)
    BY <1>3, <1>5, <1>6, <1>8, <2>3, <2>6, <2>8 DEF PastFrontier
  <2>10. q = p
    BY <1>9, <2>1, <2>2, <2>3, <2>9
  <2>11. i < Depth \/ dispatched
    <3>1. dispatched
      BY DEF AtCollection, Running
    <3> QED
      BY <3>1
  <2>12. Seen(f, q)
    BY <1>2, <1>9, <1>11, <2>1, <2>2, <2>3, <2>10, <2>11 DEF FrameSeen, Ahead
  <2> QED
    BY <1>6, <1>10, <2>12
<1> QED
  BY <1>2, <1>3, <1>6, <1>7, <1>9, <1>10, <1>11 DEF HitSeen, Span

(* Line-exactness: where the analysis knows all jumps and calls are prepared *)
(* on their line, a line is reported of a function that was not interrupted, *)
(* and of which at most one op is in flight, only if it ran.                 *)
THEOREM LinesInventedOnlyIfInterrupted ==
  ASSUME KeysDistinct, FlowKnown, CallsPrepared
  PROVE  LSpec => []InventedOnlyIfInterrupted
<1> DEFINE Inv == EngineInv /\ SeenInv
<1>1. LInit => Inv
  BY EngineInvInit, SeenInvInit
<1>2. IInv /\ IInv' /\ Inv /\ [LNext]_allVars => Inv'
  BY EngineInvStep, SeenInvStep, FlowLands DEF IInv
<1>3. IInv /\ Inv => InventedOnlyIfInterrupted
  BY ReportedIsSeen DEF InventedOnlyIfInterrupted
<1> QED
  BY <1>1, <1>2, <1>3, RecorderSound, PTL DEF LSpec

-----------------------------------------------------------------------------
(* The edges recorded were traversed.                                        *)

\* The handler is called for no op of p's block before p.
Fresh(f, p) == \A q \in StartOp(OpArray[f], Blk(f, p)) .. p - 1 : ~IsHooked(OpArray[f], q)

OnlyExit(f, b) == \A i \in DOMAIN Analysis[f].outs[b] : Analysis[f].outs[b][i] = EXIT

Recording(f) == coverage_active /\ Branching /\ Wanted(FileOf[f])

SlotLive ==
  request /\ coverage_active /\ edge_last.frame # 0 => Branching /\ files[edge_last.rt].edge_buf

\* The frame of the edge slot is in the slot's block, or has just left it.
SlotFollows(f) ==
  LET d == edge_last.frame
      from == edge_last.block
  IN  /\ d \in DOMAIN stack /\ stack[d].fn = f /\ Recording(f)
      /\ \/ Blk(f, stack[d].pc) = from
         \/ /\ d = Depth /\ ~dispatched /\ Fresh(f, stack[d].pc)
            /\ <<from, Blk(f, stack[d].pc)>> \in Traversed(f)

SlotTrue(f) ==
  coverage_active /\ edge_last.frame # 0 /\ edge_last.rt = SlotOf(f) =>
    Saturated(f) \/ OnlyExit(f, edge_last.block) \/ SlotFollows(f)

EdgesTrue(f) ==
  SlotOf(f) \in DOMAIN files => \A e \in files[SlotOf(f)].edge_hit :
    <<e[1], Analysis[f].outs[e[1]][e[2]]>> \in Traversed(f)

EdgeInv ==
  /\ ExcInterrupted /\ SlotLive
  /\ \A f \in Funcs \ interrupted : EdgesTrue(f) /\ (stack # <<>> => SlotTrue(f))

LEMMA SameFunction ==
  ASSUME VMTypeOK, VMTypeOK', CallersAtCalls, VMStep,
         NEW i \in DOMAIN stack, i \in DOMAIN stack'
  PROVE  stack'[i].fn = stack[i].fn
<1>1. i # Depth + 1
  BY LenProperties DEF VMTypeOK, Depth
<1>2. stack[i] \in Frames
  BY FrameAtIndex
<1> QED
  BY <1>1, <1>2, FrameSteps DEF Keeps, Moves, Enters, Throws, Catches, Frames, FrameAt

LEMMA TraversedKept ==
  ASSUME [LNext]_allVars, request', NEW f
  PROVE  Traversed(f) \subseteq Traversed(f)'
<1>1. moved \subseteq moved'
  BY HistoryStep
<1> QED
  BY <1>1 DEF Traversed

\* A frame that goes on in a branch session leaves its move behind.
LEMMA MoveTraversed ==
  ASSUME VMTypeOK, VMTypeOK', CallersAtCalls, VMStep, LNext, request', NEW f \in Funcs,
         Recording(f), NEW i \in DOMAIN stack, i \in DOMAIN stack', stack[i].fn = f,
         Blk(f, stack[i].pc) # Blk(f, stack'[i].pc)
  PROVE  <<Blk(f, stack[i].pc), Blk(f, stack'[i].pc)>> \in Traversed(f)'
<1>1. PICK p : p = stack[i].pc
  OBVIOUS
<1>2. PICK q : q = stack'[i].pc
  OBVIOUS
<1>3. p # q
  BY <1>1, <1>2
<1>4. <<f, p, q>> \in MovedNow
  BY <1>1, <1>2, <1>3 DEF MovedNow, Recording
<1>5. <<f, p, q>> \in moved'
  BY <1>4 DEF LNext
<1>6. p \in Ops(OpArray[f]) /\ q \in Ops(OpArray[f])
  <2>1. stack'[i].fn = f
    BY SameFunction
  <2> QED
    BY <1>1, <1>2, <2>1 DEF VMTypeOK
<1>7. Analysis[f].op_to_block[p] = Blk(f, p) /\ Analysis[f].op_to_block[q] = Blk(f, q)
  BY <1>6, AnalysisFacts DEF Blk
<1>8. <<Analysis[f].op_to_block[p], Analysis[f].op_to_block[q]>> \in Traversed(f)'
  <2>1. \A m \in moved' : m[1] = f =>
          <<Analysis[f].op_to_block[m[2]], Analysis[f].op_to_block[m[3]]>> \in Traversed(f)'
    BY DEF Traversed
  <2>2. <<f, p, q>>[1] = f /\ <<f, p, q>>[2] = p /\ <<f, p, q>>[3] = q
    OBVIOUS
  <2> QED
    BY <1>5, <2>1, <2>2
<1> QED
  BY <1>1, <1>2, <1>7, <1>8

LEMMA ReturnOnlyExits ==
  ASSUME NEW f \in Funcs, NEW p \in Ops(OpArray[f]),
         LastOfBlock(f, p), Code(OpArray[f], p) = "RETURN"
  PROVE  OnlyExit(f, Blk(f, p))
<1> DEFINE o == OpArray[f]
           b == Blk(f, p)
           js == Jumps(o, EndOp(o, b))
<1>1. b \in Blocks(o) /\ IsOpArray(o) /\ EndOp(o, b) = p
  BY BlockSpan DEF LastOfBlock
<1>2. IsControlFlow(o, EndOp(o, b)) /\ js = <<EXIT>>
  BY <1>1 DEF IsControlFlow, ControlFlow, Jumps
<1>3. \A i \in Kept(o, js) : js[i] = EXIT
  BY <1>2 DEF Kept
<1>4. \A k \in DOMAIN Outs(o, b) :
        Nth(Kept(o, js), k) \in Kept(o, js) /\ Outs(o, b)[k] = BlockOrExit(o, js[Nth(Kept(o, js), k)])
  BY <1>1, <1>2, OutsOfJumps
<1>5. Analysis[f].outs[b] = Outs(o, b)
  BY <1>1 DEF Analysis, Analyse
<1> QED
  BY <1>3, <1>4, <1>5 DEF OnlyExit, BlockOrExit

\* The handler has been called before control leaves a block.
LEMMA LeftNotFresh ==
  ASSUME BlocksHooked, NEW f \in Funcs, NEW p \in Ops(OpArray[f]), LastOfBlock(f, p), Fresh(f, p)
  PROVE  IsHooked(OpArray[f], p)
<1> DEFINE o == OpArray[f]
           b == Blk(f, p)
<1>1. b \in Blocks(o) /\ EndOp(o, b) = p /\ p \in Nat /\ StartOp(o, b) \in Nat
  BY BlockSpan DEF LastOfBlock
<1>2. PICK q \in StartOp(o, b) .. p : IsHooked(o, q)
  BY <1>1 DEF BlocksHooked
<1>3. q \notin StartOp(o, b) .. p - 1
  BY <1>2 DEF Fresh
<1> QED
  BY <1>1, <1>2, <1>3

LEMMA FreshAtLeader ==
  ASSUME NEW f \in Funcs, NEW p \in Leaders(OpArray[f])
  PROVE  Fresh(f, p)
<1>1. StartOp(OpArray[f], Blk(f, p)) = p /\ p \in Nat
  BY VMAssumption, LeaderStarts, LeadersFinite DEF Blk
<1> QED
  BY <1>1 DEF Fresh

LEMMA FreshAdvances ==
  ASSUME NEW f \in Funcs, NEW p \in Ops(OpArray[f]), Blk(f, p + 1) = Blk(f, p),
         Fresh(f, p), ~IsHooked(OpArray[f], p)
  PROVE  Fresh(f, p + 1)
<1>1. p \in Nat /\ StartOp(OpArray[f], Blk(f, p)) \in Nat
  BY BlockSpan
<1> QED
  BY <1>1 DEF Fresh

\* The frame of the slot moves, while it is watched.
LEMMA SlotMoves ==
  ASSUME FlowKnown, BlocksHooked, TypeOK, TypeOK', CallersAtCalls, InBlocks, VMStep, LNext,
         request', stack' # <<>>, NEW f \in Funcs, NoneThrown(f), NoneThrown(f)',
         Recording(f)', UNCHANGED edge_last, SlotFollows(f)
  PROVE  SlotFollows(f)' \/ OnlyExit(f, edge_last.block)'
<1>1. PICK d : d = edge_last.frame
  OBVIOUS
<1>2. PICK from : from = edge_last.block
  OBVIOUS
<1>3. VMTypeOK /\ VMTypeOK'
  BY DEF TypeOK
<1>4. PICK p : p = stack[d].pc
  OBVIOUS
<1>5. /\ d \in DOMAIN stack /\ stack[d].fn = f /\ Recording(f) /\ edge_last'.frame = d
      /\ edge_last'.block = from
      /\ \/ Blk(f, p) = from
         \/ d = Depth /\ ~dispatched /\ Fresh(f, p) /\ <<from, Blk(f, p)>> \in Traversed(f)
  BY <1>1, <1>2, <1>4 DEF SlotFollows
<1>6. p \in Ops(OpArray[f]) /\ p \in Nat
  BY <1>3, <1>4, <1>5, FrameAtIndex
<1>7. Depth \in Nat /\ DOMAIN stack = 1 .. Depth
  BY <1>3, LenProperties DEF VMTypeOK, Depth
<1>8. CASE d \notin DOMAIN stack'
  <2>1. d = Depth /\ dispatched /\ LastOfBlock(f, p) /\ Code(OpArray[f], p) = "RETURN"
    BY <1>3, <1>4, <1>5, <1>8, FrameReturns
  <2>2. OnlyExit(f, from)
    BY <1>5, <1>6, <2>1, ReturnOnlyExits
  <2> QED
    BY <1>5, <2>2 DEF OnlyExit
<1>9. CASE d \in DOMAIN stack'
  <2>1. PICK q : q = stack'[d].pc
    OBVIOUS
  <2>2. stack'[d].fn = f
    BY <1>3, <1>5, <1>9, SameFunction
  <2>3. SUFFICES \/ Blk(f, q) = from
                 \/ /\ d = Depth' /\ ~dispatched' /\ Fresh(f, q)
                    /\ <<from, Blk(f, q)>> \in Traversed(f)'
    BY <1>5, <1>9, <2>1, <2>2 DEF SlotFollows
  <2>4. CASE Stays(d)
    <3>1. q = p /\ (d < Depth \/ dispatched)
      BY <1>4, <2>1, <2>4 DEF Stays
    <3> QED
      BY <1>5, <1>7, <3>1
  <2>5. CASE Advances(f, d)
    <3>1. /\ d = Depth' /\ ~dispatched' /\ Finished(d) /\ q = p + 1 /\ Blk(f, p + 1) = Blk(f, p)
      BY <1>4, <2>1, <2>5 DEF Advances
    <3>2. CASE Blk(f, p) = from
      BY <3>1, <3>2
    <3>3. CASE d = Depth /\ ~dispatched /\ Fresh(f, p) /\ <<from, Blk(f, p)>> \in Traversed(f)
      <4>1. ~IsHooked(OpArray[f], p)
        BY <1>4, <1>5, <1>7, <3>1, <3>3 DEF Finished
      <4>2. Fresh(f, q)
        BY <1>6, <3>1, <3>3, <4>1, FreshAdvances
      <4>3. <<from, Blk(f, q)>> \in Traversed(f)'
        BY <3>1, <3>3, TraversedKept
      <4> QED
        BY <3>1, <4>2, <4>3
    <3> QED
      BY <1>5, <3>2, <3>3
  <2>6. CASE Leaves(f, d)
    <3>1. d = Depth' /\ ~dispatched' /\ Finished(d) /\ LastOfBlock(f, p) /\ q \in Leaders(OpArray[f])
      BY <1>4, <2>1, <2>6 DEF Leaves
    <3>2. CASE Blk(f, p) = from
      <4>1. Fresh(f, q)
        BY <3>1, FreshAtLeader
      <4>2. CASE Blk(f, q) # from
        <5>1. <<from, Blk(f, q)>> \in Traversed(f)'
          BY <1>3, <1>4, <1>5, <1>9, <2>1, <3>2, <4>2, MoveTraversed
        <5> QED
          BY <3>1, <4>1, <5>1
      <4> QED
        BY <4>2
    <3>3. CASE d = Depth /\ ~dispatched /\ Fresh(f, p)
      <4>1. IsHooked(OpArray[f], p)
        BY <1>6, <3>1, <3>3, LeftNotFresh
      <4> QED
        BY <1>4, <1>5, <1>7, <3>1, <3>3, <4>1 DEF Finished
    <3> QED
      BY <1>5, <3>2, <3>3
  <2>7. ~Begins(f, d)
    BY <1>5, <1>7 DEF Begins
  <2> QED
    BY <1>3, <1>9, <2>2, <2>4, <2>5, <2>6, <2>7, FrameGoesOn
<1> QED
  BY <1>8, <1>9

\* The tables of f keep what they have, as long as the request goes on.
LEMMA EdgesTrueKept ==
  ASSUME [LNext]_allVars, request', NEW f \in Funcs, EdgesTrue(f), UNCHANGED files
  PROVE  EdgesTrue(f)'
<1>1. Traversed(f) \subseteq Traversed(f)'
  BY TraversedKept
<1> QED
  BY <1>1 DEF EdgesTrue

LEMMA SlotTrueOfMove ==
  ASSUME FlowKnown, BlocksHooked, IInv, IInv', EngineInv, EdgeInv, ExcInterrupted', LNext,
         stack' # <<>>, request', NEW f \in Funcs \ interrupted',
         \/ Run
         \/ \E flags \in FlagSets : StartCoverage(flags)
         \/ StopCoverage
         \/ SetFilter
  PROVE  SlotTrue(f)'
<1>1. TypeOK /\ TypeOK' /\ VMTypeOK /\ VMTypeOK' /\ CallersAtCalls /\ InBlocks
  BY DEF IInv, TypeOK, EngineInv
<1>2. VMStep /\ request
  BY <1>1, MovesWatch
<1>3. f \notin interrupted
  BY HistoryStep
<1>4. stack # <<>>
  BY <1>2 DEF VMStep, Continue, Call, Return, Throw, Unwind, Bailout, Running
<1>5. NoneThrown(f) /\ NoneThrown(f)' /\ SlotTrue(f)
  BY <1>3, <1>4, Uninterrupted DEF EdgeInv, ExcInterrupted, NoneThrown
<1>6. CASE \E flags \in FlagSets : StartCoverage(flags)
  <2>1. edge_last' = NoEdge
    BY <1>6 DEF StartCoverage, ResetSlots
  <2> QED
    BY <2>1 DEF SlotTrue, NoEdge
<1>7. CASE Run \/ StopCoverage \/ SetFilter
  <2>1. UNCHANGED <<edge_last, saturation, sat_generation, coverage_flags, start_floors>>
    BY <1>7 DEF Run, StopCoverage, SetFilter, recorderVars, sessionVars, slotVars, satVars
  <2>2. SUFFICES ASSUME coverage_active', edge_last.frame # 0, edge_last.rt = SlotOf(f)
                 PROVE  (Saturated(f) \/ OnlyExit(f, edge_last.block) \/ SlotFollows(f))'
    BY <2>1 DEF SlotTrue
  <2>3. coverage_active
    BY <1>7, <2>2 DEF Run, StopCoverage, SetFilter, recorderVars, sessionVars
  <2>4. CASE Saturated(f) \/ OnlyExit(f, edge_last.block)
    BY <2>1, <2>4 DEF Saturated, OnlyExit
  <2>5. CASE SlotFollows(f)
    <3>1. Open(f) /\ Recording(f)
      BY <2>5 DEF SlotFollows, Open
    <3>2. ~(AfterInternalCall /\ start_floors' = LowerFloors /\ f \notin DOMAIN start_floors)
          \/ ~Wanted(FileOf[f])'
      <4>1. SUFFICES ASSUME AfterInternalCall, start_floors' = LowerFloors,
                            f \notin DOMAIN start_floors
                     PROVE  FALSE
        OBVIOUS
      <4>2. OpsInFlight(f) # {}
        BY <3>1 DEF Open, Recording, OpsInFlight
      <4>3. f \in DOMAIN LowerFloors
        BY <4>2 DEF LowerFloors, InFlight
      <4> QED
        BY <2>1, <4>1, <4>3
    <3>3. Watching(f)' <=> Watching(f)
      BY <1>1, <1>7, <3>1, <2>1, <3>2, <2>3, MovesWatch DEF Watching, Recording, Wanted, filterVars
    <3>4. Recording(f)'
      BY <2>1, <3>1, <3>3 DEF Recording, Watching, Branching
    <3> QED
      BY <1>1, <1>2, <1>5, <2>1, <2>5, <3>4, SlotMoves
  <2> QED
    BY <1>5, <2>2, <2>3, <2>4, <2>5 DEF SlotTrue
<1> QED
  BY <1>6, <1>7

\* What the handler does in the frame it is called for.
LEMMA HandlerCases ==
  ASSUME KeysDistinct, IInv, ExcInterrupted, Dispatch
  PROVE  /\ VMDispatch /\ request /\ stack # <<>> /\ stack' = stack /\ ~dispatched /\ dispatched'
         /\ Depth' = Depth /\ Depth \in DOMAIN stack /\ Top = stack[Depth]
         /\ Top.fn \in Funcs /\ Top.pc \in Ops(OpArray[Top.fn])
         /\ Analysis[Top.fn].op_to_block[Top.pc] = Blk(Top.fn, Top.pc)
         /\ Blk(Top.fn, Top.pc) \in BlocksOf(Top.fn)
         /\ UNCHANGED <<request, coverage_active, coverage_flags, filterVars, start_floors, sat_generation>>
         /\ \/ UNCHANGED <<files, edge_last, saturation>>
            \/ MarkRecords
         /\ \/ MarkRecords
            \/ ~Watching(Top.fn)
            \/ Saturated(Top.fn)
            \/ Top.fn \in interrupted
         /\ \A f \in Funcs : Saturated(f) => Saturated(f)'
<1>1. TypeOK /\ VMDispatch
  BY DEF IInv, Dispatch
<1>2. /\ request /\ stack # <<>> /\ stack' = stack /\ ~dispatched /\ dispatched'
      /\ Depth' = Depth /\ Depth \in DOMAIN stack /\ Top = stack[Depth]
      /\ Top.fn \in Funcs /\ Top.pc \in Ops(OpArray[Top.fn]) /\ UNCHANGED request
  BY <1>1, TopFrame, DispatchedBlock DEF VMDispatch, Hooked, Depth, Top, TypeOK, VMTypeOK
<1>3. /\ Analysis[Top.fn].op_to_block[Top.pc] = Blk(Top.fn, Top.pc)
      /\ Blk(Top.fn, Top.pc) \in BlocksOf(Top.fn)
  BY <1>2, AnalysisFacts DEF Blk
<1>4. UNCHANGED <<coverage_active, coverage_flags, filterVars, start_floors, sat_generation>>
  BY DEF Dispatch, MarkReturnsEarly, MarkReprimesSlot, MarkRecords, recorderVars, sessionVars, satVars
<1>5. UNCHANGED <<files, edge_last, saturation>> \/ MarkRecords
  BY DEF Dispatch, MarkReturnsEarly, MarkReprimesSlot, recorderVars, dataVars, slotVars, satVars
<1>6. MarkRecords \/ ~Watching(Top.fn) \/ Saturated(Top.fn) \/ Top.fn \in interrupted
  <2>1. Top.exc => Top.fn \in interrupted
    BY <1>2 DEF ExcInterrupted
  <2>2. Top.fn # NoFunc
    BY <1>2, CoverageAssumption
  <2>3. coverage_active /\ sat_last_opcodes = Top.fn => Saturated(Top.fn)
    BY <1>2, <2>2 DEF IInv, FastPathSound
  <2> QED
    BY <2>1, <2>3 DEF Dispatch, MarkReturnsEarly, MarkReprimesSlot, ReachesAnalysis, Watching
<1>7. ASSUME NEW f \in Funcs, Saturated(f)
      PROVE  Saturated(f)'
  <2>1. CASE UNCHANGED saturation
    BY <1>4, <1>7, <2>1 DEF Saturated
  <2>2. CASE saturation' = [saturation EXCEPT
                ![Top.fn] = [saturated |-> TRUE, generation |-> sat_generation]]
    <3>1. DOMAIN saturation = Funcs
      BY <1>1 DEF TypeOK
    <3> QED
      BY <1>4, <1>7, <2>2, <3>1 DEF Saturated
  <2> QED
    BY <1>5, <2>1, <2>2 DEF MarkRecords
<1> QED
  BY <1>1, <1>2, <1>3, <1>4, <1>5, <1>6, <1>7

LEMMA SlotTrueOfDispatch ==
  ASSUME KeysDistinct, IInv, EdgeInv, LNext, Dispatch, NEW f \in Funcs \ interrupted'
  PROVE  SlotTrue(f)'
<1>1. PICK g : g = Top.fn
  OBVIOUS
<1>2. PICK b : b = Blk(g, Top.pc)
  OBVIOUS
<1>3. ExcInterrupted
  BY DEF EdgeInv
<1>4. /\ stack # <<>> /\ stack' = stack /\ dispatched' /\ Depth' = Depth /\ Depth \in DOMAIN stack
      /\ Top = stack[Depth] /\ g \in Funcs /\ Analysis[g].op_to_block[Top.pc] = b
      /\ request /\ request' /\ b \in BlocksOf(g)
      /\ UNCHANGED <<coverage_active, coverage_flags, filterVars, sat_generation>>
      /\ UNCHANGED <<files, edge_last, saturation>> \/ MarkRecords
      /\ MarkRecords \/ ~Watching(g) \/ Saturated(g) \/ g \in interrupted
      /\ \A h \in Funcs : Saturated(h) => Saturated(h)'
  BY <1>1, <1>2, <1>3, HandlerCases
<1>5. f \notin interrupted
  BY <1>4, HistoryStep
<1>6. SlotTrue(f) /\ SlotLive
  BY <1>4, <1>5 DEF EdgeInv
<1>7. Recording(f)' <=> Recording(f)
  BY <1>4 DEF Recording, Branching, Wanted, filterVars
\* The slot stays, and the frame is where it was.
<1>8. ASSUME UNCHANGED edge_last, SlotFollows(f),
             Saturated(f) \/ Top.fn # f \/ ~dispatched'
      PROVE  Saturated(f)' \/ SlotFollows(f)'
  <2>1. CASE Saturated(f)
    BY <1>4, <2>1
  <2>2. CASE Top.fn # f
    <3>1. edge_last.frame # Depth
      BY <1>4, <1>8, <2>2 DEF SlotFollows
    <3> QED
      BY <1>4, <1>7, <1>8, <3>1 DEF SlotFollows
  <2> QED
    BY <1>4, <1>8, <2>1, <2>2
<1>9. ASSUME UNCHANGED edge_last, Saturated(f) \/ g # f \/ ~Watching(f)
      PROVE  SlotTrue(f)'
  <2>1. SUFFICES ASSUME coverage_active', edge_last.frame # 0, edge_last.rt = SlotOf(f)
                 PROVE  (Saturated(f) \/ OnlyExit(f, edge_last.block) \/ SlotFollows(f))'
    BY <1>9 DEF SlotTrue
  <2>2. Saturated(f) \/ OnlyExit(f, edge_last.block) \/ SlotFollows(f)
    BY <1>4, <1>6, <2>1 DEF SlotTrue
  <2>3. SlotFollows(f) => Watching(f)
    BY DEF SlotFollows, Recording, Watching
  <2>4. OnlyExit(f, edge_last.block) => OnlyExit(f, edge_last.block)'
    BY <1>9 DEF OnlyExit
  <2> QED
    BY <1>1, <1>4, <1>8, <1>9, <2>2, <2>3, <2>4
<1>10. CASE ~MarkRecords
  BY <1>4, <1>5, <1>9, <1>10
<1>11. CASE MarkRecords
  <2>1. g = f => Watching(f)
    BY <1>1, <1>11 DEF MarkRecords, ReachesAnalysis, Watching
  <2>2. CASE Branching /\ RuntimeFor(g).edge_buf
    <3>1. edge_last' = [frame |-> Depth, rt |-> SlotOf(g), block |-> b]
      BY <1>1, <1>4, <1>11, <2>2 DEF MarkRecords
    <3>2. SlotOf(g) = SlotOf(f) => g = f
      BY <1>4 DEF KeysDistinct
    <3>3. CASE g # f
      BY <3>1, <3>2, <3>3 DEF SlotTrue
    <3>4. CASE g = f
      <4>1. Recording(f)
        BY <2>1, <2>2, <3>4 DEF Recording, Watching
      <4> QED
        BY <1>1, <1>2, <1>4, <1>7, <3>1, <3>4, <4>1 DEF SlotTrue, SlotFollows
    <3> QED
      BY <3>3, <3>4
  <2>3. CASE ~(Branching /\ RuntimeFor(g).edge_buf)
    <3>1. UNCHANGED edge_last
      BY <1>1, <1>11, <2>3 DEF MarkRecords
    <3>2. CASE g # f
      BY <1>9, <3>1, <3>2
    <3>3. CASE g = f
      <4>1. ~(coverage_active /\ edge_last.frame # 0 /\ edge_last.rt = SlotOf(f))
        <5>1. SUFFICES ASSUME coverage_active, edge_last.frame # 0, edge_last.rt = SlotOf(f)
                       PROVE  FALSE
          OBVIOUS
        <5>2. SlotOf(f) \in DOMAIN files
          BY <1>4, <5>1 DEF IInv, ActiveStateIsLive
        <5>3. Branching /\ files[SlotOf(f)].edge_buf
          BY <1>4, <1>6, <5>1 DEF SlotLive
        <5> QED
          BY <2>3, <3>3, <5>2, <5>3 DEF RuntimeFor
      <4> QED
        BY <1>4, <3>1, <4>1 DEF SlotTrue
    <3> QED
      BY <3>2, <3>3
  <2> QED
    BY <2>2, <2>3
<1> QED
  BY <1>10, <1>11

LEMMA EdgesTrueOfDispatch ==
  ASSUME KeysDistinct, IInv, EdgeInv, LNext, Dispatch, NEW f \in Funcs \ interrupted'
  PROVE  EdgesTrue(f)'
<1>1. PICK g : g = Top.fn
  OBVIOUS
<1>2. PICK b : b = Blk(g, Top.pc)
  OBVIOUS
<1>3. ExcInterrupted
  BY DEF EdgeInv
<1>4. /\ stack # <<>> /\ dispatched' /\ ~dispatched /\ Depth \in DOMAIN stack /\ Top = stack[Depth]
      /\ g \in Funcs /\ Analysis[g].op_to_block[Top.pc] = b
      /\ VMDispatch /\ request /\ request' /\ b \in BlocksOf(g)
      /\ UNCHANGED files \/ MarkRecords
  BY <1>1, <1>2, <1>3, HandlerCases
<1>5. f \notin interrupted
  BY <1>4, HistoryStep
<1>6. SlotTrue(f) /\ EdgesTrue(f)
  BY <1>4, <1>5 DEF EdgeInv
<1>7. Traversed(f) \subseteq Traversed(f)'
  BY <1>4, TraversedKept
<1>8. CASE UNCHANGED files
  BY <1>4, <1>6, <1>8, EdgesTrueKept
<1>9. CASE MarkRecords
  <2> SUFFICES ASSUME SlotOf(f) \in DOMAIN files', NEW e \in files'[SlotOf(f)].edge_hit
               PROVE  <<e[1], Analysis[f].outs[e[1]][e[2]]>> \in Traversed(f)'
    BY DEF EdgesTrue
  <2>1. CASE SlotOf(f) \in DOMAIN files /\ e \in files[SlotOf(f)].edge_hit
    BY <1>6, <1>7, <2>1 DEF EdgesTrue
  <2>2. CASE ~(SlotOf(f) \in DOMAIN files /\ e \in files[SlotOf(f)].edge_hit)
    <3>1. g = f /\ files'[SlotOf(f)] = AfterMark(f, b)
      BY <1>1, <1>4, <1>9, <2>2, MarkedTable
    <3>2. TypeOK
      BY DEF IInv
    <3>3. AfterMark(f, b).edge_hit =
            RuntimeFor(f).edge_hit \cup (IF Branching /\ RuntimeFor(f).edge_buf
                                         THEN EdgeTaken(f, b) ELSE {})
      BY <1>4, <3>1, <3>2, MarkedRuntime
    <3>4. e \notin RuntimeFor(f).edge_hit
      BY <2>2 DEF RuntimeFor
    <3>5. e \in EdgeTaken(f, b)
      BY <3>1, <3>3, <3>4
    <3>6. /\ edge_last.frame = Depth /\ edge_last.rt = SlotOf(f) /\ edge_last.block # b
          /\ e[1] = edge_last.block /\ e[2] \in DOMAIN Analysis[f].outs[e[1]]
          /\ Analysis[f].outs[e[1]][e[2]] = b
      BY <3>5 DEF EdgeTaken
    <3>7. coverage_active /\ ~Saturated(f)
      BY <1>1, <1>9, <3>1 DEF MarkRecords, ReachesAnalysis
    <3>8. Depth # 0
      BY <1>4, <3>2, TopFrame DEF TypeOK
    <3>9. b # EXIT
      BY <1>4, AnalysisFacts DEF EXIT
    <3>10. ~OnlyExit(f, edge_last.block)
      BY <3>6, <3>9 DEF OnlyExit
    <3>11. SlotFollows(f)
      BY <1>6, <3>6, <3>7, <3>8, <3>10 DEF SlotTrue
    <3>12. <<edge_last.block, b>> \in Traversed(f)
      BY <1>1, <1>2, <1>4, <3>1, <3>6, <3>11 DEF SlotFollows
    <3> QED
      BY <1>7, <3>6, <3>12
  <2> QED
    BY <2>1, <2>2
<1> QED
  BY <1>4, <1>8, <1>9

LEMMA SlotLiveStep ==
  ASSUME KeysDistinct, IInv, ExcInterrupted, SlotLive, [Next]_vars
  PROVE  SlotLive'
<1> SUFFICES ASSUME request', coverage_active', edge_last'.frame # 0
             PROVE  (Branching /\ files[edge_last.rt].edge_buf)'
  BY DEF SlotLive
<1>1. CASE Dispatch /\ MarkRecords
  <2>1. PICK g : g = Top.fn
    OBVIOUS
  <2>2. PICK b : b = Analysis[g].op_to_block[Top.pc]
    OBVIOUS
  <2>3. VMDispatch /\ request /\ g \in Funcs /\ b \in BlocksOf(g) /\ UNCHANGED <<coverage_active, coverage_flags>>
    BY <1>1, <2>1, <2>2, HandlerCases
  <2>4. SlotOf(g) \in DOMAIN files' /\ files'[SlotOf(g)].edge_buf = RuntimeFor(g).edge_buf
    <3>1. SlotOf(g) \in DOMAIN files'
      BY <1>1, <2>1 DEF MarkRecords
    <3>2. files'[SlotOf(g)] = AfterMark(g, b)
      BY <1>1, <2>1, <2>2, <2>3, <3>1, MarkedTable
    <3> QED
      BY <2>3, <3>1, <3>2, MarkedRuntime DEF IInv
  <2>5. CASE Branching /\ RuntimeFor(g).edge_buf
    <3>1. edge_last'.rt = SlotOf(g)
      BY <1>1, <2>1, <2>5 DEF MarkRecords
    <3> QED
      BY <2>3, <2>4, <2>5, <3>1 DEF Branching
  <2>6. CASE ~(Branching /\ RuntimeFor(g).edge_buf)
    <3>1. UNCHANGED edge_last
      BY <1>1, <2>1, <2>6 DEF MarkRecords
    <3>2. Branching /\ edge_last.rt \in DOMAIN files /\ files[edge_last.rt].edge_buf
      BY <2>3, <3>1 DEF SlotLive, IInv, ActiveStateIsLive
    <3>3. edge_last.rt # SlotOf(g)
      BY <2>6, <3>2 DEF RuntimeFor
    <3>4. files'[edge_last.rt] = files[edge_last.rt]
      BY <1>1, <2>1, <3>2, <3>3 DEF MarkRecords
    <3> QED
      BY <2>3, <3>1, <3>2, <3>4 DEF Branching
  <2> QED
    BY <2>5, <2>6
<1>2. CASE UNCHANGED <<request, coverage_active, coverage_flags, files, edge_last>>
  BY <1>2 DEF SlotLive, Branching
<1>3. CASE Dispatch /\ ~MarkRecords
  BY <1>2, <1>3, HandlerCases
<1>4. CASE VMStep /\ UNCHANGED <<coverage_active, coverage_flags, files, edge_last>>
  BY <1>2, <1>4, VMStepRequest
<1>5. CASE Run \/ SetFilter
  BY <1>4, <1>5, StepOfCall DEF Run, SetFilter, recorderVars, sessionVars, dataVars, slotVars
<1>6. CASE StopCoverage \/ RInit \/ RShutdown
  BY <1>6 DEF StopCoverage, RInit, RShutdown, VMEndRequest
<1>7. CASE \E flags \in FlagSets : StartCoverage(flags)
  <2>1. edge_last' = NoEdge
    BY <1>7 DEF StartCoverage, ResetSlots
  <2> QED
    BY <2>1 DEF NoEdge
<1>8. CASE UNCHANGED vars
  BY <1>2, <1>8 DEF vars, vmVars, recorderVars, sessionVars, dataVars, slotVars
<1> QED
  BY <1>1, <1>3, <1>5, <1>6, <1>7, <1>8 DEF Next

LEMMA EdgeInvStep ==
  ASSUME KeysDistinct, FlowKnown, BlocksHooked, IInv, IInv', EngineInv, EdgeInv, [LNext]_allVars
  PROVE  EdgeInv'
<1>1. ExcInterrupted'
  BY ExcStep DEF EdgeInv, IInv
<1>2. SlotLive'
  BY SlotLiveStep, LinesOfNext DEF EdgeInv
<1>3. SUFFICES ASSUME NEW f \in Funcs \ interrupted'
               PROVE  EdgesTrue(f)' /\ (stack' # <<>> => SlotTrue(f)')
  BY <1>1, <1>2 DEF EdgeInv
<1>4. stack' # <<>> => request'
  BY DEF IInv, TypeOK, VMTypeOK
<1>5. EdgesTrue(f)'
  <2>1. CASE DOMAIN files' = {}
    BY <2>1 DEF EdgesTrue
  <2>2. CASE DOMAIN files' # {}
    <3>1. request'
      BY <2>2 DEF IInv, MarksOfRequest
    <3>2. f \notin interrupted
      BY <3>1, HistoryStep
    <3>3. CASE UNCHANGED files
      BY <3>1, <3>2, <3>3, EdgesTrueKept DEF EdgeInv
    <3>4. CASE files' # files
      <4>1. LNext
        BY <3>4 DEF allVars, vars, recorderVars, dataVars
      <4>2. Dispatch
        BY <2>2, <3>4, <4>1, EmptyFunction
           DEF LNext, Next, Run, StartCoverage, StopCoverage, SetFilter, RInit, RShutdown,
               recorderVars, dataVars
      <4> QED
        BY <4>1, <4>2, EdgesTrueOfDispatch
    <3> QED
      BY <3>3, <3>4
  <2> QED
    BY <2>1, <2>2
<1>6. ASSUME stack' # <<>>
      PROVE  SlotTrue(f)'
  <2>1. request'
    BY <1>4, <1>6
  <2>2. CASE LNext
    <3>1. CASE Dispatch
      BY <2>2, <3>1, SlotTrueOfDispatch
    <3>2. CASE Run \/ (\E flags \in FlagSets : StartCoverage(flags)) \/ StopCoverage \/ SetFilter
      BY <1>1, <1>6, <2>1, <2>2, <3>2, SlotTrueOfMove
    <3>3. CASE RInit \/ RShutdown
      BY <2>1, <3>3 DEF RInit, RShutdown, VMEndRequest, SlotTrue
    <3> QED
      BY <2>2, <3>1, <3>2, <3>3 DEF LNext, Next
  <2>3. CASE UNCHANGED allVars
    <3>1. UNCHANGED <<stack, dispatched, coverage_active, coverage_flags, edge_last, saturation,
                      sat_generation, moved, interrupted>>
          /\ UNCHANGED <<filter_active, filter_includes, filter_excludes>>
      BY <2>3 DEF allVars, vars, vmVars, filterVars, recorderVars, sessionVars, slotVars,
                  satVars, historyVars
    <3>2. Depth' = Depth
      BY <3>1 DEF Depth
    <3>3. SlotTrue(f)
      BY <1>6, <3>1 DEF EdgeInv
    <3>4. SlotFollows(f)' <=> SlotFollows(f)
      BY <3>1, <3>2 DEF SlotFollows, Recording, Branching, Wanted, Traversed
    <3> QED
      BY <3>1, <3>3, <3>4 DEF SlotTrue, Saturated, OnlyExit
  <2> QED
    BY <2>2, <2>3
<1> QED
  BY <1>5, <1>6

LEMMA EdgeInvInit == LInit => EdgeInv
<1> SUFFICES ASSUME LInit PROVE EdgeInv
  OBVIOUS
<1>1. stack = <<>> /\ files = <<>> /\ ~request
  BY DEF LInit, Init, VMInit
<1> QED
  BY <1>1, EmptyFunction DEF EdgeInv, ExcInterrupted, SlotLive, EdgesTrue

(* "Two consecutive marks in the SAME frame whose block changed represent a  *)
(* real CFG edge": where the analysis knows all jumps and every block has an *)
(* op with a handler, an edge recorded of a function no frame of which was   *)
(* interrupted was traversed, although the slot holds one frame only and the *)
(* address of a frame is used again.                                         *)
THEOREM RecordedEdgesWereTraversed ==
  ASSUME KeysDistinct, FlowKnown, BlocksHooked
  PROVE  LSpec => []FalseEdgeOnlyIfInterrupted
<1> DEFINE Inv == EngineInv /\ EdgeInv
<1>1. LInit => Inv
  BY EngineInvInit, EdgeInvInit
<1>2. IInv /\ IInv' /\ Inv /\ [LNext]_allVars => Inv'
  BY EngineInvStep, EdgeInvStep, FlowLands DEF IInv
<1>3. IInv /\ Inv => FalseEdgeOnlyIfInterrupted
  <2> SUFFICES ASSUME IInv, Inv, NEW s \in DOMAIN files, files[s].fn \notin interrupted
               PROVE  \A e \in files[s].edge_hit :
                        <<e[1], Analysis[files[s].fn].outs[e[1]][e[2]]>> \in Traversed(files[s].fn)
    BY DEF FalseEdgeOnlyIfInterrupted
  <2>1. PICK f : f = files[s].fn
    OBVIOUS
  <2>2. f \in Funcs /\ s = SlotOf(f)
    BY <2>1 DEF IInv, TypeOK, Runtimes, RuntimesOwned
  <2>3. EdgesTrue(f)
    BY <2>1, <2>2 DEF EdgeInv
  <2> QED
    BY <2>1, <2>2, <2>3 DEF EdgesTrue
<1> QED
  BY <1>1, <1>2, <1>3, RecorderSound, PTL DEF LSpec

-----------------------------------------------------------------------------
(* The edges traversed are recorded, of functions that call none.            *)

IsLeaf(f) == Callees[f] = {}

LeavesOnTop == \A i \in DOMAIN stack : i < Depth => ~IsLeaf(stack[i].fn)

SlotAt(f, b) == edge_last = [frame |-> Depth, rt |-> SlotOf(f), block |-> b]

EdgeMissing(f, from, to) ==
  \E i \in DOMAIN Analysis[f].outs[from] :
    Analysis[f].outs[from][i] = to /\ <<from, i>> \notin files[SlotOf(f)].edge_hit

\* The next mark of the running frame will record the edge.
Pending(f, from, to) ==
  /\ Top.fn = f /\ Recording(f) /\ ~dispatched
  /\ Blk(f, Top.pc) = to /\ Fresh(f, Top.pc)
  /\ SlotAt(f, from)

EdgesKept(f) ==
  \A from, to : <<from, to>> \in Traversed(f) /\ from # to =>
    /\ from \in BlocksOf(f) /\ to \in BlocksOf(f)
    /\ SlotOf(f) \in DOMAIN files
    /\ files[SlotOf(f)].edge_buf /\ EdgeMissing(f, from, to) => Pending(f, from, to)

\* Once marked, the block of the running frame is in the slot.
Synced(f) ==
  Top.fn = f /\ Recording(f) /\ (dispatched \/ ~Fresh(f, Top.pc)) =>
    /\ SlotOf(f) \in DOMAIN files
    /\ files[SlotOf(f)].edge_buf => Saturated(f) \/ SlotAt(f, Blk(f, Top.pc))

LeafInv ==
  /\ ExcInterrupted /\ LeavesOnTop
  /\ stack # <<>> => \A f \in Funcs \ (interrupted \cup DOMAIN start_floors) :
       IsLeaf(f) => EdgesKept(f) /\ Synced(f)

LEMMA LeavesOnTopStep ==
  ASSUME VMTypeOK, VMTypeOK', CallersAtCalls, LeavesOnTop, VMStep
  PROVE  LeavesOnTop'
<1> SUFFICES ASSUME NEW i \in DOMAIN stack', i < Depth'
             PROVE  ~IsLeaf(stack'[i].fn)
  BY DEF LeavesOnTop, IsLeaf
<1>1. /\ Depth \in Nat /\ DOMAIN stack = 1 .. Depth
      /\ Depth' \in Nat /\ DOMAIN stack' = 1 .. Depth'
  BY LenProperties DEF VMTypeOK, Depth
<1>2. Keeps(i)
  BY <1>1, FrameSteps DEF Moves, Enters, Throws, Catches
<1>3. i \in DOMAIN stack /\ stack'[i] = stack[i]
  BY <1>2 DEF Keeps
<1>4. CASE i < Depth
  BY <1>3, <1>4 DEF LeavesOnTop
<1>5. CASE i = Depth
  <2>1. Depth' \in DOMAIN stack' /\ Depth' \notin DOMAIN stack
    BY <1>1, <1>5
  <2>2. Enters(Depth')
    BY <2>1, FrameSteps DEF Keeps, Moves, Throws, Catches
  <2>3. Callees[Top.fn] # {}
    BY <2>2 DEF Enters
  <2> QED
    BY <1>3, <1>5, <2>3 DEF IsLeaf, Top
<1> QED
  BY <1>1, <1>3, <1>4, <1>5

LEMMA OutsOf ==
  ASSUME NEW f \in Funcs, NEW b \in BlocksOf(f)
  PROVE  /\ b \in Blocks(OpArray[f]) /\ b \in Nat
         /\ Analysis[f].outs[b] = Outs(OpArray[f], b)
         /\ DOMAIN Analysis[f].outs[b] \subseteq 1 .. MaxOuts
<1> DEFINE o == OpArray[f]
<1>1. b \in Blocks(o) /\ IsOpArray(o) /\ b \in Nat
  BY VMAssumption, AnalysisFacts DEF BlocksOf, Analysis, Analyse, Blocks
<1>2. Analysis[f].outs[b] = Outs(o, b)
  BY <1>1 DEF Analysis, Analyse
<1>3. PICK n \in 0 .. MaxOuts : Outs(o, b) \in [1 .. n -> Blocks(o) \cup {EXIT}]
  BY <1>1, OutsType
<1>4. DOMAIN Outs(o, b) \subseteq 1 .. MaxOuts
  BY <1>3, MaxOutsAssumption
<1> QED
  BY <1>1, <1>2, <1>4

\* The edge out of the slot is taken at the mark of its target.
LEMMA SlotTakesEdge ==
  ASSUME OutsDistinct, NEW f \in Funcs, NEW from \in BlocksOf(f), NEW to, from # to,
         SlotAt(f, from), NEW i \in DOMAIN Analysis[f].outs[from],
         Analysis[f].outs[from][i] = to
  PROVE  <<from, i>> \in EdgeTaken(f, to)
<1> DEFINE outs == Analysis[f].outs[from]
           indices == {k \in 1 .. MaxOuts : k \in DOMAIN outs /\ outs[k] = to}
<1>1. /\ edge_last.frame = Depth /\ edge_last.rt = SlotOf(f) /\ edge_last.block = from
  BY DEF SlotAt
<1>2. from < Analysis[f].num_blocks
  BY AnalysisFacts DEF BlocksOf
<1>3. i \in indices
  BY OutsOf
<1>4. \A k \in indices : k = i
  BY OutsOf DEF OutsDistinct
<1>5. \A k \in indices : i <= k
  BY <1>3, <1>4
<1> QED
  BY <1>1, <1>2, <1>3, <1>5 DEF EdgeTaken

\* Nothing is missing of a function that is skipped.
LEMMA SaturatedMissesNone ==
  ASSUME IInv, NEW f \in Funcs, Saturated(f), Branching, files[SlotOf(f)].edge_buf,
         NEW from \in BlocksOf(f), NEW to \in BlocksOf(f)
  PROVE  ~EdgeMissing(f, from, to)
<1> SUFFICES ASSUME NEW i \in DOMAIN Analysis[f].outs[from], Analysis[f].outs[from][i] = to
             PROVE  <<from, i>> \in files[SlotOf(f)].edge_hit
  BY DEF EdgeMissing
<1>1. files[SlotOf(f)].edge_hit = EdgesOf(f)
  BY DEF IInv, SaturationSound
<1>2. to # EXIT
  BY AnalysisFacts DEF EXIT
<1>3. <<from, i>> \in (0 .. Analysis[f].num_blocks - 1) \X (1 .. MaxOuts)
  BY OutsOf DEF BlocksOf
<1>4. <<from, i>>[1] = from /\ <<from, i>>[2] = i
  OBVIOUS
<1> QED
  BY <1>1, <1>2, <1>3, <1>4 DEF EdgesOf, RealEdges

\* Coverage does not start, nor is the watching of f changed, under an open frame of f.
LEMMA WatchedOn ==
  ASSUME TypeOK, LNext, request', NEW f \in Funcs, f \notin interrupted', f \notin DOMAIN start_floors',
         Open(f),
         \/ Run
         \/ \E flags \in FlagSets : StartCoverage(flags)
         \/ StopCoverage
         \/ SetFilter
  PROVE  /\ Recording(f)' <=> Recording(f)
         /\ Recording(f) => UNCHANGED <<edge_last, saturation, sat_generation>>
<1>1. CASE \E flags \in FlagSets : StartCoverage(flags)
  <2>1. start_floors' = LowerFloors /\ UNCHANGED filterVars
    BY <1>1 DEF StartCoverage
  <2>2. f \notin InFlight
    BY <2>1 DEF LowerFloors
  <2>3. ~Wanted(FileOf[f])
    BY <2>2 DEF InFlight, OpsInFlight, Open
  <2> QED
    BY <2>1, <2>3 DEF Recording, Wanted, filterVars
<1>2. CASE Run \/ StopCoverage \/ SetFilter
  <2>1. UNCHANGED <<edge_last, saturation, sat_generation, coverage_flags, start_floors>>
    BY <1>2 DEF Run, StopCoverage, SetFilter, recorderVars, sessionVars, slotVars, satVars
  <2>2. CASE Watching(f)' <=> Watching(f)
    BY <2>1, <2>2 DEF Recording, Watching, Branching
  <2>3. CASE ~Wanted(FileOf[f]) /\ UNCHANGED filterVars
    BY <2>1, <2>3 DEF Recording, Wanted, filterVars
  <2>4. CASE start_floors' = LowerFloors /\ Wanted(FileOf[f])
    <3>1. f \in InFlight
      BY <2>4 DEF InFlight, OpsInFlight, Open
    <3> QED
      BY <2>4, <3>1 DEF LowerFloors
  <2> QED
    BY <1>2, <2>2, <2>3, <2>4, MovesWatch
<1> QED
  BY <1>1, <1>2

LEMMA PendingStays ==
  ASSUME FlowKnown, BlocksHooked, VMTypeOK, VMTypeOK', CallersAtCalls, InBlocks, VMStep,
         stack' # <<>>, stack # <<>>, NEW f \in Funcs, NoneThrown(f), NoneThrown(f)',
         Recording(f)' <=> Recording(f), UNCHANGED edge_last,
         NEW from, NEW to, Pending(f, from, to)
  PROVE  Pending(f, from, to)'
<1>1. PICK d : d = Depth
  OBVIOUS
<1>2. PICK p : p = stack[d].pc
  OBVIOUS
<1>3. /\ d \in DOMAIN stack /\ DOMAIN stack = 1 .. d /\ d \in Nat /\ Top = stack[d] /\ stack[d].fn = f
      /\ Recording(f) /\ ~dispatched /\ Blk(f, p) = to /\ Fresh(f, p)
  BY <1>1, <1>2, TopFrame DEF Pending, Top
<1>4. p \in Ops(OpArray[f])
  BY <1>2, <1>3, FrameAtIndex
<1>5. d \in DOMAIN stack'
  BY <1>1, <1>3, FrameReturns
<1>6. stack'[d].fn = f
  BY <1>3, <1>5, SameFunction
<1>7. ~Stays(d) /\ ~Begins(f, d)
  BY <1>1, <1>3 DEF Stays, Begins
<1>8. ~Leaves(f, d)
  <2>1. SUFFICES ASSUME Leaves(f, d) PROVE FALSE
    OBVIOUS
  <2>2. LastOfBlock(f, p) /\ Finished(d)
    BY <1>2, <2>1 DEF Leaves
  <2>3. IsHooked(OpArray[f], p)
    BY <1>3, <1>4, <2>2, LeftNotFresh
  <2>4. ~(d < Depth)
    BY <1>1, <1>3
  <2>5. dispatched = IsHooked(OpArray[f], p)
    BY <1>2, <1>3, <2>2, <2>4 DEF Finished
  <2> QED
    BY <1>3, <2>3, <2>5
<1>9. Advances(f, d)
  BY <1>5, <1>6, <1>7, <1>8, FrameGoesOn
<1>10. d = Depth' /\ ~dispatched' /\ Finished(d) /\ stack'[d].pc = p + 1 /\ Blk(f, p + 1) = Blk(f, p)
  BY <1>2, <1>9 DEF Advances
<1>11. ~IsHooked(OpArray[f], p)
  BY <1>1, <1>2, <1>3, <1>10 DEF Finished
<1>12. Fresh(f, p + 1)
  BY <1>3, <1>4, <1>10, <1>11, FreshAdvances
<1>13. SlotAt(f, from)'
  BY <1>1, <1>10 DEF Pending, SlotAt
<1>14. Top' = stack'[d]
  BY <1>10 DEF Top
<1> QED
  BY <1>3, <1>6, <1>10, <1>12, <1>13, <1>14 DEF Pending

\* An edge of a leaf is traversed from the top of the stack, after a mark.
LEMMA NewEdgePending ==
  ASSUME FlowKnown, BlocksHooked, IInv, VMTypeOK', CallersAtCalls, InBlocks, LeavesOnTop, VMStep,
         stack' # <<>>, request', LNext, files' = files,
         NEW f \in Funcs, IsLeaf(f), NoneThrown(f), NoneThrown(f)', Synced(f),
         Open(f) => (/\ Recording(f)' <=> Recording(f)
                     /\ Recording(f) => UNCHANGED <<edge_last, saturation, sat_generation>>),
         NEW from, NEW to, from # to, <<from, to>> \in Traversed(f)', <<from, to>> \notin Traversed(f)
  PROVE  /\ from \in BlocksOf(f) /\ to \in BlocksOf(f)
         /\ SlotOf(f) \in DOMAIN files
         /\ files[SlotOf(f)].edge_buf /\ EdgeMissing(f, from, to) => Pending(f, from, to)'
<1>1. VMTypeOK
  BY DEF IInv, TypeOK
<1>2. PICK m \in moved' : /\ m[1] = f
                          /\ Analysis[f].op_to_block[m[2]] = from
                          /\ Analysis[f].op_to_block[m[3]] = to
  BY DEF Traversed
<1>3. m \notin moved
  BY <1>2 DEF Traversed
<1>4. m \in MovedNow
  BY <1>2, <1>3 DEF LNext
<1>5. /\ coverage_active /\ Branching
      /\ m \in {<<stack[i].fn, stack[i].pc, stack'[i].pc>> :
                  i \in {j \in DOMAIN stack \cap DOMAIN stack' :
                           stack[j].pc # stack'[j].pc /\ Wanted(FileOf[stack[j].fn])}}
  BY <1>4 DEF MovedNow
<1>6. PICK d \in DOMAIN stack : /\ d \in DOMAIN stack'
                                /\ stack[d].pc # stack'[d].pc /\ Wanted(FileOf[stack[d].fn])
                                /\ m = <<stack[d].fn, stack[d].pc, stack'[d].pc>>
  BY <1>5
<1>7. PICK p : p = stack[d].pc
  OBVIOUS
<1>8. PICK q : q = stack'[d].pc
  OBVIOUS
<1>9. stack[d].fn = f /\ m[2] = p /\ m[3] = q /\ p # q /\ Recording(f) /\ Open(f)
  BY <1>2, <1>5, <1>6, <1>7, <1>8 DEF Recording, Open
<1>10. stack'[d].fn = f
  BY <1>1, <1>6, <1>9, SameFunction
<1>11. p \in Ops(OpArray[f]) /\ q \in Ops(OpArray[f])
  BY <1>1, <1>6, <1>7, <1>8, <1>9, <1>10 DEF VMTypeOK
<1>12. /\ Blk(f, p) = from /\ Blk(f, q) = to /\ from \in BlocksOf(f) /\ to \in BlocksOf(f)
  BY <1>2, <1>9, <1>11, AnalysisFacts DEF Blk
<1>13. ~Stays(d) /\ ~Advances(f, d) /\ ~Begins(f, d)
  <2>1. ~Begins(f, d)
    BY <1>1, LenProperties DEF Begins, VMTypeOK, Depth
  <2> QED
    BY <1>7, <1>8, <1>9, <1>12, <2>1 DEF Stays, Advances
<1>14. Leaves(f, d)
  BY <1>1, <1>6, <1>10, <1>13, FrameGoesOn
<1>15. d = Depth' /\ ~dispatched' /\ Finished(d) /\ LastOfBlock(f, p) /\ q \in Leaders(OpArray[f])
  BY <1>7, <1>8, <1>14 DEF Leaves
<1>16. d = Depth /\ Top = stack[d] /\ Top' = stack'[d]
  <2>1. Depth \in Nat /\ DOMAIN stack = 1 .. Depth
    BY <1>1, LenProperties DEF VMTypeOK, Depth
  <2>2. ~(d < Depth)
    BY <1>6, <1>9 DEF LeavesOnTop
  <2>3. d = Depth
    BY <1>6, <2>1, <2>2
  <2> QED
    BY <1>15, <2>3 DEF Top
<1>17. dispatched \/ ~Fresh(f, p)
  <2>1. SUFFICES ASSUME Fresh(f, p) PROVE dispatched
    OBVIOUS
  <2>2. IsHooked(OpArray[f], p)
    BY <1>11, <1>15, <2>1, LeftNotFresh
  <2> QED
    BY <1>7, <1>9, <1>15, <1>16, <2>2 DEF Finished
<1>18. /\ SlotOf(f) \in DOMAIN files
       /\ files[SlotOf(f)].edge_buf => Saturated(f) \/ SlotAt(f, from)
  BY <1>7, <1>9, <1>12, <1>16, <1>17 DEF Synced
<1>19. SUFFICES ASSUME files[SlotOf(f)].edge_buf, EdgeMissing(f, from, to)
                PROVE  Pending(f, from, to)'
  BY <1>12, <1>18
<1>20. SlotAt(f, from)
  <2>1. Saturated(f) => ~EdgeMissing(f, from, to)
    BY <1>5, <1>12, <1>19, SaturatedMissesNone
  <2> QED
    BY <1>18, <1>19, <2>1
<1>21. SlotAt(f, from)' /\ Recording(f)'
  BY <1>9, <1>15, <1>16, <1>20 DEF SlotAt
<1>22. Fresh(f, q)
  BY <1>15, FreshAtLeader
<1> QED
  BY <1>8, <1>10, <1>12, <1>15, <1>16, <1>21, <1>22 DEF Pending

LEMMA SyncedStays ==
  ASSUME FlowKnown, VMTypeOK, VMTypeOK', CallersAtCalls, InBlocks, LeavesOnTop, VMStep,
         stack' # <<>>, files' = files, ~dispatched',
         NEW f \in Funcs, IsLeaf(f), NoneThrown(f), NoneThrown(f)', Synced(f),
         Open(f) => (/\ Recording(f)' <=> Recording(f)
                     /\ Recording(f) => UNCHANGED <<edge_last, saturation, sat_generation>>)
  PROVE  Synced(f)'
<1>1. PICK d : d = Depth'
  OBVIOUS
<1>2. PICK q : q = stack'[d].pc
  OBVIOUS
<1>3. /\ Depth \in Nat /\ DOMAIN stack = 1 .. Depth
      /\ d \in Nat /\ d \in DOMAIN stack' /\ Top' = stack'[d]
  <2>1. stack' \in Seq(Frames) /\ Depth' = Len(stack') /\ Len(stack') # 0
    BY EmptySeq DEF VMTypeOK, Depth
  <2> QED
    BY <1>1, <2>1, LenProperties DEF VMTypeOK, Depth, Top
<1>4. SUFFICES ASSUME stack'[d].fn = f, Recording(f)', ~Fresh(f, q)
               PROVE  /\ SlotOf(f) \in DOMAIN files
                      /\ files[SlotOf(f)].edge_buf => Saturated(f)' \/ SlotAt(f, Blk(f, q))'
  BY <1>2, <1>3 DEF Synced
<1>5. ~Stays(d)
  BY <1>1, <1>3 DEF Stays
<1>6. ~Leaves(f, d) /\ ~Begins(f, d)
  BY <1>2, <1>4, FreshAtLeader DEF Leaves, Begins
<1>7. Advances(f, d)
  BY <1>3, <1>4, <1>5, <1>6, FrameGoesOn
<1>8. PICK p : p = stack[d].pc
  OBVIOUS
<1>9. /\ d \in DOMAIN stack /\ stack[d].fn = f /\ Finished(d) /\ q = p + 1 /\ Blk(f, q) = Blk(f, p)
  BY <1>2, <1>7, <1>8 DEF Advances
<1>10. d = Depth /\ Top = stack[d]
  <2>1. ~(d < Depth)
    BY <1>9 DEF LeavesOnTop
  <2> QED
    BY <1>3, <1>9, <2>1 DEF Top
<1>11. p \in Ops(OpArray[f])
  BY <1>8, <1>9, FrameAtIndex
<1>12. dispatched \/ ~Fresh(f, p)
  <2>1. Fresh(f, p) => IsHooked(OpArray[f], p)
    BY <1>4, <1>9, <1>11, FreshAdvances
  <2>2. ~(d < Depth)
    BY <1>3, <1>10
  <2>3. dispatched = IsHooked(OpArray[f], p)
    BY <1>8, <1>9, <2>2 DEF Finished
  <2> QED
    BY <2>1, <2>3
<1>13. Open(f)
  BY <1>9 DEF Open
<1>14. /\ SlotOf(f) \in DOMAIN files
       /\ files[SlotOf(f)].edge_buf => Saturated(f) \/ SlotAt(f, Blk(f, p))
  BY <1>4, <1>8, <1>9, <1>10, <1>12, <1>13 DEF Synced
<1>15. UNCHANGED <<edge_last, saturation, sat_generation>>
  BY <1>4, <1>13
<1> QED
  BY <1>1, <1>9, <1>10, <1>14, <1>15 DEF Saturated, SlotAt

LEMMA EdgesKeptOfDispatch ==
  ASSUME KeysDistinct, OutsDistinct, IInv, ExcInterrupted, LNext, Dispatch,
         NEW f \in Funcs, f \notin interrupted, EdgesKept(f), Synced(f)
  PROVE  EdgesKept(f)' /\ Synced(f)'
<1>1. PICK g : g = Top.fn
  OBVIOUS
<1>2. PICK b : b = Blk(g, Top.pc)
  OBVIOUS
<1>3. /\ stack' = stack /\ dispatched' /\ ~dispatched /\ Depth' = Depth
      /\ g \in Funcs /\ Analysis[g].op_to_block[Top.pc] = b
      /\ VMDispatch /\ request /\ request' /\ b \in BlocksOf(g)
      /\ UNCHANGED <<coverage_active, coverage_flags, filterVars, sat_generation>>
      /\ UNCHANGED <<files, edge_last, saturation>> \/ MarkRecords
      /\ MarkRecords \/ ~Watching(g) \/ Saturated(g) \/ g \in interrupted
      /\ \A h \in Funcs : Saturated(h) => Saturated(h)'
  BY <1>1, <1>2, HandlerCases
<1>4. Top' = Top
  BY <1>3 DEF Top
<1>5. Recording(f)' <=> Recording(f)
  BY <1>3 DEF Recording, Branching, Wanted, filterVars
<1>6. Traversed(f)' = Traversed(f)
  <2>1. MovedNow = {}
    BY <1>3 DEF MovedNow
  <2>2. moved' = moved
    BY <1>3, <2>1 DEF LNext
  <2> QED
    BY <2>2 DEF Traversed
<1>7. MarkRecords => SlotOf(g) \in DOMAIN files' /\ DOMAIN files \subseteq DOMAIN files'
  BY <1>1 DEF MarkRecords
<1>8. SlotOf(f) \in DOMAIN files => SlotOf(f) \in DOMAIN files'
  BY <1>3, <1>7
\* The table of f, after the mark.
<1>9. ASSUME MarkRecords, g = f
      PROVE  /\ files'[SlotOf(f)].edge_buf = RuntimeFor(f).edge_buf
             /\ files'[SlotOf(f)].edge_hit =
                  RuntimeFor(f).edge_hit \cup (IF Branching /\ RuntimeFor(f).edge_buf
                                               THEN EdgeTaken(f, b) ELSE {})
  <2>1. files'[SlotOf(f)] = AfterMark(f, b)
    BY <1>1, <1>3, <1>7, <1>9, MarkedTable
  <2> QED
    BY <1>3, <1>9, <2>1, MarkedRuntime DEF IInv
<1>10. ASSUME MarkRecords, g # f, SlotOf(f) \in DOMAIN files
       PROVE  files'[SlotOf(f)] = files[SlotOf(f)]
  BY <1>1, <1>3, <1>8, <1>10, MarkedTable
<1>11. EdgesKept(f)'
  <2> SUFFICES ASSUME NEW from, NEW to, <<from, to>> \in Traversed(f), from # to
               PROVE  /\ from \in BlocksOf(f) /\ to \in BlocksOf(f)
                      /\ SlotOf(f) \in DOMAIN files'
                      /\ ~(files'[SlotOf(f)].edge_buf /\ EdgeMissing(f, from, to)')
    BY <1>6 DEF EdgesKept, BlocksOf
  <2>1. /\ from \in BlocksOf(f) /\ to \in BlocksOf(f)
        /\ SlotOf(f) \in DOMAIN files
        /\ files[SlotOf(f)].edge_buf /\ EdgeMissing(f, from, to) => Pending(f, from, to)
    BY DEF EdgesKept
  <2>2. SUFFICES ASSUME files'[SlotOf(f)].edge_buf,
                        NEW i \in DOMAIN Analysis[f].outs[from], Analysis[f].outs[from][i] = to,
                        <<from, i>> \notin files'[SlotOf(f)].edge_hit
                 PROVE  FALSE
    BY <1>8, <2>1 DEF EdgeMissing
  <2>3. CASE MarkRecords /\ g = f
    <3>1. RuntimeFor(f) = files[SlotOf(f)]
      BY <2>1 DEF RuntimeFor
    <3>2. files[SlotOf(f)].edge_buf /\ EdgeMissing(f, from, to)
      BY <1>9, <2>2, <2>3, <3>1 DEF EdgeMissing
    <3>3. Pending(f, from, to)
      BY <2>1, <3>2
    <3>4. b = to /\ SlotAt(f, from) /\ Branching
      BY <1>1, <1>2, <2>3, <3>3 DEF Pending, Recording
    <3>5. <<from, i>> \in EdgeTaken(f, b)
      BY <2>1, <2>2, <3>4, SlotTakesEdge
    <3> QED
      BY <1>9, <2>2, <2>3, <3>1, <3>2, <3>4, <3>5
  <2>4. CASE ~(MarkRecords /\ g = f)
    <3>1. files'[SlotOf(f)] = files[SlotOf(f)]
      BY <1>3, <1>10, <2>1, <2>4
    <3>2. files[SlotOf(f)].edge_buf /\ EdgeMissing(f, from, to)
      BY <2>2, <3>1 DEF EdgeMissing
    <3>3. Pending(f, from, to)
      BY <2>1, <3>2
    <3>4. g = f /\ Watching(f) /\ Branching
      BY <1>1, <3>3 DEF Pending, Recording, Watching
    <3>5. Saturated(f)
      BY <1>3, <2>4, <3>4
    <3> QED
      BY <2>1, <3>2, <3>4, <3>5, SaturatedMissesNone
  <2> QED
    BY <2>3, <2>4
<1>12. Synced(f)'
  <2> SUFFICES ASSUME Top.fn = f, Recording(f)
               PROVE  /\ SlotOf(f) \in DOMAIN files'
                      /\ files'[SlotOf(f)].edge_buf => Saturated(f)' \/ SlotAt(f, b)'
    BY <1>1, <1>2, <1>4, <1>5 DEF Synced, SlotAt, Blk
  <2>1. g = f /\ Watching(f) /\ Branching
    BY <1>1 DEF Recording, Watching
  <2>2. CASE Saturated(f)
    <3>1. SlotOf(f) \in DOMAIN files
      BY <2>2 DEF IInv, SaturationSound
    <3> QED
      BY <1>3, <1>8, <2>2, <3>1
  <2>3. CASE MarkRecords
    <3>1. SUFFICES ASSUME files'[SlotOf(f)].edge_buf PROVE SlotAt(f, b)'
      BY <1>7, <2>1, <2>3
    <3>2. RuntimeFor(f).edge_buf
      BY <1>9, <2>1, <2>3, <3>1
    <3>3. edge_last' = [frame |-> Depth, rt |-> SlotOf(f), block |-> b]
      BY <1>1, <1>3, <2>1, <2>3, <3>2 DEF MarkRecords
    <3> QED
      BY <1>3, <3>3 DEF SlotAt
  <2> QED
    BY <1>3, <2>1, <2>2, <2>3
<1> QED
  BY <1>11, <1>12

LEMMA EdgesKeptOfMove ==
  ASSUME FlowKnown, BlocksHooked, IInv, IInv', EngineInv, LeafInv, ExcInterrupted', LNext,
         stack' # <<>>, request',
         NEW f \in Funcs, f \notin interrupted', f \notin DOMAIN start_floors', IsLeaf(f),
         f \notin interrupted, EdgesKept(f), Synced(f),
         \/ Run
         \/ \E flags \in FlagSets : StartCoverage(flags)
         \/ StopCoverage
         \/ SetFilter
  PROVE  EdgesKept(f)' /\ Synced(f)'
<1>1. TypeOK /\ TypeOK' /\ VMTypeOK /\ VMTypeOK' /\ CallersAtCalls /\ InBlocks /\ LeavesOnTop
  BY DEF IInv, TypeOK, EngineInv, LeafInv
<1>2. VMStep /\ request /\ files' = files /\ ~dispatched'
  BY <1>1, MovesWatch
<1>3. stack # <<>>
  BY <1>2 DEF VMStep, Continue, Call, Return, Throw, Unwind, Bailout, Running
<1>4. NoneThrown(f) /\ NoneThrown(f)'
  BY Uninterrupted DEF LeafInv, ExcInterrupted, NoneThrown
<1>5. Open(f) => (/\ Recording(f)' <=> Recording(f)
                  /\ Recording(f) => UNCHANGED <<edge_last, saturation, sat_generation>>)
  BY <1>1, WatchedOn
<1>6. Synced(f)'
  BY <1>1, <1>2, <1>4, <1>5, SyncedStays
<1>7. EdgesKept(f)'
  <2> SUFFICES ASSUME NEW from, NEW to, <<from, to>> \in Traversed(f)', from # to
               PROVE  /\ from \in BlocksOf(f) /\ to \in BlocksOf(f)
                      /\ SlotOf(f) \in DOMAIN files
                      /\ files[SlotOf(f)].edge_buf /\ EdgeMissing(f, from, to)
                           => Pending(f, from, to)'
    BY <1>2 DEF EdgesKept, BlocksOf, EdgeMissing
  <2>1. CASE <<from, to>> \notin Traversed(f)
    BY <1>1, <1>2, <1>4, <1>5, <2>1, NewEdgePending
  <2>2. CASE <<from, to>> \in Traversed(f)
    <3>1. /\ from \in BlocksOf(f) /\ to \in BlocksOf(f)
          /\ SlotOf(f) \in DOMAIN files
          /\ files[SlotOf(f)].edge_buf /\ EdgeMissing(f, from, to) => Pending(f, from, to)
      BY <2>2 DEF EdgesKept
    <3>2. ASSUME Pending(f, from, to)
          PROVE  Pending(f, from, to)'
      <4>1. Open(f) /\ Recording(f)
        BY <1>1, <1>3, <3>2, TopFrame DEF Pending, Open, Top
      <4> QED
        BY <1>1, <1>2, <1>3, <1>4, <1>5, <3>2, <4>1, PendingStays
    <3> QED
      BY <3>1, <3>2
  <2> QED
    BY <2>1, <2>2
<1> QED
  BY <1>6, <1>7

LEMMA LeafInvStep ==
  ASSUME KeysDistinct, FlowKnown, BlocksHooked, OutsDistinct,
         IInv, IInv', EngineInv, LeafInv, [LNext]_allVars
  PROVE  LeafInv'
<1>1. ExcInterrupted' /\ ExcInterrupted /\ VMTypeOK /\ VMTypeOK' /\ CallersAtCalls
  BY ExcStep DEF LeafInv, IInv, TypeOK, EngineInv
<1>2. LeavesOnTop'
  <2>1. CASE VMStep
    BY <1>1, <2>1, LeavesOnTopStep DEF LeafInv
  <2>2. CASE stack' = stack
    <3>1. Depth' = Depth
      BY <2>2 DEF Depth
    <3> QED
      BY <2>2, <3>1 DEF LeafInv, LeavesOnTop, IsLeaf
  <2>3. CASE VMStartRequest
    <3>1. stack' = <<FrameAt(Main, 0)>>
      BY <2>3 DEF VMStartRequest
    <3>2. DOMAIN stack' = {1} /\ Depth' = 1
      BY <3>1 DEF Depth
    <3> QED
      BY <3>2 DEF LeavesOnTop
  <2> QED
    BY <2>1, <2>2, <2>3, EngineStep, LinesOfNext DEF VMDispatch, VMEndRequest, vars, vmVars
<1>3. SUFFICES ASSUME stack' # <<>>, NEW f \in Funcs \ (interrupted' \cup DOMAIN start_floors'), IsLeaf(f)
               PROVE  EdgesKept(f)' /\ Synced(f)'
  BY <1>1, <1>2 DEF LeafInv, IsLeaf
<1>4. request'
  BY <1>1, <1>3 DEF VMTypeOK
<1>5. f \notin interrupted
  BY <1>3, <1>4, HistoryStep
<1>6. f \notin DOMAIN start_floors
  <2>1. CASE UNCHANGED start_floors
    BY <1>3, <2>1
  <2>2. CASE \E flags \in FlagSets : StartCoverage(flags)
    BY <1>3, <2>2 DEF StartCoverage, LowerFloors
  <2> QED
    BY <1>4, <2>1, <2>2, FloorsChange, LinesOfNext
<1>7. stack # <<>> => EdgesKept(f) /\ Synced(f)
  BY <1>3, <1>5, <1>6 DEF LeafInv
<1>8. CASE LNext
  <2>1. CASE Dispatch
    <3>1. stack # <<>>
      BY <2>1 DEF Dispatch, VMDispatch, Hooked
    <3> QED
      BY <1>1, <1>5, <1>7, <1>8, <2>1, <3>1, EdgesKeptOfDispatch
  <2>2. CASE Run \/ (\E flags \in FlagSets : StartCoverage(flags)) \/ StopCoverage \/ SetFilter
    <3>1. VMStep
      BY <2>2, StepOfCall DEF Run, StartCoverage, StopCoverage, SetFilter
    <3>2. stack # <<>>
      BY <3>1 DEF VMStep, Continue, Call, Return, Throw, Unwind, Bailout, Running
    <3> QED
      BY <1>1, <1>3, <1>4, <1>5, <1>7, <1>8, <2>2, <3>2, EdgesKeptOfMove
  <2>3. CASE RInit
    <3>1. ~coverage_active' /\ ~request
      BY <2>3 DEF RInit, VMStartRequest
    <3>2. moved = {} /\ stack = <<>>
      BY <1>1, <3>1 DEF EngineInv, HistoryOfRequest, VMTypeOK
    <3>3. MovedNow = {}
      BY <3>2, EmptyFunction DEF MovedNow
    <3>4. moved' = {}
      BY <1>4, <1>8, <3>2, <3>3 DEF LNext
    <3> QED
      BY <3>1, <3>4 DEF EdgesKept, Traversed, Synced, Recording
  <2>4. CASE RShutdown
    BY <1>4, <2>4 DEF RShutdown, VMEndRequest
  <2> QED
    BY <1>8, <2>1, <2>2, <2>3, <2>4 DEF LNext, Next
<1>9. CASE UNCHANGED allVars
  <2>1. UNCHANGED <<stack, dispatched, coverage_active, coverage_flags, files, edge_last, saturation,
                    sat_generation, moved>>
        /\ UNCHANGED <<filter_active, filter_includes, filter_excludes>>
    BY <1>9 DEF allVars, vars, vmVars, filterVars, recorderVars, sessionVars, dataVars, slotVars,
                satVars, historyVars
  <2>2. Depth' = Depth /\ Top' = Top
    BY <2>1 DEF Depth, Top
  <2>3. Traversed(f)' = Traversed(f) /\ (Recording(f)' <=> Recording(f))
    BY <2>1 DEF Traversed, Recording, Branching, Wanted
  <2>4. \A c : SlotAt(f, c)' <=> SlotAt(f, c)
    BY <2>1, <2>2 DEF SlotAt
  <2>5. \A c, d : (EdgeMissing(f, c, d)' <=> EdgeMissing(f, c, d))
                  /\ (Pending(f, c, d)' <=> Pending(f, c, d))
    BY <2>1, <2>2, <2>3, <2>4 DEF EdgeMissing, Pending, Blk, Fresh
  <2>6. Saturated(f)' <=> Saturated(f)
    BY <2>1 DEF Saturated
  <2>7. EdgesKept(f) /\ Synced(f)
    BY <1>3, <1>7, <2>1
  <2>8. EdgesKept(f)'
    BY <2>1, <2>3, <2>5, <2>7 DEF EdgesKept, BlocksOf
  <2>9. Synced(f)'
    BY <2>1, <2>2, <2>3, <2>4, <2>6, <2>7 DEF Synced, Blk, Fresh
  <2> QED
    BY <2>8, <2>9
<1> QED
  BY <1>8, <1>9

LEMMA LeafInvInit == LInit => LeafInv
BY EmptyFunction DEF LInit, Init, VMInit, LeafInv, ExcInterrupted, LeavesOnTop

\* A file some runtime of which can record edges has branch info.
BranchInfoKnown == \A s \in DOMAIN files : files[s].edge_buf => s[1] \in branch_info

LEMMA BranchInfoInit == LInit => BranchInfoKnown
BY EmptyFunction DEF LInit, Init, BranchInfoKnown

LEMMA BranchInfoStep ==
  ASSUME BranchInfoKnown, [Next]_vars
  PROVE  BranchInfoKnown'
<1>1. CASE Dispatch
  <2>1. CASE UNCHANGED dataVars
    BY <2>1 DEF dataVars, BranchInfoKnown
  <2>2. CASE MarkRecords
    <3> DEFINE f == Top.fn
               b == Analysis[f].op_to_block[Top.pc]
               old == RuntimeFor(f)
    <3>1. files' = [s \in DOMAIN files \cup {SlotOf(f)} |->
                      IF s = SlotOf(f) THEN AfterMark(f, b) ELSE files[s]]
      BY <2>2 DEF MarkRecords
    <3>2. branch_info' = IF Branching /\ old.edge_buf THEN branch_info \cup {FileOf[f]}
                         ELSE branch_info
      BY <2>2 DEF MarkRecords
    <3>3. AfterMark(f, b).edge_buf = old.edge_buf
      BY DEF AfterMark, RuntimeFor
    <3>4. SlotOf(f)[1] = FileOf[f]
      BY DEF SlotOf
    <3>5. old.edge_buf => SlotOf(f)[1] \in branch_info'
      <4>1. CASE SlotOf(f) \in DOMAIN files
        BY <3>2, <4>1 DEF RuntimeFor, BranchInfoKnown
      <4>2. CASE SlotOf(f) \notin DOMAIN files
        BY <3>2, <3>4, <4>2 DEF RuntimeFor
      <4> QED
        BY <4>1, <4>2
    <3> QED
      BY <3>1, <3>2, <3>3, <3>5 DEF BranchInfoKnown
  <2> QED
    BY <1>1, <2>1, <2>2 DEF Dispatch, MarkReturnsEarly, MarkReprimesSlot, recorderVars
<1>2. CASE Run
  BY <1>2 DEF Run, recorderVars, dataVars, BranchInfoKnown
<1>3. CASE \E flags \in FlagSets : StartCoverage(flags)
  BY <1>3 DEF StartCoverage, BranchInfoKnown
<1>4. CASE StopCoverage
  BY <1>4 DEF StopCoverage, dataVars, BranchInfoKnown
<1>5. CASE SetFilter
  BY <1>5 DEF SetFilter, recorderVars, dataVars, BranchInfoKnown
<1>6. CASE RInit \/ RShutdown
  BY <1>6, EmptyFunction DEF RInit, RShutdown, BranchInfoKnown
<1>7. CASE UNCHANGED vars
  BY <1>7 DEF vars, recorderVars, dataVars, BranchInfoKnown
<1> QED
  BY <1>1, <1>2, <1>3, <1>4, <1>5, <1>6, <1>7 DEF Next

(* Branch hits have "the same taken/not-taken pattern" as the run: where no  *)
(* block leads to another twice, every out traversed of a function that      *)
(* calls none, and of which no frame was open when coverage started or was   *)
(* interrupted, is reported as taken; saturation does not stop the recording *)
(* before the last edge.                                                     *)
THEOREM LeafEdgesAreRecorded ==
  ASSUME KeysDistinct, FlowKnown, BlocksHooked, OutsDistinct
  PROVE  LSpec => []NoLeafEdgeMissed
<1> DEFINE Inv == EngineInv /\ LeafInv /\ BranchInfoKnown
<1>1. LInit => Inv
  BY EngineInvInit, LeafInvInit, BranchInfoInit
<1>2. IInv /\ IInv' /\ Inv /\ [LNext]_allVars => Inv'
  BY EngineInvStep, LeafInvStep, BranchInfoStep, LinesOfNext, FlowLands DEF IInv
<1>3. IInv /\ Inv => NoLeafEdgeMissed
  <2> SUFFICES ASSUME IInv, Inv, AtCollection, Branching, NEW f \in Watched, Callees[f] = {},
                      NEW edge \in Traversed(f), NEW i \in DOMAIN Analysis[f].outs[edge[1]],
                      Analysis[f].outs[edge[1]][i] = edge[2], edge[1] # edge[2]
               PROVE  OutHit(f, edge[1], i)
    BY DEF NoLeafEdgeMissed, EdgesReported
  <2>1. PICK from, to : edge = <<from, to>>
    BY DEF Traversed
  <2>2. edge[1] = from /\ edge[2] = to /\ <<from, to>> \in Traversed(f) /\ from # to
    BY <2>1
  <2>3. f \in Funcs /\ f \notin interrupted /\ f \notin DOMAIN start_floors
        /\ SlotOf(f) \in DOMAIN files /\ files[SlotOf(f)].edge_buf
    BY DEF Watched
  <2>4. stack # <<>> /\ dispatched
    BY DEF AtCollection, Running
  <2>5. EdgesKept(f)
    BY <2>3, <2>4 DEF LeafInv, IsLeaf
  <2>6. ~Pending(f, from, to)
    BY <2>4 DEF Pending
  <2>7. to \in BlocksOf(f) /\ ~EdgeMissing(f, from, to)
    BY <2>2, <2>3, <2>5, <2>6 DEF EdgesKept
  <2>8. to # EXIT
    BY <2>3, <2>7, AnalysisFacts DEF EXIT
  <2>9. <<from, i>> \in files[SlotOf(f)].edge_hit
    BY <2>2, <2>7 DEF EdgeMissing
  <2>10. OutsReported(f)
    BY <2>3 DEF BranchInfoKnown, OutsReported, SlotOf
  <2> QED
    BY <2>2, <2>3, <2>8, <2>9, <2>10 DEF OutHit
<1> QED
  BY <1>1, <1>2, <1>3, RecorderSound, PTL DEF LSpec
=============================================================================
