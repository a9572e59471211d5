--------------------------- MODULE CoverageLines ---------------------------
(***************************************************************************)
(* What xdebug_get_code_coverage returns (fxd_coverage_build_return),      *)
(* against what the engine really executed.  Three history variables keep  *)
(* the truth of the request: the ops that ran under coverage, the moves of *)
(* control inside a frame, and the functions that were not watched whole.  *)
(* Collection changes no state, so it is the operators below, looked at    *)
(* whenever a frame is inside an internal call.                            *)
(***************************************************************************)
EXTENDS Coverage

VARIABLES
  ran,          \* <<function, op>>: dispatched while active and wanted
  moved,        \* <<function, op, op>>: a frame continued from op to op in a branch session
  interrupted   \* the functions of which some frame was watched in part only

historyVars == <<ran, moved, interrupted>>
allVars == <<vars, historyVars>>

RanNow ==
  IF /\ ~dispatched /\ dispatched'
     /\ coverage_active /\ Wanted(FileOf[Top.fn]) /\ ~Top.exc
  THEN {<<Top.fn, Top.pc>>} ELSE {}

MovedNow ==
  IF ~(coverage_active /\ Branching) THEN {} ELSE
  {<<stack[i].fn, stack[i].pc, stack'[i].pc>> :
     i \in {j \in DOMAIN stack \cap DOMAIN stack' :
              /\ stack[j].pc # stack'[j].pc
              /\ Wanted(FileOf[stack[j].fn])}}

\* An exception leaves its block half-way; a stop or a new filter comes between
\* two ops of every frame on the stack; and one floor cannot stand for two
\* places where frames of a function were when coverage started.
InterruptedNow ==
  LET open == {stack[i].fn : i \in DOMAIN stack}
  IN  (IF coverage_active /\ ~coverage_active' THEN open ELSE {})
        \cup (IF filterVars' # filterVars THEN open ELSE {})
        \cup (IF sat_generation' = sat_generation THEN {}
              ELSE {f \in open : f \in DOMAIN start_floors \/ Cardinality(OpsInFlight(f)) > 1})
        \cup {stack'[i].fn : i \in {j \in DOMAIN stack' : stack'[j].exc}}

LInit == Init /\ ran = {} /\ moved = {} /\ interrupted = {}

LNext ==
  /\ Next
  /\ ran' = IF request' THEN ran \cup RanNow ELSE {}
  /\ moved' = IF request' THEN moved \cup MovedNow ELSE {}
  /\ interrupted' = IF request' THEN interrupted \cup InterruptedNow ELSE {}

LSpec == LInit /\ [][LNext]_allVars

-----------------------------------------------------------------------------
\* fxd_build_lines.

AtCollection == stack # <<>> /\ Running({"ICALL"}) /\ allocated

Greatest(S) == CHOOSE p \in S : \A q \in S : q <= p

\* The furthest op of each function in flight, while coverage is active.
Frontiers ==
  [f \in IF coverage_active THEN InFlight ELSE {} |-> Greatest(OpsInFlight(f))]

\* Slip: what lies past the current op is kept back in every block.
PastFrontierAnywhere(f, b, p) == f \in DOMAIN Frontiers /\ p > Frontiers[f]

\* A bound lies in the block, and the op on the given side of it.
PastFrontier(f, b, p) ==
  /\ f \in DOMAIN Frontiers
  /\ Frontiers[f] \in Analysis[f].start_op[b] .. Analysis[f].end_op[b]
  /\ p > Frontiers[f]

BeforeFloor(f, b, p) ==
  /\ f \in DOMAIN start_floors
  /\ start_floors[f] \in Analysis[f].start_op[b] .. Analysis[f].end_op[b]
  /\ p < start_floors[f]

\* The line entries of the hit blocks of f that are left after the clamps.
ReportedEntries(f) ==
  IF SlotOf(f) \notin DOMAIN files \/ files[SlotOf(f)].fn # f THEN {}
  ELSE UNION {{e \in Analysis[f].lines[b] :
                 ~PastFrontier(f, b, e.op) /\ ~BeforeFloor(f, b, e.op)} :
              b \in files[SlotOf(f)].block_hit}

\* The lines of a file reported with 1.
CoveredLines(file) ==
  {e.line : e \in UNION {ReportedEntries(f) : f \in {g \in Funcs : FileOf[g] = file}}}

\* The lines of a file reported with -1 (XDEBUG_CC_UNUSED).
UnusedLines(file) ==
  IF "UNUSED" \notin coverage_flags THEN {}
  ELSE (UNION {Analysis[files[s].fn].exec_lines : s \in {t \in DOMAIN files : t[1] = file}})
         \ CoveredLines(file)

\* Branches are only reported in a branch session, of a file that has some.
OutsReported(f) == Branching /\ FileOf[f] \in branch_info

\* out_hit[]: whether the i-th out of block b of f is reported as taken.
OutHit(f, b, i) ==
  /\ OutsReported(f)
  /\ SlotOf(f) \in DOMAIN files
  /\ IF Analysis[f].outs[b][i] = EXIT
     THEN b \in files[SlotOf(f)].block_hit
     ELSE <<b, i>> \in files[SlotOf(f)].edge_hit

-----------------------------------------------------------------------------
\* What the theorems assume of the programs, each where it is needed.

\* No jump and no catch lands behind the terminator of a block.
LandsInBlocks ==
  \A f \in Funcs : LET o == OpArray[f] IN
    \A p \in Ops(o) : \A q \in (NextOps(o.opcodes[p], p) \cup {o.opcodes[p].catch}) \cap Ops(o) :
      IsControlFlow(o, p) \/ q # p + 1 => q <= EndOp(o, OpToBlock(o)[q])

\* The analysis knows every jump, and where exceptions are caught.
FlowKnown ==
  \A f \in Funcs : LET o == OpArray[f] IN
    /\ KnowsJumps(o)
    /\ \A p \in Ops(o) : o.opcodes[p].catch # NONE => Code(o, o.opcodes[p].catch) = "CATCH"

\* A call is prepared by an op before it, of its block and on its line.
CallsPrepared ==
  \A f \in Funcs : LET o == OpArray[f] IN
    \A p \in Ops(o) : Code(o, p) \in {"CALL", "ICALL"} =>
      /\ p - 1 \in LineOps(o)
      /\ OpToBlock(o)[p - 1] = OpToBlock(o)[p]
      /\ Line(o, p - 1) = Line(o, p)

\* Every block has an op, up to its end, that the handler is called for.
BlocksHooked ==
  \A f \in Funcs : LET o == OpArray[f] IN
    \A b \in Blocks(o) : \E p \in StartOp(o, b) .. EndOp(o, b) : IsHooked(o, p)

\* No block leads to another one twice.
OutsDistinct ==
  \A f \in Funcs : LET o == OpArray[f] IN
    \A b \in Blocks(o) : \A i, j \in DOMAIN Outs(o, b) : Outs(o, b)[i] = Outs(o, b)[j] => i = j

-----------------------------------------------------------------------------

\* The blocks control moved between inside frames of f.
Traversed(f) ==
  {<<Analysis[f].op_to_block[m[2]], Analysis[f].op_to_block[m[3]]>> :
     m \in {n \in moved : n[1] = f}}

(* coverage.c promises lines "line-exact with Xdebug" (the frontier keeps    *)
(* back what lies past the current op): a line is reported although it did   *)
(* not run only if a frame of its function was interrupted, or two are in    *)
(* flight at different ops.  In particular {main}, in flight from start to   *)
(* collection, is exact.                                                     *)
InventedOnlyIfInterrupted ==
  AtCollection => \A f \in Funcs \ interrupted :
    Cardinality(OpsInFlight(f)) <= 1 => \A e \in ReportedEntries(f) : <<f, e.op>> \in ran

(* A line that ran is left out, or reported as unused, only by a clamp: only *)
(* in the block of its own function that a frame in flight is in, or that    *)
(* one was in when coverage started.                                         *)
MissedOnlyByClamp ==
  AtCollection => \A x \in ran :
    LET f == x[1]
        b == Analysis[f].op_to_block[x[2]]
        clamps == (IF f \in DOMAIN Frontiers THEN {Frontiers[f]} ELSE {})
                    \cup (IF f \in DOMAIN start_floors THEN {start_floors[f]} ELSE {})
    IN  \/ x[2] \notin LineOps(OpArray[f])
        \/ Line(OpArray[f], x[2]) \in CoveredLines(FileOf[f]) \ UnusedLines(FileOf[f])
        \/ clamps \cap (Analysis[f].start_op[b] .. Analysis[f].end_op[b]) # {}

(* Whatever is thrown, stopped or restarted, a covered line belongs to a     *)
(* block of which some op ran under coverage.                                *)
CoveredBlocksRan ==
  AtCollection => \A f \in Funcs :
    SlotOf(f) \in DOMAIN files => \A b \in files[SlotOf(f)].block_hit :
      \E p \in BlockOps(OpArray[f], b) : <<f, p>> \in ran

(* coverage.c: "two consecutive marks in the SAME frame whose block changed  *)
(* represent a real CFG edge": an edge is recorded that was not traversed    *)
(* only if a frame of its function was interrupted, whatever calls and       *)
(* returns come between two marks of a frame.                                *)
FalseEdgeOnlyIfInterrupted ==
  \A s \in DOMAIN files : files[s].fn \notin interrupted => \A e \in files[s].edge_hit :
    <<e[1], Analysis[files[s].fn].outs[e[1]][e[2]]>> \in Traversed(files[s].fn)

\* The functions all of whose frames have been watched in branch sessions.
Watched ==
  {f \in Funcs \ (interrupted \cup DOMAIN start_floors) :
     /\ SlotOf(f) \in DOMAIN files /\ files[SlotOf(f)].edge_buf
     /\ f \notin InFlight}

EdgesReported(f) ==
  \A edge \in Traversed(f) : \A i \in DOMAIN Analysis[f].outs[edge[1]] :
    Analysis[f].outs[edge[1]][i] = edge[2] /\ edge[1] # edge[2] => OutHit(f, edge[1], i)

(* design.md: recording "the actual edge traversed" gives edge hits "with    *)
(* the same taken/not-taken pattern as Xdebug": of a function that calls no  *)
(* user function, so that nothing else takes the edge slot between two marks *)
(* of a frame, every out that was traversed is reported as taken.  The flag  *)
(* of a file is set in time for it, and saturation does not stop the         *)
(* recording before the last edge.                                           *)
NoLeafEdgeMissed ==
  AtCollection /\ Branching =>
    \A f \in {g \in Watched : Callees[g] = {}} : EdgesReported(f)
=============================================================================
