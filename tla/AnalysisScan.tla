---------------------------- MODULE AnalysisScan ----------------------------
(***************************************************************************)
(* The loops of fxd_analyse_op_array, one iteration a step: mark the       *)
(* leaders, count them, assign the ops to blocks while the current block   *)
(* is open, fill the successors, collect the executable lines.  Module     *)
(* Analysis gives the declarative meaning the other modules use; here the  *)
(* loops are checked to compute it for every op_array of a bounded set.    *)
(***************************************************************************)
EXTENDS Analysis, SequencesExt

CONSTANT
  OpArrays      \* the op_arrays to analyse

ASSUME OpArraysAssumption == \A o \in OpArrays : IsOpArray(o)

VARIABLES
  o,            \* the op_array
  phase,        \* the loop that is running
  pos,          \* its index: an op, or a block in phase "outs"
  is_leader,    \* set of the ops marked in is_leader[]
  num_blocks,
  block_id,     \* the block being filled, -1 before the first
  closed,       \* its terminator has been seen
  op_to_block,  \* the prefix assigned so far
  blocks,       \* id -> [start_op, end_op, is_entry, lines, outs]
  exec_lines    \* sequence of lines, adjacent repeats removed

vars == <<o, phase, pos, is_leader, num_blocks, block_id, closed,
          op_to_block, blocks, exec_lines>>

Phases == {"leaders", "count", "assign", "outs", "lines", "done"}

TypeOK ==
  /\ phase \in Phases
  /\ pos \in 0 .. o.last
  /\ is_leader \subseteq Ops(o)
  /\ num_blocks \in 0 .. o.last
  /\ block_id \in -1 .. o.last - 1
  /\ closed \in BOOLEAN
  /\ DOMAIN op_to_block \subseteq Ops(o)
  /\ DOMAIN blocks = 0 .. block_id
  /\ \A p \in DOMAIN op_to_block : op_to_block[p] \in DOMAIN blocks
  /\ \A b \in DOMAIN blocks :
       /\ blocks[b].start_op \in Ops(o)
       /\ blocks[b].end_op \in blocks[b].start_op .. o.last - 1
       /\ \A i \in DOMAIN blocks[b].outs : blocks[b].outs[i] \in DOMAIN blocks \cup {EXIT}
       /\ Len(blocks[b].outs) <= MaxOuts

Init ==
  /\ o \in OpArrays
  /\ phase = "leaders" /\ pos = 0
  /\ is_leader = {0} /\ num_blocks = 0
  /\ block_id = -1 /\ closed = FALSE
  /\ op_to_block = <<>> /\ blocks = <<>> /\ exec_lines = <<>>

-----------------------------------------------------------------------------

\* End of a loop iteration: the next index, or the next loop.
Advance(bound, next) ==
  IF pos + 1 < bound THEN pos' = pos + 1 /\ phase' = phase
                     ELSE pos' = 0 /\ phase' = next

MarkLeaders ==
  /\ phase = "leaders"
  /\ is_leader' = is_leader
       \cup (IF Code(o, pos) = "CATCH" THEN {pos} ELSE {})
       \cup (ToSet(Jumps(o, pos)) \cap Ops(o))
  /\ Advance(o.last, "count")
  /\ UNCHANGED <<o, num_blocks, block_id, closed, op_to_block, blocks, exec_lines>>

CountBlocks ==
  /\ phase = "count"
  /\ num_blocks' = num_blocks + (IF pos \in is_leader THEN 1 ELSE 0)
  /\ Advance(o.last, "assign")
  /\ UNCHANGED <<o, is_leader, block_id, closed, op_to_block, blocks, exec_lines>>

\* The block a leader opens; end_op and lines are filled by AddOp.
OpenBlock(p) ==
  [start_op |-> p, end_op |-> p, is_entry |-> p = 0 \/ Code(o, p) = "CATCH",
   lines |-> <<>>, outs |-> <<>>]

\* Slip: every op gets a line entry of its own.
AddOpAndLine(b, p) ==
  [b EXCEPT !.end_op = p,
            !.lines = IF Code(o, p) \in LineIrrelevant THEN @
                      ELSE Append(@, [line |-> Line(o, p), op |-> p])]

\* An open block takes in an op: a new line entry unless the last one has
\* the same line.
AddOp(b, p) ==
  LET relevant == Code(o, p) \notin LineIrrelevant
      repeats == b.lines # <<>> /\ Last(b.lines).line = Line(o, p)
  IN  [b EXCEPT !.end_op = p,
                !.lines = IF relevant /\ ~repeats
                          THEN Append(@, [line |-> Line(o, p), op |-> p])
                          ELSE @]

AssignOps ==
  /\ phase = "assign"
  /\ LET leader == pos \in is_leader
         id == IF leader THEN block_id + 1 ELSE block_id
         open == leader \/ ~closed
         block == IF leader THEN OpenBlock(pos) ELSE blocks[id]
     IN  /\ block_id' = id
         /\ op_to_block' = [p \in 0 .. pos |-> IF p = pos THEN id ELSE op_to_block[p]]
         /\ blocks' = [b \in 0 .. id |->
                         IF b # id THEN blocks[b]
                         ELSE IF open THEN AddOp(block, pos) ELSE block]
         /\ closed' = (~open \/ IsControlFlow(o, pos))
  /\ Advance(o.last, "outs")
  /\ UNCHANGED <<o, is_leader, num_blocks, exec_lines>>

\* Slip: the target op instead of its block.
OutOfOp(t) == IF t \in Ops(o) \cup {EXIT} THEN <<t>> ELSE <<>>

\* The out a jump target becomes, if any.
OutOf(t) == IF t = EXIT THEN <<EXIT>>
            ELSE IF t \in Ops(o) THEN <<op_to_block[t]>> ELSE <<>>

\* Slip: a block that falls through gets no successor.
FillJumpOuts ==
  /\ phase = "outs"
  /\ LET jumps == Jumps(o, blocks[pos].end_op)
     IN  blocks' = [blocks EXCEPT ![pos].outs =
                      FlattenSeq([i \in DOMAIN jumps |-> OutOf(jumps[i])])]
  /\ Advance(num_blocks, "lines")
  /\ UNCHANGED <<o, is_leader, num_blocks, block_id, closed, op_to_block, exec_lines>>

FillOuts ==
  /\ phase = "outs"
  /\ LET last == blocks[pos].end_op
         outs == IF IsControlFlow(o, last)
                 THEN FlattenSeq([i \in DOMAIN Jumps(o, last) |-> OutOf(Jumps(o, last)[i])])
                 ELSE IF last + 1 < o.last THEN <<op_to_block[last + 1]>>
                 ELSE <<>>
     IN  blocks' = [blocks EXCEPT ![pos].outs =
                      SubSeq(outs, 1, IF Len(outs) < MaxOuts THEN Len(outs) ELSE MaxOuts)]
  /\ Advance(num_blocks, "lines")
  /\ UNCHANGED <<o, is_leader, num_blocks, block_id, closed, op_to_block, exec_lines>>

CollectExecLines ==
  /\ phase = "lines"
  /\ exec_lines' = IF \/ Code(o, pos) \in LineIrrelevant
                      \/ exec_lines # <<>> /\ Last(exec_lines) = Line(o, pos)
                   THEN exec_lines
                   ELSE Append(exec_lines, Line(o, pos))
  /\ Advance(o.last, "done")
  /\ UNCHANGED <<o, is_leader, num_blocks, block_id, closed, op_to_block, blocks>>

Next == MarkLeaders \/ CountBlocks \/ AssignOps \/ FillOuts \/ CollectExecLines

Spec == Init /\ [][Next]_vars

-----------------------------------------------------------------------------

\* What the loops have built, in the form of Analyse.
Result ==
  [num_ops     |-> o.last,
   num_blocks  |-> num_blocks,
   op_to_block |-> op_to_block,
   outs        |-> [b \in DOMAIN blocks |-> blocks[b].outs],
   start_op    |-> [b \in DOMAIN blocks |-> blocks[b].start_op],
   end_op      |-> [b \in DOMAIN blocks |-> blocks[b].end_op],
   is_entry    |-> [b \in DOMAIN blocks |-> blocks[b].is_entry],
   lines       |-> [b \in DOMAIN blocks |-> ToSet(blocks[b].lines)],
   exec_lines  |-> ToSet(exec_lines)]

(* The single forward scan of analysis.c, with its `closed' flag and its     *)
(* running block id, computes the block structure Analysis defines.          *)
ScanComputesAnalysis == phase = "done" => Result = Analyse(o)

\* The ops the engine can continue with after op p of the function.
Successors(p) ==
  (IF Code(o, p) = "FAST_RET"
   THEN {q + 1 : q \in {r \in Ops(o) : Code(o, r) = "FAST_CALL"}}
   ELSE NextOps(o.opcodes[p], p)) \cap Ops(o)

Entries == {0} \cup {p \in Ops(o) : Code(o, p) = "CATCH"}

\* The ops the function can execute, from its entry and its catch blocks: those
\* in every set that holds the entries and what follows its ops.
Reachable ==
  {p \in Ops(o) : \A R \in SUBSET Ops(o) :
     Entries \subseteq R /\ (\A r \in R : Successors(r) \subseteq R) => p \in R}

(* Control moves between two executable ops of different blocks only along   *)
(* an edge of outs[], it always enters a block at its leader and leaves it   *)
(* at its end: what recording one bit per block and one per edge relies on.  *)
(* The return from a finally block is the exception: analysis.c gives        *)
(* FAST_RET only an exit.                                                    *)
FlowFollowsEdges ==
  phase = "done" /\ KnowsJumps(o) =>
    \A p \in {r \in Reachable : Code(o, r) # "FAST_RET"} : \A q \in Successors(p) :
      LET from == op_to_block[p]
          to == op_to_block[q]
      IN  \/ from = to /\ q = p + 1 /\ p < blocks[from].end_op
          \/ /\ p = blocks[from].end_op
             /\ q = blocks[to].start_op
             /\ \E i \in DOMAIN blocks[from].outs : blocks[from].outs[i] = to
=============================================================================
