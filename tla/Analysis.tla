------------------------------ MODULE Analysis ------------------------------
(***************************************************************************)
(* The block analysis of an op_array (src/src/analysis.c): which ops start *)
(* a basic block, which block an op belongs to, where a block ends, which  *)
(* blocks it leads to, and which source lines it stands for.               *)
(*                                                                         *)
(* An op_array is a record: `last' ops, numbered from 0 as in the engine,  *)
(* where opcodes[p] is [code, to, line, catch].  An opcode is abstracted   *)
(* to the class of opcodes the analysis and the virtual machine treat      *)
(* alike:                                                                  *)
(*                                                                         *)
(*   NOP     ZEND_NOP, ZEND_EXT_NOP, ZEND_OP_DATA: never hooked, no line   *)
(*   RECV    ZEND_RECV*, ZEND_TICKS, ZEND_FREE: hooked, no line            *)
(*   PLAIN   any other op that continues with the next one                 *)
(*   CALL    a call of a user function                                     *)
(*   ICALL   a call of an internal function, the xdebug_* API among them   *)
(*   SKIP    ZEND_COALESCE, ZEND_JMP_SET, ZEND_JMP_NULL...: may jump to    *)
(*           to[1], but fxd_find_jumps does not know these opcodes         *)
(*   JMP     ZEND_JMP, ZEND_GOTO                                           *)
(*   BRANCH  ZEND_JMPZ, ZEND_JMPNZ and their _EX forms, ZEND_FE_FETCH_*,   *)
(*           ZEND_FE_RESET_*, ZEND_JMP_FRAMELESS                           *)
(*   CATCH   ZEND_CATCH; `to' is empty for the last one of a chain         *)
(*   FAST_CALL, FAST_RET   entry to and exit from a finally block          *)
(*   RETURN, THROW         ZEND_RETURN*, ZEND_GENERATOR_RETURN; ZEND_THROW,*)
(*           ZEND_MATCH_ERROR: the ops that leave the function             *)
(*   SWITCH, MATCH         ZEND_SWITCH_*, ZEND_MATCH; `to' lists the cases *)
(*           and then the default                                          *)
(*                                                                         *)
(* `catch' is the op the engine's try/catch table sends an exception of    *)
(* the op to, or NONE.  The analysis does not look at it.                  *)
(***************************************************************************)
EXTENDS Integers, Sequences, FiniteSetsExt, Functions

CONSTANT
  MaxOuts       \* FXD_BRANCH_MAX_OUTS, the most successors of a block

ASSUME MaxOutsAssumption == MaxOuts \in Nat /\ MaxOuts >= 3

NONE == -1      \* no op: no block catches
EXIT == -1      \* FXD_JMP_EXIT, and the (uint32_t)-1 sentinel in outs[]

ControlFlow == {"JMP", "BRANCH", "CATCH", "FAST_CALL", "FAST_RET",
                "RETURN", "THROW", "SWITCH", "MATCH"}
OpCodes == ControlFlow \cup {"NOP", "RECV", "PLAIN", "CALL", "ICALL", "SKIP"}

\* Ops that stand for no source line.
LineIrrelevant == {"NOP", "RECV", "FAST_CALL"}

Ops(o) == 0 .. o.last - 1
Code(o, p) == o.opcodes[p].code
Line(o, p) == o.opcodes[p].line
IsControlFlow(o, p) == Code(o, p) \in ControlFlow
IsHooked(o, p) == Code(o, p) # "NOP"

\* Where the engine may continue, inside its function, after op p.
NextOps(op, p) ==
  CASE op.code = "SKIP" -> {p + 1, op.to[1]}
    [] op.code \in ControlFlow ->
         Range(op.to) \cup (IF op.code \in {"BRANCH", "CATCH", "SWITCH"} THEN {p + 1} ELSE {})
    [] OTHER -> {p + 1}

-----------------------------------------------------------------------------

\* The cases of a SWITCH or MATCH (to without its default) that fit in outs[]
\* beside the default and the fall-through.
Cases(to) ==
  SubSeq(to, 1, IF Len(to) - 1 < MaxOuts - 2 THEN Len(to) - 1 ELSE MaxOuts - 2)

\* fxd_find_jumps: the ops (or EXIT) a control-flow op may continue with.
Jumps(o, p) ==
  LET to == o.opcodes[p].to
  IN CASE Code(o, p) = "JMP"       -> to
       [] Code(o, p) = "BRANCH"    -> <<p + 1, to[1]>>
       [] Code(o, p) = "CATCH"     -> IF to = <<>> THEN <<p + 1, EXIT>>
                                      ELSE IF to[1] = p + 1 THEN <<p + 1>>
                                      ELSE <<p + 1, to[1]>>
       [] Code(o, p) = "FAST_CALL" -> <<to[1], p + 1>>
       [] Code(o, p) = "SWITCH"    -> Cases(to) \o <<to[Len(to)], p + 1>>
       [] Code(o, p) = "MATCH"     -> Cases(to) \o <<to[Len(to)]>>
       [] Code(o, p) \in {"FAST_RET", "RETURN", "THROW"} -> <<EXIT>>
       [] OTHER -> <<>>

\* fxd_mark_leaders: entries and explicit jump targets start a block; the op
\* after an unconditional terminator does not.
Leaders(o) ==
  {0} \cup {p \in Ops(o) : Code(o, p) = "CATCH"}
      \cup {t \in Ops(o) : \E p \in Ops(o) : t \in Range(Jumps(o, p))}

NumBlocks(o) == Cardinality(Leaders(o))
Blocks(o) == 0 .. NumBlocks(o) - 1

\* op_to_block: blocks are numbered in the order of their leaders.
OpToBlock(o) ==
  [p \in Ops(o) |-> Cardinality({l \in Leaders(o) : l <= p}) - 1]

BlockOps(o, b) == {p \in Ops(o) : OpToBlock(o)[p] = b}
StartOp(o, b) == Min(BlockOps(o, b))

\* A block is closed by its first control-flow op; the ops after it, up to
\* the next leader, still map to the block but extend neither it nor its lines.
EndOp(o, b) ==
  LET terminators == {p \in BlockOps(o, b) : IsControlFlow(o, p)}
  IN  IF terminators = {} THEN Max(BlockOps(o, b)) ELSE Min(terminators)

IsEntry(o, b) == StartOp(o, b) = 0 \/ Code(o, StartOp(o, b)) = "CATCH"

\* The jumps that stay in the op_array or leave it: FXD_JMP_NOT_SET and what
\* lies past the last op is dropped.
Kept(o, jumps) == {i \in DOMAIN jumps : jumps[i] \in Ops(o) \cup {EXIT}}

\* The k-th of a set of positions.
Nth(positions, k) ==
  CHOOSE i \in positions : Cardinality({j \in positions : j <= i}) = k

\* outs[]: the successors of a block, in the order of its terminator's jumps.
Outs(o, b) ==
  LET last == EndOp(o, b)
      jumps == Jumps(o, last)
      kept == Kept(o, jumps)
      block(t) == IF t = EXIT THEN EXIT ELSE OpToBlock(o)[t]
  IN  IF IsControlFlow(o, last)
      THEN [k \in 1 .. Cardinality(kept) |-> block(jumps[Nth(kept, k)])]
      ELSE IF last + 1 < o.last THEN <<OpToBlock(o)[last + 1]>>
      ELSE <<>>

-----------------------------------------------------------------------------

LineOps(o) == {p \in Ops(o) : Code(o, p) \notin LineIrrelevant}

\* lines[] and line_ops[]: a line of the block with the op it first appears
\* at; a run of ops on one line is one entry.
LineEntries(o, b) ==
  LET ops == LineOps(o) \cap (StartOp(o, b) .. EndOp(o, b))
      repeats(p) == LET earlier == {q \in ops : q < p}
                    IN  earlier # {} /\ Line(o, Max(earlier)) = Line(o, p)
  IN  {[line |-> Line(o, p), op |-> p] : p \in {q \in ops : ~repeats(q)}}

\* fxd_collect_exec_lines.
ExecLines(o) == {Line(o, p) : p \in LineOps(o)}

\* fxd_analyse_op_array: the fxd_analysis of an op_array.
Analyse(o) ==
  [num_ops     |-> o.last,
   num_blocks  |-> NumBlocks(o),
   op_to_block |-> OpToBlock(o),
   outs        |-> [b \in Blocks(o) |-> Outs(o, b)],
   start_op    |-> [b \in Blocks(o) |-> StartOp(o, b)],
   end_op      |-> [b \in Blocks(o) |-> EndOp(o, b)],
   is_entry    |-> [b \in Blocks(o) |-> IsEntry(o, b)],
   lines       |-> [b \in Blocks(o) |-> LineEntries(o, b)],
   exec_lines  |-> ExecLines(o)]

\* The edges counted into edges_total by fxd_get_runtime, as <<block, index>>.
RealEdges(a) ==
  {e \in (0 .. a.num_blocks - 1) \X (1 .. MaxOuts) :
      e[2] \in DOMAIN a.outs[e[1]] /\ a.outs[e[1]][e[2]] # EXIT}

\* An op_array the engine can hand to the analysis.
IsOpArray(o) ==
  /\ o.last \in Nat \ {0}
  /\ DOMAIN o.opcodes = Ops(o)
  /\ \A p \in Ops(o) :
       /\ Code(o, p) \in OpCodes
       /\ Line(o, p) \in Nat \ {0}
       /\ o.opcodes[p].to \in Seq(Ops(o))
       /\ o.opcodes[p].catch \in Ops(o) \cup {NONE}
       /\ Len(o.opcodes[p].to) =
            CASE Code(o, p) \in {"JMP", "BRANCH", "FAST_CALL", "SKIP"} -> 1
              [] Code(o, p) = "CATCH" -> IF o.opcodes[p].to = <<>> THEN 0 ELSE 1
              [] Code(o, p) \in {"SWITCH", "MATCH"} -> Len(o.opcodes[p].to)
              [] OTHER -> 0
       /\ Code(o, p) \in {"SWITCH", "MATCH"} => o.opcodes[p].to # <<>>

\* The analysis knows all the jumps of o: no opcode it takes for straight-line
\* code jumps, and the cases of every switch and match fit in outs[].
KnowsJumps(o) ==
  \A p \in Ops(o) :
    /\ Code(o, p) # "SKIP"
    /\ Code(o, p) \in {"SWITCH", "MATCH"} => Len(o.opcodes[p].to) <= MaxOuts - 1
=============================================================================
