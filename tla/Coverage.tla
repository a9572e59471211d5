------------------------------ MODULE Coverage ------------------------------
(***************************************************************************)
(* The coverage recorder of src/src/coverage.c with all its caches: the    *)
(* per-file tables of function runtimes, the session generation, the       *)
(* saturation mark of each analysis, the single-slot fast path, the        *)
(* single-slot edge cache and the start floors; driven by the engine       *)
(* (ZendVM) and by the xdebug_* calls and request hooks of fast_xdebug.c.  *)
(*                                                                         *)
(* A function stands for its `opcodes' pointer and so for its fxd_analysis *)
(* too: op_arrays are assumed to live as long as the request.              *)
(***************************************************************************)
EXTENDS CoverageFilter

CONSTANTS
  KeyOf,        \* [Funcs -> keys]: fxd_function_key of the op_array
  NoFunc,       \* the NULL of sat_last_opcodes
  FlagSets,     \* the option sets coverage is started with
  CoverageMode, \* the resolved xdebug.mode contains "coverage"
  MaxGeneration \* bound on the number of coverage sessions

Flags == {"UNUSED", "DEAD_CODE", "BRANCH_CHECK"}

ASSUME CoverageAssumption ==
  /\ DOMAIN KeyOf = Funcs
  /\ NoFunc \notin Funcs
  /\ FlagSets \subseteq SUBSET Flags
  /\ CoverageMode \in BOOLEAN
  /\ MaxGeneration \in Nat

VARIABLES
  coverage_active,
  coverage_flags,
  allocated,        \* FXD_G(files) and FXD_G(start_floors) are not NULL
  files,            \* <<filename, function key>> -> fxd_runtime
  branch_info,      \* the files whose has_branch_info is set
  start_floors,     \* function -> least op one of its frames started at
  edge_last,        \* the edge slot: frame (0 is NULL), runtime, block
  sat_generation,
  saturation,       \* function -> sat_saturated, sat_generation
  sat_last_opcodes

sessionVars == <<coverage_active, coverage_flags, start_floors>>
dataVars == <<allocated, files, branch_info>>
slotVars == <<edge_last, sat_last_opcodes>>
satVars == <<sat_generation, saturation>>
recorderVars == <<sessionVars, dataVars, slotVars, satVars>>
vars == <<vmVars, filterVars, recorderVars>>

Analysis == [f \in Funcs |-> Analyse(OpArray[f])]

SlotOf(f) == <<FileOf[f], KeyOf[f]>>
Slots == {SlotOf(f) : f \in Funcs}
NoSlot == <<>>

BlocksOf(f) == 0 .. Analysis[f].num_blocks - 1
EdgesOf(f) == RealEdges(Analysis[f])

Runtimes == [fn : Funcs, block_hit : SUBSET Nat,
             edge_buf : BOOLEAN, edge_hit : SUBSET (Nat \X (1 .. MaxOuts))]

NotSaturated == [saturated |-> FALSE, generation |-> 0]
NoEdge == [frame |-> 0, rt |-> NoSlot, block |-> 0]

TypeOK ==
  /\ VMTypeOK /\ FilterTypeOK
  /\ coverage_active \in BOOLEAN
  /\ coverage_flags \in SUBSET Flags
  /\ allocated \in BOOLEAN
  /\ DOMAIN files \subseteq Slots
  /\ files \in [DOMAIN files -> Runtimes]
  /\ branch_info \subseteq Files
  /\ DOMAIN start_floors \subseteq Funcs
  /\ start_floors \in [DOMAIN start_floors -> Nat]
  /\ edge_last \in [frame : Nat, rt : Slots \cup {NoSlot}, block : Nat]
  /\ sat_generation \in 0 .. MaxGeneration
  /\ saturation \in [Funcs -> [saturated : BOOLEAN, generation : Nat]]
  /\ sat_last_opcodes \in Funcs \cup {NoFunc}

Init ==
  /\ VMInit /\ FilterInit
  /\ coverage_active = FALSE /\ coverage_flags = {}
  /\ allocated = FALSE /\ files = <<>> /\ branch_info = {}
  /\ start_floors = <<>>
  /\ edge_last = NoEdge
  /\ sat_generation = 0
  /\ saturation = [f \in Funcs |-> NotSaturated]
  /\ sat_last_opcodes = NoFunc

-----------------------------------------------------------------------------
\* The runtime handler: fxd_mark, one disjunct per way out of it.

Branching == "BRANCH_CHECK" \in coverage_flags

Saturated(f) ==
  saturation[f].saturated /\ saturation[f].generation = sat_generation

\* Slip: the filter is not consulted.
ReachesAnyFile == coverage_active /\ sat_last_opcodes # Top.fn

\* The guards fxd_mark has passed once it looks at the analysis.
ReachesAnalysis ==
  /\ coverage_active
  /\ sat_last_opcodes # Top.fn
  /\ Wanted(FileOf[Top.fn])

MarkReturnsEarly ==
  /\ \/ ~coverage_active
     \/ sat_last_opcodes = Top.fn
     \/ ~Wanted(FileOf[Top.fn])
     \/ ReachesAnalysis /\ ~Saturated(Top.fn) /\ Top.exc
  /\ UNCHANGED recorderVars

MarkReprimesSlot ==
  /\ ReachesAnalysis /\ Saturated(Top.fn)
  /\ sat_last_opcodes' = Top.fn
  /\ UNCHANGED <<sessionVars, dataVars, edge_last, satVars>>

\* fxd_get_runtime: the runtime under the function's key, made on first use;
\* only a runtime made under XDEBUG_CC_BRANCH_CHECK has an edge buffer.
RuntimeFor(f) ==
  IF SlotOf(f) \in DOMAIN files THEN files[SlotOf(f)]
  ELSE [fn |-> f, block_hit |-> {}, edge_buf |-> Branching, edge_hit |-> {}]

EdgesTotal(rt) == IF rt.edge_buf THEN Cardinality(EdgesOf(rt.fn)) ELSE 0

\* Slips: the index of the first successor is 0; the flag of the next successor.
EdgeTakenFromZero(f, b) ==
  {<<edge_last.block, i - 1>> :
     i \in {j \in DOMAIN Analysis[f].outs[edge_last.block] :
              edge_last.rt = SlotOf(f) /\ Analysis[f].outs[edge_last.block][j] = b}}

EdgeAfterTaken(f, b) ==
  {<<edge_last.block, i + 1>> :
     i \in {j \in DOMAIN Analysis[f].outs[edge_last.block] :
              /\ edge_last.frame = Depth /\ edge_last.rt = SlotOf(f)
              /\ edge_last.block # b
              /\ Analysis[f].outs[edge_last.block][j] = b}}

\* The edge from the block in the edge slot to block b, if the slot is of
\* this frame and runtime: the first of equal successors stands for all.
EdgeTaken(f, b) ==
  LET from == edge_last.block
      outs == Analysis[f].outs[from]
      indices == {i \in 1 .. MaxOuts : i \in DOMAIN outs /\ outs[i] = b}
  IN  IF /\ edge_last.frame = Depth
         /\ edge_last.rt = SlotOf(f)
         /\ from # b
         /\ from < Analysis[f].num_blocks
      THEN {<<from, i>> : i \in {j \in indices : \A k \in indices : j <= k}}
      ELSE {}

AfterMark(f, b) ==
  LET rt == RuntimeFor(f)
  IN  [rt EXCEPT !.block_hit = @ \cup {b},
                 !.edge_hit = @ \cup (IF Branching /\ rt.edge_buf
                                      THEN EdgeTaken(f, b) ELSE {})]

\* Slips: the edges are not waited for; one block too early.
CompletesOnBlocks(f, b) ==
  Cardinality(AfterMark(f, b).block_hit) >= Analysis[f].num_blocks

CompletesEarly(f, b) ==
  Cardinality(AfterMark(f, b).block_hit) + 1 >= Analysis[f].num_blocks

\* Whether the mark of block b saturates f: looked at on a new block, and on
\* a repeated one only when there are edges to complete.
Completes(f, b) ==
  LET rt == AfterMark(f, b)
  IN  /\ Cardinality(rt.block_hit) >= Analysis[f].num_blocks
      /\ Branching => Cardinality(rt.edge_hit) >= EdgesTotal(rt)
      /\ b \in RuntimeFor(f).block_hit => Branching /\ rt.edge_buf

MarkRecords ==
  /\ ReachesAnalysis /\ ~Saturated(Top.fn) /\ ~Top.exc
  /\ LET f == Top.fn
         b == Analysis[f].op_to_block[Top.pc]
         rt == RuntimeFor(f)
     IN  /\ files' = [s \in DOMAIN files \cup {SlotOf(f)} |->
                        IF s = SlotOf(f) THEN AfterMark(f, b) ELSE files[s]]
         /\ IF Branching /\ rt.edge_buf
            THEN /\ branch_info' = branch_info \cup {FileOf[f]}
                 /\ edge_last' = [frame |-> Depth, rt |-> SlotOf(f), block |-> b]
            ELSE UNCHANGED <<branch_info, edge_last>>
         /\ IF Completes(f, b)
            THEN /\ saturation' = [saturation EXCEPT
                       ![f] = [saturated |-> TRUE, generation |-> sat_generation]]
                 /\ sat_last_opcodes' = f
            ELSE UNCHANGED <<saturation, sat_last_opcodes>>
  /\ UNCHANGED <<sessionVars, allocated, sat_generation>>

Dispatch ==
  /\ VMDispatch
  /\ MarkReturnsEarly \/ MarkReprimesSlot \/ MarkRecords
  /\ UNCHANGED filterVars

Run == VMStep /\ UNCHANGED <<filterVars, recorderVars>>

-----------------------------------------------------------------------------
\* The userland API, called by an internal-call op of the running frame.

\* fxd_snapshot_oplines: the ops the wanted frames of f are at.
OpsInFlight(f) ==
  {stack[i].pc : i \in {j \in DOMAIN stack : stack[j].fn = f /\ Wanted(FileOf[f])}}

InFlight == {f \in Funcs : OpsInFlight(f) # {}}

\* Slip: no snapshot is taken.
KeepFloors == start_floors

\* A snapshot keeps an earlier floor of the request when that is lower.
LowerFloors ==
  [f \in DOMAIN start_floors \cup InFlight |->
     LET ops == OpsInFlight(f)
                  \cup (IF f \in DOMAIN start_floors THEN {start_floors[f]} ELSE {})
     IN  CHOOSE p \in ops : \A q \in ops : p <= q]

\* Slips: the edge slot, or the fast path, of an earlier session is kept.
ResetFastPathOnly == sat_last_opcodes' = NoFunc /\ UNCHANGED edge_last
ResetEdgeSlotOnly == edge_last' = NoEdge /\ UNCHANGED sat_last_opcodes

\* A session starts with empty slots.
ResetSlots == edge_last' = NoEdge /\ sat_last_opcodes' = NoFunc

StartCoverage(flags) ==
  /\ AfterInternalCall
  /\ CoverageMode
  /\ sat_generation < MaxGeneration
  /\ allocated' = TRUE
  /\ coverage_flags' = flags
  /\ coverage_active' = TRUE
  /\ ResetSlots
  /\ sat_generation' = sat_generation + 1
  /\ start_floors' = LowerFloors
  /\ UNCHANGED <<filterVars, files, branch_info, saturation>>

\* xdebug_stop_code_coverage: its cleanup argument is ignored.
StopCoverage ==
  /\ AfterInternalCall
  /\ coverage_active' = FALSE
  /\ UNCHANGED <<filterVars, coverage_flags, start_floors, dataVars, slotVars, satVars>>

SetFilter ==
  /\ AfterInternalCall
  /\ \E list \in FilterLists : ReplaceFilter(list)
  /\ UNCHANGED recorderVars

-----------------------------------------------------------------------------
\* Request hooks.

RInit ==
  /\ VMStartRequest
  /\ coverage_active' = FALSE
  /\ coverage_flags' = {}
  /\ allocated' = FALSE
  /\ files' = <<>>
  /\ branch_info' = {}
  /\ ResetFilter
  /\ UNCHANGED <<start_floors, slotVars, satVars>>

\* Slip: the analyses outlive the request.
KeepAnalyses == UNCHANGED saturation

\* The analyses are freed, with their saturation marks.
FreeAnalyses == saturation' = [f \in Funcs |-> NotSaturated]

\* The slots and coverage_active keep their values.
RShutdown ==
  /\ VMEndRequest
  /\ FreeAnalyses
  /\ allocated' = FALSE
  /\ files' = <<>>
  /\ branch_info' = {}
  /\ start_floors' = <<>>
  /\ FreeFilter
  /\ UNCHANGED <<coverage_active, coverage_flags, slotVars, sat_generation>>

Next ==
  \/ Dispatch \/ Run
  \/ \E flags \in FlagSets : StartCoverage(flags)
  \/ StopCoverage \/ SetFilter
  \/ RInit \/ RShutdown

Spec == Init /\ [][Next]_vars

-----------------------------------------------------------------------------
\* Properties.

(* A saturated function has nothing left to record: all its blocks are hit   *)
(* and, in a branch session, all the edges its runtime has a buffer for.     *)
(* This is what lets fxd_mark skip it altogether.                            *)
SaturationSound ==
  \A f \in Funcs : Saturated(f) =>
    /\ SlotOf(f) \in DOMAIN files
    /\ files[SlotOf(f)].block_hit = BlocksOf(f)
    /\ Branching /\ files[SlotOf(f)].edge_buf =>
         files[SlotOf(f)].edge_hit = EdgesOf(f)

(* The pointer compare of the fast path never fires on a function that is    *)
(* not saturated in the running session, whatever sessions and requests came *)
(* before: sat_last_opcodes is reset by neither RINIT nor RSHUTDOWN.         *)
FastPathSound ==
  request /\ coverage_active /\ sat_last_opcodes # NoFunc =>
    Saturated(sat_last_opcodes)

(* Every runtime belongs to the function it is filed under, and its buffers  *)
(* are only written at blocks and edges that function has: the index into    *)
(* block_hit[] comes from one analysis, the size of the array from another.  *)
RuntimesOwned ==
  \A s \in DOMAIN files :
    LET rt == files[s]
    IN  /\ s = SlotOf(rt.fn)
        /\ rt.block_hit \subseteq BlocksOf(rt.fn)
        /\ rt.edge_hit \subseteq EdgesOf(rt.fn)
        /\ ~rt.edge_buf => rt.edge_hit = {}

\* The blocks an edge of f joins.
EdgeEnds(f, e) == {e[1], Analysis[f].outs[e[1]][e[2]]}

(* A recorded edge joins two recorded blocks: the collector reports no       *)
(* branch as taken out of or into a block it reports as not executed.        *)
EdgesJoinHitBlocks ==
  \A s \in DOMAIN files : \A e \in files[s].edge_hit :
    EdgeEnds(files[s].fn, e) \subseteq files[s].block_hit

(* While coverage is active in a request, the tables the handler writes to   *)
(* exist and the edge slot points to a live runtime and a block it has hit,  *)
(* although requests end and free the tables without resetting the slot.     *)
ActiveStateIsLive ==
  request /\ coverage_active =>
    /\ allocated
    /\ edge_last.frame # 0 =>
         /\ edge_last.rt \in DOMAIN files
         /\ edge_last.block \in files[edge_last.rt].block_hit

(* A mark is never of a later session than the running one, and no mark and  *)
(* no runtime outlives its request: a stale mark would make a function of    *)
(* the next request be skipped although nothing of it is recorded.           *)
MarksOfRequest ==
  /\ \A f \in Funcs : saturation[f].generation <= sat_generation
  /\ ~request => /\ DOMAIN files = {}
                 /\ \A f \in Funcs : ~saturation[f].saturated

\* What the caches' soundness rests on: no two functions of a file share a key.
KeysDistinct == \A f, g \in Funcs : SlotOf(f) = SlotOf(g) => f = g

\* Under KeysDistinct, the inductive invariant of the recorder.
IInv ==
  /\ TypeOK
  /\ RuntimesOwned /\ SaturationSound /\ FastPathSound
  /\ ActiveStateIsLive /\ EdgesJoinHitBlocks /\ MarksOfRequest

\* The abstract recorder that the caches must not be told apart from.
Recorded ==
  UNION {{f} \X files[SlotOf(f)].block_hit : f \in {g \in Funcs : SlotOf(g) \in DOMAIN files}}

Recorder == INSTANCE BlockRecorder WITH
              recorded <- Recorded,
              BlockOf <- [f \in Funcs |-> OpToBlock(OpArray[f])]

(* The saturation marks, the fast path and the keyed tables lose no block    *)
(* and invent none: Coverage implements BlockRecorder.                       *)
ImplementsBlockRecorder == Recorder!Spec

(* coverage.c: "Mark the analysis saturated once every block (and, in branch *)
(* mode, every real edge) has been seen."                                    *)
SaturatedHasEveryEdge ==
  \A f \in Funcs : Branching /\ Saturated(f) =>
    /\ SlotOf(f) \in DOMAIN files
    /\ files[SlotOf(f)].edge_hit = EdgesOf(f)
=============================================================================
