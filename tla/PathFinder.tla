----------------------------- MODULE PathFinder -----------------------------
(***************************************************************************)
(* The paths of a function in a branch collection (src/src/coverage.c):    *)
(* fxd_build_function asks the memory guard and then walks the block graph *)
(* from every entry with fxd_find_paths, a recursive search whose buffers  *)
(* stack[] and outidx[] are shared by all its calls and all the entries.   *)
(* The search is modelled call by call: `calls' is the C stack, and an     *)
(* iteration of a call's loop is a step.                                   *)
(*                                                                         *)
(* A behaviour looks at one function.  What fxd_mark records of it is      *)
(* taken from whole executions, as sequences of blocks (module             *)
(* CoverageLines shows that a function without user calls is recorded so). *)
(***************************************************************************)
EXTENDS Analysis, SequencesExt

CONSTANTS
  OpArrays,      \* the functions
  Limits,        \* values of memory_limit, in bytes; UNLIMITED among them
  CapOf,         \* the path cap of each limit: 256, 1024 or FXD_MAX_PATHS
  Usages,        \* values of zend_memory_usage at collection
  MaxExecutions, \* bound on the executions recorded
  MaxSteps       \* bound on the blocks of an execution

UNLIMITED == -1

ASSUME PathFinderAssumption ==
  /\ \A o \in OpArrays : IsOpArray(o)
  /\ Limits \subseteq Nat \cup {UNLIMITED}
  /\ CapOf \in [Limits -> Nat \ {0}]
  /\ Usages \subseteq Nat
  /\ {MaxExecutions, MaxSteps} \subseteq Nat

VARIABLES
  phase,         \* "off", "recording", "searching" or "collected"
  a,             \* the fxd_analysis of the function
  block_hit, edge_hit,
  edge_buf,      \* its runtime was made in a branch session
  memory_limit, memory_guard_ini,    \* the ini settings
  memory_limit_bytes, memory_guard, effective_max_paths,  \* latched at start
  entry,         \* the entry block the loop of fxd_build_function is at
  calls,         \* the calls of fxd_find_paths: block, loop counter, found
  stack, outidx, \* the shared buffers
  paths,         \* paths_out
  skipped,       \* under memory pressure no path is looked for
  \* History:
  executions,    \* the executions recorded
  used,          \* the memory usage at the last collection
  started        \* the settings when coverage was last started

function == <<a, edge_buf>>
hits == <<block_hit, edge_hit, executions>>
settings == <<memory_limit, memory_guard_ini>>
latched == <<memory_limit_bytes, memory_guard, effective_max_paths>>
search == <<entry, calls, stack, outidx, paths>>
outcome == <<skipped, used>>
vars == <<phase, function, hits, settings, latched, search, outcome, started>>

AllBlocks == 0 .. a.num_blocks - 1
Buffers == [0 .. a.num_blocks + 1 -> Nat]       \* ecalloc(num_blocks + 2)
Calls == [block : AllBlocks, i : Nat \ {0}, found : BOOLEAN]
Paths == [path : Seq(Nat), hit : BOOLEAN]
Settings == [limit : Limits \cup {UNLIMITED}, guard : BOOLEAN]

TypeOK ==
  /\ phase \in {"off", "recording", "searching", "collected"}
  /\ block_hit \subseteq AllBlocks
  /\ edge_hit \subseteq RealEdges(a)
  /\ {edge_buf, memory_guard_ini, memory_guard, skipped} \subseteq BOOLEAN
  /\ memory_limit \in Limits /\ memory_limit_bytes \in Limits \cup {UNLIMITED}
  /\ effective_max_paths \in Nat \ {0}
  /\ entry \in 0 .. a.num_blocks
  /\ calls \in Seq(Calls)
  /\ stack \in Buffers /\ outidx \in Buffers
  /\ paths \in Seq(Paths)
  /\ executions \subseteq Seq(AllBlocks)
  /\ used \in Usages \cup {0}
  /\ started \in Settings

Init ==
  /\ phase = "off"
  /\ \E o \in OpArrays : a = Analyse(o)
  /\ edge_buf \in BOOLEAN
  /\ block_hit = {} /\ edge_hit = {} /\ executions = {}
  /\ memory_limit \in Limits /\ memory_guard_ini \in BOOLEAN
  /\ memory_limit_bytes = UNLIMITED /\ memory_guard = TRUE    \* globals_ctor
  /\ effective_max_paths = 4096
  /\ entry = 0 /\ calls = <<>> /\ paths = <<>>
  /\ stack = [d \in 0 .. a.num_blocks + 1 |-> 0] /\ outidx = stack
  /\ skipped = FALSE /\ used = 0
  /\ started = [limit |-> UNLIMITED, guard |-> TRUE]

-----------------------------------------------------------------------------
\* The session and what it records.

Idle == phase \in {"off", "recording", "collected"}

\* ini_set by the program.
IniSet ==
  /\ Idle
  /\ \/ memory_limit' \in Limits \ {memory_limit} /\ UNCHANGED memory_guard_ini
     \/ memory_guard_ini' = ~memory_guard_ini /\ UNCHANGED memory_limit
  /\ UNCHANGED <<phase, function, hits, latched, search, outcome, started>>

\* fxd_coverage_start latches the settings and the cap.
StartCoverage ==
  /\ Idle
  /\ phase' = "recording"
  /\ memory_limit_bytes' = memory_limit    \* PG(memory_limit)
  /\ memory_guard' = memory_guard_ini
  /\ effective_max_paths' = CapOf[memory_limit]
  /\ started' = [limit |-> memory_limit, guard |-> memory_guard_ini]
  /\ UNCHANGED <<function, hits, settings, search, outcome>>

\* Where a frame may go from block b: along an edge, or to a catch block.
Onwards(b) ==
  (Range(a.outs[b]) \ {EXIT}) \cup {c \in AllBlocks : a.is_entry[c] /\ a.start_op[c] # 0}

\* The executions of up to MaxSteps blocks: a frame may be left anywhere.
Executions ==
  {w \in UNION {[1 .. n -> AllBlocks] : n \in 1 .. MaxSteps} :
     /\ w[1] = 0
     /\ \A k \in 1 .. Len(w) - 1 : w[k + 1] \in Onwards(w[k])}

Moves(w) == {<<w[k], w[k + 1]>> : k \in 1 .. Len(w) - 1}

\* Slip: outs are counted from 1 here and from 0 in the code.
EdgeTakenFromZero(b, c) ==
  IF b = c THEN {} ELSE {<<b, i - 1>> : i \in {j \in DOMAIN a.outs[b] : a.outs[b][j] = c}}

\* The out fxd_mark takes for a move from b to another block c: the first.
EdgeTaken(b, c) ==
  LET outs == {i \in DOMAIN a.outs[b] : a.outs[b][i] = c}
  IN  IF b = c \/ outs = {} THEN {} ELSE {<<b, Min(outs)>>}

\* The function runs once under coverage.
Execute ==
  /\ phase \in {"recording", "collected"}
  /\ Cardinality(executions) < MaxExecutions
  /\ phase' = "recording"
  /\ \E w \in Executions \ executions :
       /\ executions' = executions \cup {w}
       /\ block_hit' = block_hit \cup Range(w)
       /\ edge_hit' = IF edge_buf
                      THEN edge_hit \cup UNION {EdgeTaken(m[1], m[2]) : m \in Moves(w)}
                      ELSE edge_hit
  /\ UNCHANGED <<function, settings, latched, search, outcome, started>>

-----------------------------------------------------------------------------
\* Collection.

\* Slip: the settings are looked up at the collection.
UnderPressureNow(u) ==
  /\ memory_guard_ini /\ memory_limit >= 0
  /\ u >= memory_limit - (memory_limit \div 100) * 15

\* fxd_under_memory_pressure, with u bytes in use.
UnderPressure(u) ==
  /\ memory_guard /\ memory_limit_bytes >= 0
  /\ u >= memory_limit_bytes - (memory_limit_bytes \div 100) * 15

\* fxd_build_function, up to its loop over the entries.
Collect ==
  /\ phase \in {"recording", "collected"}
  /\ used' \in Usages
  /\ skipped' = UnderPressure(used')
  /\ phase' = IF skipped' THEN "collected" ELSE "searching"
  /\ entry' = 0 /\ calls' = <<>> /\ paths' = <<>>
  /\ stack' = [d \in DOMAIN stack |-> 0] /\ outidx' = stack'
  /\ UNCHANGED <<function, hits, settings, latched, started>>

Depth == Len(calls) - 1
Current == calls[Len(calls)]
CurrentOuts == a.outs[Current.block]
Searching == phase = "searching"
InCall == Searching /\ calls # <<>>

\* Slip: no more blocks than the function has.
MoreThanBlocks(depth) == depth >= a.num_blocks

TooDeep(depth) == depth >= a.num_blocks + 1

ReturnsAtOnce(depth) == Len(paths) >= effective_max_paths \/ TooDeep(depth)

\* fxd_find_paths is called for block b, in front of the calls cs.
FindPaths(b, cs) ==
  IF ReturnsAtOnce(Len(cs)) THEN calls' = cs /\ UNCHANGED stack
  ELSE /\ calls' = Append(cs, [block |-> b, i |-> 1, found |-> FALSE])
       /\ stack' = [stack EXCEPT ![Len(cs)] = b]

\* The loop over the entries.
TryEntry ==
  /\ Searching /\ calls = <<>> /\ entry < a.num_blocks
  /\ IF a.is_entry[entry] THEN FindPaths(entry, <<>>) ELSE UNCHANGED <<calls, stack>>
  /\ entry' = entry + 1
  /\ UNCHANGED <<phase, function, hits, settings, latched, outidx, paths, outcome, started>>

\* Slip: a block already on the stack is a cycle, whatever edge leads to it.
CycleOfBlocks(out) == \E d \in 0 .. Depth : stack[d] = out

\* The edge to `out' is on the stack already.
Cycle(out) == \E d \in 0 .. Depth - 1 : stack[d] = Current.block /\ stack[d + 1] = out

\* Slips: the counter stays for an out that is not followed; the index goes
\* to the callee's place.
Stay == Current.i
IndexOfCallee == [outidx EXCEPT ![Depth + 1] = Current.i]

Skips(out) == out = EXIT \/ Cycle(out)
Onto == Current.i + 1
IndexFollowed == [outidx EXCEPT ![Depth] = Current.i]

\* The loop of the current call goes on to the next out.
MovedOn(found) ==
  [calls EXCEPT ![Len(calls)] = [block |-> @.block, i |-> Onto, found |-> found]]

\* An exit edge or a cycle.
SkipOut ==
  /\ InCall /\ Current.i \in DOMAIN CurrentOuts
  /\ Skips(CurrentOuts[Current.i])
  /\ calls' = MovedOn(Current.found)
  /\ UNCHANGED <<phase, function, hits, settings, latched, entry, stack, outidx, paths,
                 outcome, started>>

FollowOut ==
  /\ InCall /\ Current.i \in DOMAIN CurrentOuts
  /\ ~Skips(CurrentOuts[Current.i])
  /\ outidx' = IndexFollowed
  /\ FindPaths(CurrentOuts[Current.i], MovedOn(TRUE))
  /\ UNCHANGED <<phase, function, hits, settings, latched, entry, paths, outcome, started>>

\* Slip: the block hits are looked at although edges were recorded.
AllBlocksHit == \A d \in 0 .. Depth : stack[d] \in block_hit

\* Every edge of the path was taken and its last block entered; without an
\* edge buffer, every block was entered.
AllHit ==
  /\ stack[Depth] \in block_hit
  /\ IF edge_buf THEN \A d \in 0 .. Depth - 1 : <<stack[d], outidx[d]>> \in edge_hit
     ELSE \A d \in 0 .. Depth : stack[d] \in block_hit

\* The loop is over: a call that has followed no out emits its path.
Return ==
  /\ InCall /\ Current.i \notin DOMAIN CurrentOuts
  /\ paths' = IF Current.found THEN paths
              ELSE Append(paths, [path |-> [k \in 1 .. Len(calls) |-> a.start_op[stack[k - 1]]],
                                  hit |-> AllHit])
  /\ calls' = SubSeq(calls, 1, Len(calls) - 1)
  /\ UNCHANGED <<phase, function, hits, settings, latched, entry, stack, outidx, outcome,
                 started>>

EndSearch ==
  /\ Searching /\ calls = <<>> /\ entry = a.num_blocks
  /\ phase' = "collected"
  /\ UNCHANGED <<function, hits, settings, latched, search, outcome, started>>

Step == TryEntry \/ SkipOut \/ FollowOut \/ Return \/ EndSearch

Next == IniSet \/ StartCoverage \/ Execute \/ Collect \/ Step

\* The search is one C call: once begun nothing else runs, and it goes on.
Spec == Init /\ [][Next]_vars /\ WF_vars(Step)

-----------------------------------------------------------------------------
\* Properties.

\* A route goes along outs, never twice from a block to the same block.  Its
\* choices tell apart outs that lead to the same block.
GoesOn(r) ==
  LET last == Last(r.blocks)
  IN  {i \in DOMAIN a.outs[last] :
         /\ a.outs[last][i] # EXIT
         /\ <<last, a.outs[last][i]>> \notin Moves(r.blocks)}

Extended(r) ==
  {[blocks |-> Append(r.blocks, a.outs[Last(r.blocks)][i]), outs |-> Append(r.outs, i)] :
     i \in GoesOn(r)}

\* The routes of up to n + 1 blocks that cannot be extended.
LeafRoutes(n) ==
  LET from[k \in 0 .. n] ==
        IF k = 0 THEN {[blocks |-> <<b>>, outs |-> <<>>] : b \in {c \in AllBlocks : a.is_entry[c]}}
        ELSE UNION {Extended(r) : r \in from[k - 1]}
  IN  {r \in UNION {from[k] : k \in 0 .. n} : GoesOn(r) = {}}

PathOf(blocks) == [k \in DOMAIN blocks |-> a.start_op[blocks[k]]]
Listed == {p.path : p \in Range(paths)}
Collected == phase = "collected" /\ ~skipped

(* coverage.c: "enumerate acyclic-per-edge paths from block_id, emitting     *)
(* each leaf path (capped at FXD_MAX_PATHS)": every listed path is such a    *)
(* path, one for each way to choose among the outs and as many as the cap    *)
(* lets through; below the cap none is missing of those that have no more    *)
(* blocks than the function, and one.                                        *)
ListsLeafPaths ==
  Collected =>
    LET routes == LeafRoutes(a.num_blocks)
        all == {PathOf(r.blocks) : r \in routes}
    IN  /\ Listed \subseteq all
        /\ Len(paths) = Min({effective_max_paths, Cardinality(routes)})
        /\ Len(paths) < effective_max_paths => Listed = all

\* A sequence of blocks is a leaf path: from an entry along outs, over no edge
\* twice, to a block whose every out leaves the function or repeats an edge.
IsLeafPath(blocks) ==
  /\ a.is_entry[blocks[1]]
  /\ \A k \in 1 .. Len(blocks) - 1 : blocks[k + 1] \in Range(a.outs[blocks[k]])
  /\ \A j, k \in 1 .. Len(blocks) - 1 :
       blocks[j] = blocks[k] /\ blocks[j + 1] = blocks[k + 1] => j = k
  /\ \A t \in Range(a.outs[blocks[Len(blocks)]]) :
       t = EXIT \/ <<blocks[Len(blocks)], t>> \in Moves(blocks)

(* coverage.c: "emitting each leaf path": whatever the cap and the depth cut *)
(* off, what is listed is a whole leaf path, never the beginning of one.     *)
ListsOnlyLeafPaths ==
  Collected => \A p \in Range(paths) :
    IsLeafPath([k \in DOMAIN p.path |-> a.op_to_block[p.path[k]]])

(* coverage.c: the recursion reads its path back from buffers it shares:     *)
(* while it runs they hold the route from the entry to the current block,    *)
(* inside their bounds, and the route uses no edge twice.                    *)
BuffersHoldRoute ==
  /\ Len(calls) <= a.num_blocks + 2
  /\ \A d \in 0 .. Depth : stack[d] = calls[d + 1].block
  /\ \A d \in 0 .. Depth - 1 :
       /\ outidx[d] \in DOMAIN a.outs[stack[d]]
       /\ a.outs[stack[d]][outidx[d]] = stack[d + 1]
  /\ \A d, e \in 0 .. Depth - 1 :
       stack[d] = stack[e] /\ stack[d + 1] = stack[e + 1] => d = e

(* coverage.c: "A path is hit iff every edge along it was observed at        *)
(* runtime": a path is reported as hit only if some execution went along     *)
(* each of its edges (through each of its blocks, where no edges were        *)
(* recorded).                                                                *)
HitPathsWereRun ==
  Collected => \A p \in {q \in Range(paths) : q.hit} :
    IF edge_buf
    THEN Moves(p.path) \subseteq UNION {Moves(PathOf(w)) : w \in executions}
    ELSE Range(p.path) \subseteq UNION {Range(PathOf(w)) : w \in executions}

\* An execution that fits in the listing: fxd_mark records no edge from a
\* block to itself.
Listable(w) ==
  /\ \E r \in LeafRoutes(a.num_blocks) : r.blocks = w
  /\ \A k \in 1 .. Len(w) - 1 : w[k] # w[k + 1]

(* Below the cap, the path an execution took through the function, if it is  *)
(* one the listing can have, is there and hit.                               *)
RunPathsAreHit ==
  Collected /\ Len(paths) < effective_max_paths =>
    \A w \in executions : Listable(w) => [path |-> PathOf(w), hit |-> TRUE] \in Range(paths)

(* README.md: "if live usage crosses 85 % of memory_limit, path enumeration  *)
(* ... is skipped", and only then.  What counts are the settings of the time *)
(* when coverage was started, whatever ini_set has made of them since.  Of a *)
(* limit that is no multiple of 100 the code takes the 15 % off the multiple *)
(* below it: the threshold is up to 15 bytes higher.                         *)
SkipsUnderPressure ==
  phase = "collected" =>
    (skipped <=> /\ started.guard /\ started.limit # UNLIMITED
                 /\ used * 100 >= started.limit * 85 + (started.limit % 100) * 15)

(* A collection ends: whatever cycles the blocks form, the search comes to   *)
(* its end, since a call is neither repeated for an edge nor deeper than the *)
(* blocks allow.                                                             *)
SearchEnds == Searching ~> (phase = "collected")
=============================================================================
