# fast-xdebug: specifications, model checking and proofs

fast-xdebug is a PHP extension that records line, branch and path coverage per
basic block, and profiles calls, behind the API of Xdebug. These modules model
its coverage recorder, what it collects from it, its profiler, the block analysis
they rest on, what lives longer than a request, and the engine as far as the
extension can see it. TLC checks them on small programs; TLAPS proves almost every
safety property of the runs for every program: the recorder's caches, the lines,
edges and paths that are reported, the profiler's costs, the analysis cache and the
lifecycle.

## Inventory

| Component | Code | State | Operations |
|---|---|---|---|
| Block analysis | `src/analysis.c` | none (one `fxd_analysis` per op_array) | `fxd_find_jumps`, `fxd_mark_leaders`, `fxd_collect_exec_lines`, `fxd_analyse_op_array` |
| Analysis cache | `src/coverage.c:31-35, 195-220` | op_array address → analysis | `fxd_analysis_for`, emptied at RSHUTDOWN |
| Recorder | `src/coverage.c:102-506` | `coverage_active`, `coverage_flags`, `files` (file → key → runtime), `start_floors`, edge slot, `sat_last_opcodes`, `sat_generation`, marks in the analyses | `fxd_mark` on every dispatched op; start, stop, RINIT, RSHUTDOWN |
| Filter | `fast_xdebug.c:259-304`, `src/coverage.c:64-99` | two prefix lists and a flag | `xdebug_set_filter`, `fxd_file_wanted` |
| Collection | `src/coverage.c:518-801` | none: reads the recorder and the engine's stack | `fxd_build_lines`, `fxd_build_function`, `fxd_find_paths`, `fxd_coverage_build_return` |
| Memory guard | `src/coverage.c:38-54, 470-492` | path cap, limit, switch, latched at start | read at each collection |
| Profiler | `src/profiler.c` | active flag, frame stack, records, totals, file name | observer begin and end, start, stop, RINIT, RSHUTDOWN |
| Mode and lifecycle | `fast_xdebug.c:43-166, 552-627` | a mode latched per process | module and request hooks |
| Information API | `fast_xdebug.c:311-514` | none | `xdebug_info`, getters, recommended settings |
| Debugger stub | `src/debugger.c` | one "warned" flag | a notice |

How they meet: the engine calls `fxd_opcode_handler` before each hooked op and
the observer hooks around each call. The user's program calls the `xdebug_*`
functions, which are ops of a frame like any other. The recorder asks the filter
and then the cache for the analysis, and writes one bit per block and per edge.
Collection combines those bits with the analysis and with the positions of the
frames in flight. Cachegrind files are the only thing on disk. Within a request
there is one thread (in a ZTS build, several requests share the analysis cache),
so what is hard is less concurrency than

- the interleaving of frames: calls, recursion, exceptions and fibers between
  two marks of one frame, against caches that have a single slot;
- caches that outlive what they were filled from: a filter, a session, a frame,
  a request;
- sequences of sessions of different kinds, and collection at any moment of them;
- statics that outlive a request (the mode, the profiler's records and file) and
  addresses that the engine gives out again;
- a recursion that shares its buffers and stops at a cap and at a depth;
- block granularity against control that leaves a block half-way.

Correctness, by component: the analysis partitions the ops so that control only
enters a block at its leader and only moves along edges; the recorder's caches
are invisible as long as addresses are not reused; collected lines, edges and
paths are those that ran; profiled costs add up and belong to calls that were
made; every profiled call reaches a file, and a file is of one request. `PROJECT.json` lists the hazards at their
lines with the properties that watch them.

## Modules

    Analysis <- AnalysisScan <- MCAnalysisScan
       ^
    ZendVM <- CoverageFilter <- Coverage <- CoverageLines <- MCCoverageLines
                     ^             ^  ^---- MCCoverage
              BlockRecorder  <.....'   (Coverage implements BlockRecorder)
    Analysis <- PathFinder <- MCPathFinder
    Profiler <- MCProfiler      AnalysisCache <- MCAnalysisCache
    Lifecycle <- MCLifecycle
    AnalysisScan, Analysis_proof <- AnalysisScan_proof
    Coverage, Analysis_proof <- Coverage_proof
    CoverageLines, Coverage_proof <- CoverageLines_proof
    PathFinder, Analysis_proof <- PathFinder_proof
    Each of Profiler, AnalysisCache, Lifecycle <- its _proof

- **Analysis** states the block structure declaratively: leaders, blocks, where a
  block ends, successors, line entries. Opcodes are abstracted to the classes
  that the code and the engine treat alike (the table is in the module).
  `NextOps` says where the engine really continues; it is external, and differs
  from `Jumps`, what `fxd_find_jumps` believes, for the class `SKIP`.
- **AnalysisScan** is the code itself: five loops, an iteration a step, with the
  `closed` flag and the running block id.
- **ZendVM** is the engine (external): frames, dispatch of the user opcode
  handler before its op, internal and user calls, returns, exceptions through
  `ZEND_HANDLE_EXCEPTION`, bailout. The address of a frame is its depth, because
  the VM stack reuses addresses.
- **CoverageFilter** holds the two lists; a prefix is the set of files it covers.
- **Coverage** is the recorder: `Dispatch` is `fxd_mark`, split by its ways out
  (`MarkReturnsEarly`, `MarkReprimesSlot`, `MarkRecords`); `StartCoverage`,
  `StopCoverage` and `SetFilter` run inside an `ICALL` op; `RInit` and
  `RShutdown` reset exactly what the hooks reset, and keep what they keep.
- **BlockRecorder** is the promise: every dispatched op of a wanted file records
  its block while coverage is active. It has none of the caches.
- **CoverageLines** adds three history variables (the ops that ran, the moves of
  control, the functions not watched whole) and the operators of
  `fxd_build_lines` and of `out_hit`.
- **Profiler** has the observer hooks over one stack of calls per fiber. Memory
  is accounted line by line as time is, so one clock stands for both costs.
  What the engine caches per function (`handlers`) is external state.
- **PathFinder** is the collection of paths of one function: `calls` is the C
  stack of `fxd_find_paths`, an iteration of its loop is a step (`SkipOut`,
  `FollowOut`, `Return`), `stack` and `outidx` are the buffers all calls share.
  `StartCoverage` latches the memory limit, the guard and the cap, `IniSet`
  changes the settings afterwards, `Collect` asks the guard. What is recorded is
  taken from whole executions of the function, which CoverageLines justifies for
  functions without user calls. `started` remembers the settings at the last start.
  The threshold of the guard is the code's `limit - limit / 100 * 15` on integers:
  850 bytes of a limit of 1000, 900 of one of 1050.
- **AnalysisCache** is the recorder reduced to blocks, with what Coverage assumes
  away: op_arrays that are freed after they ran and addresses that are given out
  again, and threads that share `fxd_analysis_cache` while `FXD_G` is per thread.
  A mark is two actions, `Lookup` of the analysis and `Record` under it, and another
  thread's `RShutdown` may come in between. It frees every analysis; the pointers of
  other threads to them, in a mark or in a runtime, are then `DANGLING`. What
  `Record` finds through such a pointer is any analysis, also one of another
  op_array that has got the memory. What ran and which addresses were visited is
  remembered only of threads whose request has overlapped no other; only of them
  does `RecordsUnlessReused` speak.
- **Lifecycle** composes the handlers of `fast_xdebug.c` over the requests of a
  process: the mode latched by `fxd_resolve_mode`, the profiler's statics, the
  files on disk. A profiled call is an identity, so that a report can be compared
  with the calls it should hold. A write may fail to open its file, or write less
  than all of it without noticing. `Replace` kills the worker, in the middle of a
  write too, and starts another, which may get the same pid. `xdebug.mode` is a
  system setting, but the web server and the sections of `php.ini` set it per request.

Definitions marked "Slip" are plausible mistakes in one definition; each property
is shown to fail when the slip replaces the definition it stands before.

## Runs

All runs are exhaustive. Deadlock is checked except in the AnalysisScan and
Lifecycle runs: the scan ends, and a worker serves a bounded number of requests
(as under `pm.max_requests`).

Fairness. The one liveness property, `SearchEnds`, assumes weak fairness of a
step of the search: it is one C call, during which nothing else of the process
runs, so it goes on until it returns. Elsewhere nothing waits: what the program
does next is up to the program, and the other properties are safety properties.

| Run | Shows | Bounds |
|---|---|---|
| AnalysisScan | the loops compute `Analyse`; where the code knows every jump, moves of control are edges and no executable op is left out of its block | every op_array of ≤ 3 ops over ten classes, two lines, at most one `switch` or `match` with up to two cases where `outs[]` has room for one (`MaxOuts` = 3) |
| Coverage | the recorder's caches are sound (six invariants) and invisible (the refinement of BlockRecorder) | {main} in a loop, a function that branches and calls, one with a try/catch in another file, each of them callable from every call, depth 3; any op that may throw does, or exits; two sessions of either kind; filter on and off |
| Lines | what is reported against what ran: lines and edges, invented and missed | {main} calls f twice, f calls g in a branch, g loops and collects; exceptions, exclusion toggled, two sessions, line sessions with `UNUSED` and branch sessions; the programs satisfy the hypotheses of the theorems about lines and edges |
| Profiler | stack = observed calls, edges = calls, no subtraction wraps, costs add up | two user functions, the two API functions and the fiber switch; two fibers, two sessions, 5 calls, depth 4, clock to 2 |
| PathFinder | the listed paths are the acyclic-per-edge ones, hit if they ran, missing only by the cap or the depth guard; every listed path is a whole leaf path; the buffers hold the route; the guard skips exactly from its threshold on; the search ends | six functions (two equal outs, `while`, nested `do`, a loop with an `if`, `try`, an endless loop), every execution of ≤ 6 blocks, with and without an edge buffer; limits none, 1000, 1050 with caps 100, 1, 2; usages on both sides of the thresholds, 850 for 1000 and 900 for 1050 |
| AnalysisCache | in a request that overlaps no other thread's, recording is right for op_arrays whose address was no other's, whatever requests that overlapped left in the table before | two threads, a shared op_array and two that get one address, one frame per thread, two sessions in all, unbounded requests |
| Lifecycle | RINIT and the API act on one mode; profiles saved, reports of one request, file names of this request | two requests, two processes, two profiled calls per request, one named file and the default one, three values of `xdebug.mode`, three environments, failing `fopen` and short writes |

Why the bounds are enough: the recorder's caches hold one slot, so two functions
are enough to evict each other and a third call level to return into an evicted
one; a stale session needs a second session; a request that follows another is
always possible, since requests are not bounded. An op_array of three ops has
every combination of a leader, a terminator and an op behind it, and forward,
backward and self jumps. The profiler's hooks look at two frames, and depth four
holds {main}, a function, a nested one and an API call; five calls are enough
for a stop, a call nobody saw begin, a restart below it and a call after that.
The search compares an edge with those on its stack, so a function needs two
cycles that share a block and an out taken twice; its cap needs a function with
more paths than it lets through. One address suffices for reuse, which is between
two op_arrays. Two requests and two processes are enough for a static to be stale,
since each hook only sees what the last one left.

What holds with conditions. `InventedOnlyIfInterrupted`,
`FalseEdgeOnlyIfInterrupted` and `FramesAreLiveCalls`, `EdgesAreCalls`,
`FlowConserved` and `RecordsUnlessReused` name the situation in which the plain
statement fails, as a history variable (`interrupted`, `switched`, `reused`,
`overlapped`) or a session count; the section below says where the plain
statement does fail. The properties of lines and edges also depend on the program;
their theorems name what they need (`LandsInBlocks`, `FlowKnown`, `CallsPrepared`,
`BlocksHooked`, `OutsDistinct`, in CoverageLines), and TLC evaluates those
conditions on the programs of Lines (`ProgramAsCompiled`).

### Disagreements between the code and what it says

The violation runs. Each checks one sentence of the repository, quoted in
`PROJECT.json`, and TLC shows how the code departs from it.

| Run | What happens |
|---|---|
| CoverageLineThenBranch | a function partly recorded in a line session saturates in a branch session with no edges |
| CoverageClosures | two closures of a file share one runtime, sized for the first |
| CacheReuse | a script at the address of a freed one is recorded under its analysis, or not at all |
| AnalysisCacheThreads | one thread's RSHUTDOWN frees the analyses that another's mark and runtimes point to |
| ModePerRequest | the second request of a worker runs in the mode that the first has resolved |

More follow from the same definitions. They have no run of their own; the
properties named carry the condition that keeps them out.

- Analysis: `??`, `?:` and `?->` jump where `fxd_find_jumps` sees no jump; after a
  `throw` expression their target counts as an unreachable trailing op
  (`src/analysis.c:272-274`), and the arms past the 62nd of a `match` are no
  leaders (`KnowsJumps` in `FlowFollowsEdges`).
- Lines: collected after `xdebug_stop_code_coverage` there is no frontier, and the
  block of {main} that called stop is reported to its end
  (`src/coverage.c:514-517`); so is a block left by an exception
  (`InventedOnlyIfInterrupted`). Collecting inside a loop hides lines of an earlier
  iteration (`MissedOnlyByClamp`).
- Edges: a block that ends in a call of a user function loses the edge to the block
  after it, because the callee's marks have replaced the one edge slot
  (`src/coverage.c:285`); `docs/design.md:99-100` says the pattern of taken edges is
  Xdebug's. `NoLeafEdgeMissed` is about functions that call none.
- Edges: a call after an exception inherits the address of the frame that threw,
  and an edge nobody took is recorded (`src/coverage.c:280-281`;
  `FalseEdgeOnlyIfInterrupted`).
- Paths: the cap follows `memory_limit` with `fast_xdebug.memory_guard=0` too,
  which the README (`README.md:332-334`) and `fast_xdebug.c:45-47` say enumerates
  in full. The depth guard drops paths of more than `num_blocks + 1` blocks,
  though they are acyclic per edge (`docs/design.md:116-117`). Two outs to one
  block list its path twice, and the second is never hit; an edge from a block
  to itself is never recorded, so a path with one is never hit, and in branch
  mode such a function never saturates. The cap bounds what is listed, not the
  work of finding it.
- Mode: `XDEBUG_SESSION` is said to be noted (`fast_xdebug.c:62-63`) and is
  not.
- Profiles: `README.md:355-363` prints `xdebug_get_profiler_filename()` after
  `xdebug_stop_trace()`, where it is false. The file of a request's second session
  has the records of both under the summary of the last (the session counts in
  `FlowConserved` and `ReportOfOneRequest`); a start while active forgets the file
  of the session in progress; a later request of a worker overwrites
  `cachegrind.out.<pid>`; a file that cannot be opened is passed over in silence.
- Profiles with fibers: after a switch the frame on top belongs to the other fiber,
  and an edge is recorded between functions of which neither called the other
  (`src/profiler.c:225`; `EdgesAreCalls` is about requests without a switch).
- Profiles of functions called before `xdebug_start_trace`: the engine keeps for
  the request that they are not observed, and they are never profiled
  (`FramesAreObservedCalls`; `src/profiler.c:6-7` says every call gets a frame).
- Threads: two threads whose generations are equal take each other's saturation
  marks for their own. What they record when their requests overlap is not known:
  AnalysisCacheThreads shows that pointers to freed analyses stay in use; no property says what
  comes of it, since the memory may be any op_array's by then: blocks may go missing, and
  blocks that did not run may be recorded. The profiler's statics, the latched mode and
  the debugger's flag are process-wide in the same way.

## Proofs

Checked by TLAPS for every program, every number of functions, files, sessions,
requests, fibers and threads, and any filter lists. The assumptions are those in
the modules (op_arrays are well-formed, `MaxOuts` ≥ 3, the tables have their
domains) and the hypotheses that a theorem names.

| Module | Theorems | Hypotheses |
|---|---|---|
| `Analysis_proof` | `BlockInRange`, and the lemmas about blocks: a block is an interval of ops from its leader to the op before the next (`BlockIsRun`, `EndOfBlock`), its outs are the jumps of its last op (`OutsOfJumps`), a move of control is along an edge or to the next op (`KnownMove`) | |
| `AnalysisScan_proof` | `ScanTypeCorrect`, `ScanIsAnalysis`, `FlowStaysOnEdges` | |
| `Coverage_proof` | `TypeCorrect` (its first part: each engine step keeps the type of the stack, moves one frame and leaves its callers); `CachesSound` with `SkippedIsComplete`, `RecordsConsistent`, `RequestsIsolated`; `CachesInvisible`, the refinement of BlockRecorder | `KeysDistinct`, but for the first |
| `CoverageLines_proof` | `CoveredBlocksReallyRan` | `KeysDistinct` |
| | `LinesMissedOnlyByClamps` | and `LandsInBlocks` |
| | `LinesInventedOnlyIfInterrupted` | `KeysDistinct`, `FlowKnown`, `CallsPrepared` |
| | `RecordedEdgesWereTraversed` | `KeysDistinct`, `FlowKnown`, `BlocksHooked` |
| | `LeafEdgesAreRecorded` | and `OutsDistinct` |
| `PathFinder_proof` | `TypeCorrect`, `SearchStaysInBuffers`, `PathsCapped`, `AllLeafPathsListed`, `OnlyLeafPaths`, `HitPathsRan`, `RunPathsListedHit`, `GuardIsExact` | |
| `Profiler_proof` | `TypeCorrect`, `SelfTimesNeverWrap`, `FramesFollowObservedCalls`, `FramesFollowLiveCalls`, `EdgesWereMade`, `CostsConserved` | |
| `AnalysisCache_proof` | `TypeCorrect`, `RecordedUnlessReused` | |
| `Lifecycle_proof` | `TypeCorrect`, `ModeSettled`, `ProfilesAreSaved`, `ReportsAreSound` | |

The hypotheses are on the program, not on the code:

- `KeysDistinct`: no two functions of a file have one key. The run
  CoverageClosures violates `RuntimesOwned` without it; PHP before 8.4 names every
  closure of a file `{closure}`.
- `FlowKnown`: `fxd_find_jumps` sees every jump. `??`, `?->` and a `match` with more
  arms than `outs[]` has room for break it. `LandsInBlocks` is what is left of it for
  missed lines: no jump lands behind a terminator, in ops the block does not reach.
- `CallsPrepared`: the op before a call is of its block and line (INIT_FCALL, or
  an argument). A call over several lines breaks it: the floor of a frame
  that is in a call when coverage starts then lets that line through.
- `BlocksHooked`: every block has an op with a handler. A block without one is
  passed unseen, and the marks before and after it look like one edge.
- `OutsDistinct`: no block leads to another twice. Of two equal outs
  only the first is ever recorded.

**The analysis.** `ScanInv` says what each loop has found of the ops below its index:
the leaders the jumps of these ops make, the blocks these ops begin, and of every
such block the last op and the line entries it has taken in (`BlockBelow`). The
`closed` flag is set exactly when the end of the current block, in the sense of
Analysis, has been passed (`ClosedBelow`), so an op that comes while it is not set
belongs into the block (`CurrentBlock`), and a block that another leader has
followed changes no more (`OlderBlocks`). Outs are a concatenation of sequences of at
most one element; it is compared with the declarative definition index by index, from a
least counterexample (`Flattened`). For `FlowFollowsEdges` the reachable ops are
those in every set closed under the engine's moves; the ops that lie at or before the
end of their block are such a set (`ReachableInBlock`), so the ops behind a
terminator are dead where every jump is known.

**The recorder's caches.** That a skipped function has nothing left to record
(`SaturationSound`) is not inductive by itself. A mark is set when two
cardinalities agree, which means equality of sets only if the runtime's bits are
bits of the function's own blocks and edges (`RuntimesOwned`); this in turn needs
the edge slot to name a block of the same runtime (`ActiveStateIsLive`), and the
marks of earlier sessions and requests to be older than the session that is
running (`MarksOfRequest`). `FastPathSound` follows the one-pointer slot back to
the mark. Their conjunction with `TypeOK` is `IInv`, which the Coverage run
checks conjunct by conjunct. The refinement is then short: a mark skipped by a
sound cache is of a block that is already recorded.

**Lines.** A report is made of blocks, so the invariants relate blocks to ops. All
need `EngineInv`: each caller waits at its call, and each frame is at an op its
block reaches.
For missed lines, `RanHit`: an op that ran under coverage has its block hit, since
the caches skip a mark only when nothing is left to record. For invented ones,
`SeenInv`: every op of a hit block of an uninterrupted function has run, or is ahead
of a frame that is in this block now, or lies below the floor of a frame that was
there when coverage started. What is ahead of a frame is what the frontier clamps,
and what lies below a floor is what the floor clamps, so nothing else is reported.

**Edges.** `EdgeInv` follows the one slot: the frame it names is still in the slot's
block or has just left it along an edge that was traversed (`SlotFollows`), although
other frames have been marked since. A call that takes over the address of a frame
that returned finds the slot at a block with no out but EXIT (`OnlyExit`), or at
another function; only an exception leaves a block in the slot that the next call
could seem to come from, and makes the function `interrupted`. In the
other direction `LeafInv`: in a function without user calls every edge that was
traversed is recorded or pending at the next mark of the same frame, and the slot
is `Synced` with the frame that is on top.

**The path search.** `BuffersHoldRoute` reads the buffers only below the current
depth, and is kept because a call writes just its own places and returns to a caller
whose places are as it left them (`RouteInv`): the guard gives the bound, the test
for a cycle the distinctness. That the cap holds at `Return`, where nothing tests it,
needs `CapInv`: a path is only listed by a call that has followed no out, the calls
below it all have, and so nothing was listed since that call passed the test.
That only leaves are listed needs `FoundInv`: a call that has followed no out has
skipped all those before its index; that a hit path ran, `HitsInv`: the bits are of
blocks and edges of some execution. All of it is `FullInv`.

That none is missed is a matter of counting. `Ahead` are the routes the search
comes to yet, read off the state: those that begin at a later entry, and those that
leave the route of the calls at some call by an out its loop has not come to. Below
the cap the paths listed and the routes ahead add up to all routes, and each route
that is not ahead is listed with its hit flag (`SearchInv`). The lemmas `AheadEntered`,
`AheadSkipped`, `AheadFollowed`, `AheadCutOff` and `AheadReturned` show that each
step of the search leaves the set ahead as it is, but for the `Return` that lists a
path, which takes exactly the current route out of it (`AheadEmitted`). A call cut
off by the guard on the depth loses nothing: routes of so many blocks are not
counted. At the end nothing is ahead. The property counts the routes of a recursive
definition; `LeafRoutesAre` shows, from a least counterexample, that its levels are
the routes of so many outs, and `RoutesOfFinite` that they can be counted.
For `RunPathsAreHit` the hits also have to be complete (`HitsComplete`), and of the
routes through the blocks of an execution the one is taken that chooses the first of
equal outs, as `fxd_mark` does (`RunRouteHit`).

**The profiler.** The end hook pops without looking at what it pops, so that frames
are those of observed calls needs the calls of the session to be the innermost
(`SuffixInv`), and that they are those of all calls needs the engine's per-function
cache to have been filled in this session (`PlainInv`). `SelfTimesFit` bounds the
cost of a frame's children by the clock; `CostsConserved` compares sums over records
and over the frames that are open. The sums are folds; the lemmas on them
(`SumStep`, `SumChange`) rest on an induction over the subsets of a finite set
(`SubsetInduction`), proved from a least counterexample because the library's
induction theorems cannot be instantiated.

**The analysis cache.** An analysis is cached for the op_array at its address unless
that address had another in this request (`CacheInv`); two op_arrays never have one
address at a time (`PlacesInv`); and marks are of this thread's sessions as long as
its requests meet no other's (`AloneInv`, `MarkInv`). A mark in progress is of a block
of the frame on top, and its thread does nothing else meanwhile (`MarkingInv`); no pointer
of such a thread dangles, since the request that would have freed the analysis would
have overlapped. Requests that do overlap are in the model and may set any saturation
mark in the table, but each that ends empties it, so that a request that begins when no
other runs finds nothing there, and only its own slot and generation are left over.

**The lifecycle.** `ProfileSaved` speaks of the moment the profiler is off, so `IInv`
relates records, totals and file while it is on: the records are those of the calls
of this request (`RecordsInv`; RSHUTDOWN frees them, which is why a start need not),
the total is of calls since the last start (`TotalInv`), a file name exists only in a
request and is the one last written unless a session is on (`FileInv`), and the mode is
what `ModeOfProcess` says, the first request's (`ModeInv`).

Only model-checked: `SearchEnds`, since the provers have no liveness. Every other
property of a passing run is stated by a theorem above.

## Not modelled

- Generators, finally blocks, destructors and handlers that chain to the
  handler of another extension; fibers in the recorder.
- The data race on the analysis table itself, and what a write through a pointer to
  freed memory does besides setting a saturation mark: what AnalysisCache shows is which
  analysis, runtime and mark meet.
- Which part of a profile a short `fwrite` or a killed process leaves
  (`src/profiler.c:342`): the file is whole or has no records. No property tells such a
  file from a whole one; `ProfileSaved` and `TracefileHoldsProfile` are about writes
  that were complete.
- Code run after RSHUTDOWN by another extension's hooks: `coverage_active` is still
  set then while `files` is NULL.
- Formatting of results and of the Cachegrind file, allocation and freeing; the
  advice of `fast_xdebug_recommended_settings`, which nothing reads back.
- Build files, installers, packaging and tests are no part of the running program.

## Plan

In order of importance. Items 1 to 12 are done.

1. Analysis, and AnalysisScan that computes it.
2. ZendVM, CoverageFilter, Coverage; BlockRecorder and the refinement.
3. CoverageLines: lines and edges against what ran.
4. Proofs of type correctness, cache soundness and the refinement.
5. Profiler with fibers, restarts and late starts.
6. The violation runs for what 1 to 5 brought up.
7. PathFinder, with the memory guard; its proofs.
8. Lifecycle over several requests and processes; its proofs.
9. AnalysisCache: addresses that are reused, and two threads.
10. Proofs of the profiler's frames and costs, of what the analysis cache keeps
    right, of listed and hit paths and the guard, of lines and edges against what ran.
11. Proof that the loops of AnalysisScan compute `Analyse`, and that control follows
    their edges.
12. Proof that the path search misses no leaf path, and none that was run.
13. Finally blocks and fibers in the engine of the recorder.
