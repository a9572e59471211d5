--------------------------- MODULE AnalysisCache ---------------------------
(***************************************************************************)
(* The cache of analyses in src/src/coverage.c: a static table, keyed by   *)
(* the address of an op_array's opcodes and emptied when a request ends.   *)
(* Two things go on around it that module Coverage leaves out.  The engine *)
(* frees the op_array of a script or of eval'd code as soon as it has run, *)
(* and what is compiled next may get its address.  And in a thread-safe    *)
(* build the table is one for all threads, while the recorder's globals    *)
(* are per thread.                                                         *)
(*                                                                         *)
(* An op_array is an identity with a number of blocks; its blocks run in   *)
(* any order.  Sessions are line sessions.  Shared op_arrays are those of  *)
(* opcache: they keep one address for all requests and threads.            *)
(*                                                                         *)
(* A request that ends frees the analyses of all threads.  Another thread  *)
(* may hold pointers to them, in its runtimes and in a mark between the    *)
(* lookup of the analysis and its use, two actions here.  What it finds    *)
(* through such a pointer is undefined: any analysis, its own or the one   *)
(* of another op_array that has got the memory.  The data race on the hash *)
(* table itself is not modelled, and a mark past the end of a block_hit[]  *)
(* that was made for another analysis is stored all the same.              *)
(***************************************************************************)
EXTENDS Integers, FiniteSets, SequencesExt

CONSTANTS
  Threads,
  OpArrays,     \* scripts and eval'd code, each the {main} of its own file
  Shared,       \* those in opcache's shared memory; each is its own address
  Addresses,    \* the addresses the others can get
  NumBlocks,    \* op_array -> its number of blocks
  MaxDepth,     \* bound on the frames of a thread
  MaxSessions   \* bound on the sessions started in the life of the process

NULL == "NULL"            \* the address no op_array has
DANGLING == "dangling"    \* a pointer to an analysis that has been freed

ASSUME AnalysisCacheAssumption ==
  /\ Shared \subseteq OpArrays
  /\ {NULL, DANGLING} \cap (OpArrays \cup Addresses) = {}
  /\ Shared \cap Addresses = {}
  /\ NumBlocks \in [OpArrays -> Nat \ {0}]
  /\ {MaxDepth, MaxSessions} \subseteq Nat

VARIABLES
  request,      \* thread -> it is in a request
  stack,        \* thread -> its frames, the innermost last
  fxd_analysis_cache,
  marking,      \* thread in fxd_mark with an analysis -> the block, and the address it is under
  coverage_active, sat_generation, sat_last_opcodes, files,   \* FXD_G: per thread
  \* History:
  overlapped,   \* threads whose request has overlapped another's; of the others:
  ran,          \* thread -> the blocks that ran under coverage in its request
  visited,      \* thread -> the addresses fxd_mark was called with in its request
  reused        \* thread -> op_arrays that got an address visited before

engineVars == <<request, stack>>
globals == <<coverage_active, sat_generation, sat_last_opcodes, files>>
history == <<ran, visited, reused, overlapped>>
vars == <<engineVars, fxd_analysis_cache, marking, globals, history>>

Pointers == Addresses \cup Shared

Frames == [fn : OpArrays, opcodes : Pointers]
Blocks(fn) == 0 .. NumBlocks[fn] - 1

\* An analysis is told by the op_array it was made of; `saturated' is the
\* generation of its saturation mark, 0 for none.
Analyses == [of : OpArrays, saturated : Nat]
Runtimes == [analysis : OpArrays \cup {DANGLING}, block_hit : SUBSET Nat]
Marks == [block : Nat, analysis : Pointers \cup {DANGLING}]

EmptyTable == [x \in {} |-> NULL]

TypeOK ==
  /\ request \in [Threads -> BOOLEAN] /\ coverage_active \in [Threads -> BOOLEAN]
  /\ stack \in [Threads -> Seq(Frames)]
  /\ DOMAIN fxd_analysis_cache \subseteq Pointers
  /\ Range(fxd_analysis_cache) \subseteq Analyses
  /\ DOMAIN marking \subseteq Threads /\ Range(marking) \subseteq Marks
  /\ sat_generation \in [Threads -> Nat]
  /\ sat_last_opcodes \in [Threads -> Pointers \cup {NULL}]
  /\ DOMAIN files = Threads
  /\ \A t \in Threads :
       DOMAIN files[t] \subseteq OpArrays /\ Range(files[t]) \subseteq Runtimes
  /\ ran \in [Threads -> SUBSET (OpArrays \X Nat)]
  /\ visited \in [Threads -> SUBSET Pointers] /\ reused \in [Threads -> SUBSET OpArrays]
  /\ overlapped \subseteq Threads

Init ==
  /\ request = [t \in Threads |-> FALSE] /\ stack = [t \in Threads |-> <<>>]
  /\ fxd_analysis_cache = EmptyTable /\ marking = EmptyTable
  /\ coverage_active = [t \in Threads |-> FALSE]
  /\ sat_generation = [t \in Threads |-> 0]
  /\ sat_last_opcodes = [t \in Threads |-> NULL]
  /\ files = [t \in Threads |-> EmptyTable]
  /\ ran = [t \in Threads |-> {}] /\ visited = ran /\ reused = ran
  /\ overlapped = {}

-----------------------------------------------------------------------------
\* The engine.

InUse == UNION {{f.opcodes : f \in Range(stack[t])} : t \in Threads}

\* Compilation puts an op_array where no live one is.
Places(fn) == IF fn \in Shared THEN {fn} ELSE Addresses \ InUse

Running == {t \in Threads : request[t]}

\* The history of a thread that runs alone.
Noted(t, S) == IF t \in overlapped THEN {} ELSE S

\* fn is compiled, or found in opcache, and begins.
Enter(t, fn) ==
  /\ request[t] /\ t \notin DOMAIN marking /\ Len(stack[t]) < MaxDepth
  /\ \E p \in Places(fn) :
       /\ stack' = [stack EXCEPT ![t] = Append(@, [fn |-> fn, opcodes |-> p])]
       /\ reused' = IF p \in visited[t] \ Shared
                    THEN [reused EXCEPT ![t] = @ \cup {fn}] ELSE reused
  /\ UNCHANGED <<request, fxd_analysis_cache, marking, globals, ran, visited, overlapped>>

\* The innermost op_array has run; unless it is shared, it is freed.
Leave(t) ==
  /\ stack[t] # <<>> /\ t \notin DOMAIN marking
  /\ stack' = [stack EXCEPT ![t] = Front(@)]
  /\ UNCHANGED <<request, fxd_analysis_cache, marking, globals, history>>

-----------------------------------------------------------------------------
\* The recorder.

Stored(table, x, value) == [y \in DOMAIN table \cup {x} |-> IF y = x THEN value ELSE table[y]]

NewAnalysis(fn) == [of |-> fn, saturated |-> 0]

\* fxd_analysis_for: what is cached for the address, or a new analysis.
AnalysisFor(f) ==
  IF f.opcodes \in DOMAIN fxd_analysis_cache THEN fxd_analysis_cache[f.opcodes]
  ELSE NewAnalysis(f.fn)

\* The block that ran of the innermost frame is noted.
Ran(t, b) == ran' = [ran EXCEPT ![t] = @ \cup Noted(t, {<<Last(stack[t]).fn, b>>})]

\* fxd_mark as far as the analysis: block b of the innermost frame runs while
\* coverage is active, and is found complete by the slot or has its analysis
\* looked up.
Lookup(t) ==
  LET f == Last(stack[t])
  IN  /\ stack[t] # <<>> /\ coverage_active[t] /\ t \notin DOMAIN marking
      /\ \E b \in Blocks(f.fn) :
           IF sat_last_opcodes[t] = f.opcodes
           THEN Ran(t, b) /\ UNCHANGED <<fxd_analysis_cache, marking>>
           ELSE /\ fxd_analysis_cache' = Stored(fxd_analysis_cache, f.opcodes, AnalysisFor(f))
                /\ marking' = Stored(marking, t, [block |-> b, analysis |-> f.opcodes])
                /\ UNCHANGED ran
      /\ visited' = [visited EXCEPT ![t] = @ \cup Noted(t, {f.opcodes})]
      /\ UNCHANGED <<engineVars, globals, reused, overlapped>>

\* The op_array whose analysis the mark in progress works with.
Owner(t) ==
  IF marking[t].analysis = DANGLING THEN DANGLING
  ELSE fxd_analysis_cache[marking[t].analysis].of

\* fxd_get_runtime: the runtime of the function, or a new one.
RuntimeFor(t, fn) ==
  IF fn \in DOMAIN files[t] THEN files[t][fn] ELSE [analysis |-> Owner(t), block_hit |-> {}]

\* The saturation mark is set, in some analysis or none if the memory is lost.
Saturate(t) ==
  IF marking[t].analysis # DANGLING
  THEN fxd_analysis_cache' =
         [fxd_analysis_cache EXCEPT ![marking[t].analysis].saturated = sat_generation[t]]
  ELSE \/ UNCHANGED fxd_analysis_cache
       \/ \E p \in DOMAIN fxd_analysis_cache :
            fxd_analysis_cache' = [fxd_analysis_cache EXCEPT ![p].saturated = sat_generation[t]]

\* The rest of fxd_mark for block b, an analysis read as an, and as one of
\* `total' blocks.
MarkUnder(t, b, an, total) ==
  LET f == Last(stack[t])
      hit == RuntimeFor(t, f.fn).block_hit
      complete == b \notin hit /\ Cardinality(hit) + 1 >= total
      slot == sat_last_opcodes' = [sat_last_opcodes EXCEPT ![t] = f.opcodes]
  IN  IF an.saturated = sat_generation[t] THEN slot /\ UNCHANGED <<fxd_analysis_cache, files>>
      ELSE IF b \notin Blocks(an.of)           \* the op is past the end of the analysis
      THEN UNCHANGED <<fxd_analysis_cache, sat_last_opcodes, files>>
      ELSE /\ files' = [files EXCEPT ![t] =
                 Stored(@, f.fn, [RuntimeFor(t, f.fn) EXCEPT !.block_hit = @ \cup {b}])]
           /\ IF complete THEN slot /\ Saturate(t)
              ELSE UNCHANGED <<fxd_analysis_cache, sat_last_opcodes>>

\* What may be read where an analysis was.
Contents == [of : OpArrays, saturated : 0 .. MaxSessions]

\* fxd_mark from the analysis on.
Record(t) ==
  /\ t \in DOMAIN marking
  /\ IF marking[t].analysis # DANGLING
     THEN LET an == fxd_analysis_cache[marking[t].analysis]
          IN  MarkUnder(t, marking[t].block, an, NumBlocks[an.of])
     ELSE \E an \in Contents, other \in OpArrays : \E b \in Blocks(an.of) \cup {NumBlocks[an.of]} :
            MarkUnder(t, b, an, NumBlocks[other])
  /\ Ran(t, marking[t].block)
  /\ marking' = [u \in DOMAIN marking \ {t} |-> marking[u]]
  /\ UNCHANGED <<engineVars, coverage_active, sat_generation, visited, reused, overlapped>>

\* Slip: the slot is not reset.
KeepSlot(t) == UNCHANGED sat_last_opcodes

ResetSlot(t) == sat_last_opcodes' = [sat_last_opcodes EXCEPT ![t] = NULL]

\* fxd_snapshot_oplines: the op_arrays of the active frames get an analysis.
Snapshot(t) ==
  LET new == {f \in Range(stack[t]) : f.opcodes \notin DOMAIN fxd_analysis_cache}
  IN  /\ fxd_analysis_cache' =
           [p \in DOMAIN fxd_analysis_cache \cup {f.opcodes : f \in new} |->
              IF p \in DOMAIN fxd_analysis_cache THEN fxd_analysis_cache[p]
              ELSE NewAnalysis((CHOOSE f \in new : f.opcodes = p).fn)]
      /\ visited' = [visited EXCEPT ![t] = @ \cup Noted(t, {f.opcodes : f \in Range(stack[t])})]

\* fxd_coverage_start.
Start(t) ==
  /\ stack[t] # <<>> /\ t \notin DOMAIN marking
  /\ MapThenSumSet(LAMBDA u : sat_generation[u], Threads) < MaxSessions
  /\ coverage_active' = [coverage_active EXCEPT ![t] = TRUE]
  /\ sat_generation' = [sat_generation EXCEPT ![t] = @ + 1]
  /\ ResetSlot(t)
  /\ Snapshot(t)
  /\ UNCHANGED <<engineVars, marking, files, ran, reused, overlapped>>

\* fxd_coverage_stop.
Stop(t) ==
  /\ stack[t] # <<>> /\ t \notin DOMAIN marking /\ coverage_active[t]
  /\ coverage_active' = [coverage_active EXCEPT ![t] = FALSE]
  /\ UNCHANGED <<engineVars, fxd_analysis_cache, marking, sat_generation, sat_last_opcodes,
                 files, history>>

RInit(t) ==
  /\ ~request[t]
  /\ request' = [request EXCEPT ![t] = TRUE]
  /\ coverage_active' = [coverage_active EXCEPT ![t] = FALSE]
  /\ files' = [files EXCEPT ![t] = EmptyTable]
  /\ IF Running = {}
     THEN overlapped' = {} /\ UNCHANGED <<ran, visited, reused>>
     ELSE /\ overlapped' = overlapped \cup Running \cup {t}
          /\ ran' = [u \in Threads |-> {}] /\ visited' = ran' /\ reused' = ran'
  /\ UNCHANGED <<stack, fxd_analysis_cache, marking, sat_generation, sat_last_opcodes>>

\* Pointers that other threads have to an analysis are left with nothing.
Dangle(t) ==
  /\ files' = [u \in Threads |->
       IF u = t THEN EmptyTable
       ELSE [fn \in DOMAIN files[u] |-> [files[u][fn] EXCEPT !.analysis = DANGLING]]]
  /\ marking' = [u \in DOMAIN marking |-> [marking[u] EXCEPT !.analysis = DANGLING]]

\* Slip: the analyses are freed and the table keeps their addresses.
FreeInPlace(t) ==
  /\ fxd_analysis_cache' = [p \in DOMAIN fxd_analysis_cache |-> NewAnalysis(DANGLING)]
  /\ Dangle(t)

\* fxd_coverage_rshutdown frees every analysis, whoever's pointers lead to it.
FreeTables(t) == fxd_analysis_cache' = EmptyTable /\ Dangle(t)

RShutdown(t) ==
  /\ request[t] /\ stack[t] = <<>>
  /\ request' = [request EXCEPT ![t] = FALSE]
  /\ FreeTables(t)
  /\ ran' = [ran EXCEPT ![t] = {}] /\ visited' = [visited EXCEPT ![t] = {}]
  /\ reused' = [reused EXCEPT ![t] = {}]
  /\ UNCHANGED <<stack, coverage_active, sat_generation, sat_last_opcodes, overlapped>>

Next ==
  \E t \in Threads :
    \/ \E fn \in OpArrays : Enter(t, fn)
    \/ Leave(t) \/ Lookup(t) \/ Record(t) \/ Start(t) \/ Stop(t) \/ RInit(t) \/ RShutdown(t)

Spec == Init /\ [][Next]_vars

-----------------------------------------------------------------------------
\* Properties.

RanOf(t, fn) == {x[2] : x \in {y \in ran[t] : y[1] = fn}}
HitOf(t, fn) == IF fn \in DOMAIN files[t] THEN files[t][fn].block_hit ELSE {}
RuntimeIsOwn(t, fn) == fn \in DOMAIN files[t] => files[t][fn].analysis = fn

(* coverage.c: "op_array pointers are stable for the lifetime of a request,  *)
(* so computing the analysis once per op_array per request is correct": a    *)
(* thread that runs its requests alone records of every op_array what ran of *)
(* it, under its own analysis.                                               *)
RecordsWhatRuns ==
  \A t \in Threads \ overlapped, fn \in OpArrays :
    RuntimeIsOwn(t, fn) /\ HitOf(t, fn) = RanOf(t, fn)

(* That is so of the op_arrays whose address was no other's before in the    *)
(* request.  Addresses that come back in a later request, the slot that      *)
(* outlives the request and marks of earlier sessions do no harm, and an     *)
(* op_array recorded under another's analysis does none to the others.       *)
RecordsUnlessReused ==
  \A t \in Threads \ overlapped, fn \in OpArrays :
    fn \notin reused[t] => RuntimeIsOwn(t, fn) /\ HitOf(t, fn) = RanOf(t, fn)

(* design.md: "ZTS builds are supported via module globals but the analysis  *)
(* cache and edge cache are request-scoped": while its request lasts, a      *)
(* thread's runtimes and its mark in progress point to analyses that have    *)
(* not been freed.                                                           *)
AnalysesRequestScoped ==
  \A t \in Threads :
    /\ t \in DOMAIN marking => marking[t].analysis # DANGLING
    /\ \A fn \in DOMAIN files[t] : files[t][fn].analysis # DANGLING
=============================================================================
